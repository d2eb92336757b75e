---------------------------- MODULE MCPoolTokens ----------------------------
(* PoolTokens on small instances: one Pool, of any specialization. *)
EXTENDS PoolTokens

\* Lists with a zero address, a repeated token and the wrong order among them.
ListsToRegister == {<<1>>, <<1, 2>>, <<2, 1>>, <<2, 2>>, <<0, 1>>}
OnePair == {<<1, 2>>}
ListsToDeregister == {<<1>>, <<2>>, <<1, 2>>, <<2, 1>>}
RepeatedToken == {<<1, 1>>}
=============================================================================
