------------------------------- MODULE MCVault -------------------------------
(* Vault on small instances. *)
EXTENDS Vault

CONSTANTS Alice, Bob, APool, BPool

\* Bob manages the assets of every Pool.
BobManages == [p \in Pools |-> Bob]
=============================================================================
