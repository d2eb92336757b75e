----------------------- MODULE MCTimelockDelayPromise -----------------------
(* TimelockDelayPromise on a small instance: the delay of one action changes. *)
EXTENDS TimelockDelayPromise

CONSTANT Vault

MCDelayableVault == {ActId(SetAuthorizer)}
OnlyVault == {Vault}
NoExecutors == {{}}
=============================================================================
