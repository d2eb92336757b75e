------------------------- MODULE MCTimelockHistory -------------------------
(* TimelockAuthorizerHistory on small instances. *)
EXTENDS TimelockAuthorizerHistory

CONSTANTS Act, Vault

SetAuthId == ActId(SetAuthorizer)
AId == ActId(Act)
MCDelayableVault == {SetAuthId}
MCGrantableSetAuth == {SetAuthId}
NoExecutors == {{}}
OnlyVault == {Vault}
=============================================================================
