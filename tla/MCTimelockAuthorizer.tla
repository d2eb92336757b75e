------------------------ MODULE MCTimelockAuthorizer ------------------------
(* TimelockAuthorizer on small instances. *)
EXTENDS TimelockAuthorizer

CONSTANTS Act, Vault

SetAuthId == ActId(SetAuthorizer)
AId == ActId(Act)
MCDelayableVault == {SetAuthId}
MCDelayableGrants == {SetAuthId, GrantId(AId), RevokeId(AId)}
MCDelayableSetAuthGrants == {SetAuthId, GrantId(SetAuthId), RevokeId(SetAuthId)}
MCGrantableSetAuth == {SetAuthId}
MCGrantable == {AId}
NoExecutors == {{}}
OneExecutor == {{Admin}}
OnlyVault == {Vault}
=============================================================================
