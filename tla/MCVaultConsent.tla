--------------------------- MODULE MCVaultConsent ---------------------------
(* What the Vault does, and for whom: its operations, and the consent of users *)
(* that they and the BalancerMinter ask for, which share no state, explored    *)
(* each on its own from one initial state or another.                          *)
EXTENDS MCVault, SignedConsent

VARIABLE explored

allVars == <<explored, vars, consentVars>>

------------------------------------------------------------------------------
\* Two relayers and a minter, who is one of them. One relayer is asked to join twice, with
\* two deadlines; another is approved by signature, and so is the minter, who may be
\* revoked by a call in between.
Call(entry, relayer, approved) ==
    [entry |-> entry, user |-> "user", relayer |-> relayer, approved |-> approved]
MCCalldata ==
    {Call("JoinPool", NotGiven, FALSE), Call("ManageUserBalance", NotGiven, FALSE),
     Call("SetRelayerApproval", "r1", TRUE), Call("SetRelayerApproval", "r1", FALSE)}
MCRequests ==
    LET joining == Call("JoinPool", NotGiven, FALSE)
        approval == Call("SetRelayerApproval", "r1", TRUE)
    IN  {signJoinAuthorization("user", "r1", joining, 0, NotGiven),
         signSwapAuthorization("user", "r1", joining, NotGiven, NotGiven),
         signJoinAuthorization("user", "r2", joining, NotGiven, 1),
         signSetRelayerApprovalAuthorization("user", "r2", approval, NotGiven, 0),
         signSetMinterApproval("r1", TRUE, "user", NotGiven, NotGiven)}

------------------------------------------------------------------------------
VaultConsentInit ==
    /\ explored \in {"operations", "consent"}
    /\ Init /\ ConsentInit
    /\ explored = "operations" \/ \A t \in Tokens : balanceOf[t][Alice] = Supply

OperationStep == explored = "operations" /\ Next /\ UNCHANGED <<explored, consentVars>>
ConsentStep   == explored = "consent" /\ ConsentNext /\ UNCHANGED <<explored, vars>>

VaultConsentSpec == VaultConsentInit /\ [][OperationStep \/ ConsentStep]_allVars
==============================================================================
