--------------------------- MODULE SignedConsent ---------------------------
(***************************************************************************)
(* How the Vault and the BalancerMinter come to act for somebody else: by  *)
(* approvals that last, and by signatures that serve once, before their    *)
(* deadline. The signatures are made by balancer-js (signatures.ts), which *)
(* reads the next nonce and asks for the signature later, while the        *)
(* contracts go on; whatever has been signed may be submitted by anybody,  *)
(* with any calldata, any number of times.                                 *)
(*                                                                         *)
(* A signature is the record of what was signed and by whom: nobody forges *)
(* it. What the authorized calls do besides, and the Vault's pause, are    *)
(* left out (Vault.tla).                                                   *)
(***************************************************************************)
EXTENDS Integers, Sequences, FiniteSets

CONSTANTS
    Users,              \* who signs
    Relayers, Minters,  \* who acts for them, at the Vault and at the BalancerMinter
    Reviewed,           \* the relayers whose permission governance reconsiders
    Anyone,             \* the sender of a call that anybody may submit
    VaultCalldata,      \* what is called at the Vault: [entry, user, relayer, approved]
    Requests,           \* what users are asked to sign, made by the operators below
    NotGiven,           \* an optional argument that is left out
    NoSignature,
    MAX_DEADLINE, MaxBlockTime,
    MaxSignatures, MaxCalls

VARIABLES
    nextNonce,          \* _nextNonce of each contract: validator -> user -> nonce
    relayerApprovals,   \* _approvedRelayers: pairs <<user, relayer>>
    allowedMinters,     \* _allowedMinter: pairs <<user, minter>>
    permittedRelayers,  \* relayers that the Authorizer lets call the Vault
    blockTime,
    signing,            \* messages whose nonce is known and that wait for the user
    signed,             \* the signatures there are
    calls               \* history of the calls that succeeded

nonceVars == <<nextNonce, relayerApprovals, allowedMinters>>
consentVars == <<nonceVars, permittedRelayers, blockTime, signing, signed, calls>>

Validators == {"vault", "minter"}

\* The functions of the BalancerMinter by which a user approves a minter.
MinterApprovals == {"SetMinterApproval", "SetMinterApprovalWithSignature"}

\* What can be signed, as to its shape.
Signatures ==
    [signer : Users, domain : Validators,
     struct : [type : STRING, nonce : Nat, deadline : Nat,
               content : [calldata : VaultCalldata, sender : Users \cup Relayers]
                         \cup [minter : Minters, approval : BOOLEAN]]]

\* The Vault has no function of the BalancerMinter's.
ASSUME ConsentAssumption ==
    /\ \A calldata \in VaultCalldata :
          /\ calldata.user \in Users /\ calldata.approved \in BOOLEAN
          /\ calldata.entry \in STRING \ MinterApprovals
    /\ MAX_DEADLINE \in Nat
    /\ NoSignature \notin Signatures

------------------------------------------------------------------------------
(* balancer-js: what a user is asked to sign.                              *)

RelayerAction == {"JoinPool", "ExitPool", "Swap", "BatchSwap", "SetRelayerApproval"}

Default(argument, default) == IF argument = NotGiven THEN default ELSE argument

signAuthorizationFor(type, user, allowedSender, allowedCalldata, deadline, nonce) ==
    [signer |-> user, domain |-> "vault",
     struct |-> [type |-> type,
                 content |-> [calldata |-> allowedCalldata, sender |-> allowedSender],
                 nonce |-> nonce, deadline |-> Default(deadline, MAX_DEADLINE)]]

signJoinAuthorization(user, allowedSender, allowedCalldata, deadline, nonce) ==
    signAuthorizationFor("JoinPool", user, allowedSender, allowedCalldata, deadline, nonce)

signExitAuthorization(user, allowedSender, allowedCalldata, deadline, nonce) ==
    signAuthorizationFor("ExitPool", user, allowedSender, allowedCalldata, deadline, nonce)

signSwapAuthorization(user, allowedSender, allowedCalldata, deadline, nonce) ==
    signAuthorizationFor("Swap", user, allowedSender, allowedCalldata, deadline, nonce)

signBatchSwapAuthorization(user, allowedSender, allowedCalldata, deadline, nonce) ==
    signAuthorizationFor("BatchSwap", user, allowedSender, allowedCalldata, deadline, nonce)

signSetRelayerApprovalAuthorization(user, allowedSender, allowedCalldata, deadline, nonce) ==
    signAuthorizationFor("SetRelayerApproval", user, allowedSender, allowedCalldata, deadline, nonce)

signSetMinterApproval(minter, approval, user, deadline, nonce) ==
    [signer |-> user, domain |-> "minter",
     struct |-> [type |-> "SetMinterApproval",
                 content |-> [minter |-> minter, approval |-> approval],
                 nonce |-> nonce, deadline |-> Default(deadline, MAX_DEADLINE)]]

encodeCalldataAuthorization(calldata, deadline, signature) ==
    [calldata |-> calldata, deadline |-> deadline, signature |-> signature]

\* A nonce that is not given, and also one given as the number zero, is read from the contract.
ReadNonce(request) ==
    /\ Cardinality(signing) + Cardinality(signed) < MaxSignatures
    /\ LET given == request.struct.nonce
           nonce == IF given \in {NotGiven, 0} THEN nextNonce[request.domain][request.signer]
                    ELSE given
       IN  signing' = signing \cup {[request EXCEPT !.struct.nonce = nonce]}
    /\ UNCHANGED <<nonceVars, permittedRelayers, blockTime, signed, calls>>

SignTypedData(message) ==
    /\ signing' = signing \ {message}
    /\ signed' = signed \cup {message}
    /\ UNCHANGED <<nonceVars, permittedRelayers, blockTime, calls>>

------------------------------------------------------------------------------
(* EOASignaturesValidator and ExtraCalldataEOASignaturesValidator.         *)

\* Mutant: only joins and the like use up the nonce.
AdvanceForCalls(validator, account) ==
    IF validator = "vault" THEN [nextNonce EXCEPT ![validator][account] = @ + 1] ELSE nextNonce

AdvancedNonce(validator, account) == [nextNonce EXCEPT ![validator][account] = @ + 1]

EnsureValidSignature(validator, account, struct, signature) ==
    /\ signature = [signer |-> account, domain |-> validator, struct |-> struct]
    /\ struct.deadline >= blockTime
    /\ nextNonce' = AdvancedNonce(validator, account)

\* _entrypointTypeHash: calls of other functions cannot be authorized by a signature.
EntrypointTypeHash(calldata) ==
    IF calldata.entry \in RelayerAction THEN calldata.entry ELSE NotGiven

ValidateExtraCalldataSignature(user, sender, extra) ==
    /\ EntrypointTypeHash(extra.calldata) # NotGiven
    /\ EnsureValidSignature("vault", user,
           [type |-> EntrypointTypeHash(extra.calldata),
            content |-> [calldata |-> extra.calldata, sender |-> sender],
            nonce |-> nextNonce["vault"][user], deadline |-> extra.deadline],
           extra.signature)

------------------------------------------------------------------------------
(* The Vault.                                                              *)

\* A relayer is permitted for all entry points or none (in the code, for each). The nonce
\* moves only for a relayer that the user has not approved.
AuthenticateFor(user, sender, extra) ==
    \/ sender = user /\ UNCHANGED nextNonce
    \/ /\ sender # user /\ sender \in permittedRelayers
       /\ IF <<user, sender>> \in relayerApprovals THEN UNCHANGED nextNonce
          ELSE ValidateExtraCalldataSignature(user, sender, extra)

With(approvals, pair, approved) ==
    IF approved THEN approvals \cup {pair} ELSE approvals \ {pair}

Performed(validator, calldata, sender) ==
    /\ Len(calls) < MaxCalls
    /\ calls' = Append(calls, [validator |-> validator, calldata |-> calldata, sender |-> sender,
                               time |-> blockTime, permitted |-> sender \in permittedRelayers])
    /\ UNCHANGED <<permittedRelayers, blockTime, signing, signed>>

SetRelayerApproval(sender, extra) ==
    LET calldata == extra.calldata IN
    /\ calldata.entry = "SetRelayerApproval"
    /\ AuthenticateFor(calldata.user, sender, extra)
    /\ relayerApprovals' =
           With(relayerApprovals, <<calldata.user, calldata.relayer>>, calldata.approved)
    /\ UNCHANGED allowedMinters
    /\ Performed("vault", calldata, sender)

\* joinPool, exitPool, swap, batchSwap, and manageUserBalance, which has no type hash.
ActFor(sender, extra) ==
    /\ extra.calldata.entry # "SetRelayerApproval"
    /\ AuthenticateFor(extra.calldata.user, sender, extra)
    /\ UNCHANGED <<relayerApprovals, allowedMinters>>
    /\ Performed("vault", extra.calldata, sender)

------------------------------------------------------------------------------
(* The BalancerMinter.                                                     *)

MinterCalldata(entry, user, minter, approval) ==
    [entry |-> entry, user |-> user, relayer |-> minter, approved |-> approval]

\* _setMinterApproval
SetAllowedMinter(minter, user, approval) ==
    allowedMinters' = With(allowedMinters, <<user, minter>>, approval)

setMinterApproval(sender, minter, approval) ==
    /\ SetAllowedMinter(minter, sender, approval)
    /\ UNCHANGED <<nextNonce, relayerApprovals>>
    /\ Performed("minter", MinterCalldata("SetMinterApproval", sender, minter, approval), sender)

toggle_approve_mint(sender, minter) ==
    setMinterApproval(sender, minter, <<sender, minter>> \notin allowedMinters)

setMinterApprovalWithSignature(sender, minter, approval, user, deadline, signature) ==
    /\ EnsureValidSignature("minter", user,
           [type |-> "SetMinterApproval",
            content |-> [minter |-> minter, approval |-> approval],
            nonce |-> nextNonce["minter"][user], deadline |-> deadline],
           signature)
    /\ SetAllowedMinter(minter, user, approval)
    /\ UNCHANGED relayerApprovals
    /\ Performed("minter", MinterCalldata("SetMinterApprovalWithSignature", user, minter, approval), sender)

mintFor(sender, user) ==
    /\ <<user, sender>> \in allowedMinters
    /\ UNCHANGED nonceVars
    /\ Performed("minter", MinterCalldata("MintFor", user, NotGiven, FALSE), sender)

------------------------------------------------------------------------------
\* The Authorizer, which governance changes.
PermitRelayer(relayer, permitted) ==
    /\ permittedRelayers' = IF permitted THEN permittedRelayers \cup {relayer}
                            ELSE permittedRelayers \ {relayer}
    /\ UNCHANGED <<nonceVars, blockTime, signing, signed, calls>>

BlockTimePasses ==
    /\ blockTime < MaxBlockTime
    /\ blockTime' = blockTime + 1
    /\ UNCHANGED <<nonceVars, permittedRelayers, signing, signed, calls>>

ConsentInit ==
    /\ nextNonce = [v \in Validators |-> [u \in Users |-> 0]]
    /\ relayerApprovals = {} /\ allowedMinters = {} /\ permittedRelayers = Relayers
    /\ blockTime = 0 /\ signing = {} /\ signed = {} /\ calls = <<>>

\* What is appended to the calldata is any signature there is, or none.
Extras ==
    {encodeCalldataAuthorization(c, d, s) :
        c \in VaultCalldata, s \in signed, d \in {x.struct.deadline : x \in signed}}
    \cup {encodeCalldataAuthorization(c, MAX_DEADLINE, NoSignature) : c \in VaultCalldata}

SigningNext ==
    \/ \E request \in Requests : ReadNonce(request)
    \/ \E message \in signing : SignTypedData(message)

VaultCallsNext ==
    \E sender \in Users \cup Relayers, extra \in Extras :
        SetRelayerApproval(sender, extra) \/ ActFor(sender, extra)

MinterCallsNext ==
    \/ \E user \in Users, minter \in Minters :
          \/ \E approval \in BOOLEAN : setMinterApproval(user, minter, approval)
          \/ toggle_approve_mint(user, minter)
          \/ mintFor(minter, user)
          \/ \E s \in signed, approval \in BOOLEAN, deadline \in {x.struct.deadline : x \in signed} :
                setMinterApprovalWithSignature(Anyone, minter, approval, user, deadline, s)

ConsentNext ==
    \/ SigningNext \/ VaultCallsNext \/ MinterCallsNext
    \/ \E relayer \in Reviewed, permitted \in BOOLEAN : PermitRelayer(relayer, permitted)
    \/ BlockTimePasses

ConsentSpec == ConsentInit /\ [][ConsentNext]_consentVars

------------------------------------------------------------------------------
(* Properties, of what has been called and signed alone.                   *)

Own(i) == calls[i].sender = calls[i].calldata.user

\* The i-th call is made by somebody whom the user approved by an earlier call, at the same
\* contract, that no later one revoked.
ApprovalOf(j, i) ==
    /\ calls[j].validator = calls[i].validator
    /\ calls[j].calldata.entry \in {"SetRelayerApproval"} \cup MinterApprovals
    /\ calls[j].calldata.user = calls[i].calldata.user
    /\ calls[j].calldata.relayer = calls[i].sender
ByApproval(i) ==
    \E j \in 1 .. i - 1 :
        /\ ApprovalOf(j, i) /\ calls[j].calldata.approved
        /\ \A k \in j + 1 .. i - 1 : ApprovalOf(k, i) => calls[k].calldata.approved

NeedsSignature(i) ==
    IF calls[i].validator = "vault" THEN ~Own(i) /\ ~ByApproval(i)
    ELSE calls[i].calldata.entry = "SetMinterApprovalWithSignature"

SignaturesUsed(validator, user, last) ==
    Cardinality({j \in 1 .. last : /\ calls[j].validator = validator
                                   /\ calls[j].calldata.user = user
                                   /\ NeedsSignature(j)})

\* The user signed exactly this call, for the place it has among those they signed.
BySignature(i) ==
    LET call == calls[i]  c == call.calldata IN
    \E s \in signed :
        /\ s.signer = c.user /\ s.domain = call.validator
        /\ s.struct.nonce = SignaturesUsed(call.validator, c.user, i - 1)
        /\ call.time <= s.struct.deadline
        /\ IF call.validator = "vault"
           THEN /\ s.struct.type = c.entry
                /\ s.struct.content = [calldata |-> c, sender |-> call.sender]
           ELSE /\ s.struct.type = "SetMinterApproval"
                /\ s.struct.content = [minter |-> c.relayer, approval |-> c.approved]

\* Nobody's relayer or minter acts without consent: a call in somebody's name is theirs, or
\* of somebody whom they approve at that moment, or one that they signed, before its
\* deadline, once, in the order of its nonce; and the Authorizer knows the relayer. Approved
\* callers use up no signature, so that all that is signed stays good until another
\* signature of the user, or its deadline, overtakes it.
EveryCallConsented ==
    /\ \A i \in DOMAIN calls :
          IF NeedsSignature(i) THEN BySignature(i) ELSE Own(i) \/ ByApproval(i)
    /\ \A i \in DOMAIN calls : calls[i].validator = "vault" => Own(i) \/ calls[i].permitted
    /\ \A v \in Validators, u \in Users : nextNonce[v][u] = SignaturesUsed(v, u, Len(calls))
==============================================================================
