-------------------------- MODULE SignedConsent_proofs --------------------------
(***************************************************************************)
(* Every call of the Vault and of the BalancerMinter in somebody's name    *)
(* has their consent: for any users, relayers, minters and signatures, and *)
(* calls without number.                                                   *)
(***************************************************************************)
EXTENDS SignedConsent, FiniteSetTheorems, SequenceTheorems, TLAPS

------------------------------------------------------------------------------
(* The inductive invariant: what the approvals recorded by the contracts   *)
(* are, of the calls that succeeded.                                       *)

Actors == Users \cup Relayers \cup Minters

Calldata ==
    VaultCalldata \cup
    [entry : MinterApprovals \cup {"MintFor"}, user : Users, relayer : Minters \cup {NotGiven},
     approved : BOOLEAN]

Calls == [validator : Validators, calldata : Calldata, sender : Actors \cup {Anyone},
          time : Nat, permitted : BOOLEAN]

ConsentTypeOK ==
    /\ nextNonce \in [Validators -> [Users -> Nat]]
    /\ blockTime \in Nat
    /\ calls \in Seq(Calls)

\* The j-th call approves the actor, or revokes the approval.
IsApproval(j, validator, user, actor) ==
    /\ calls[j].validator = validator
    /\ calls[j].calldata.entry \in {"SetRelayerApproval"} \cup MinterApprovals
    /\ calls[j].calldata.user = user
    /\ calls[j].calldata.relayer = actor

\* The last call about the actor, if any, approves it.
Approved(validator, user, actor) ==
    \E j \in 1 .. Len(calls) :
        /\ IsApproval(j, validator, user, actor) /\ calls[j].calldata.approved
        /\ \A k \in j + 1 .. Len(calls) :
              IsApproval(k, validator, user, actor) => calls[k].calldata.approved

ApprovalsRecorded ==
    \A user \in Users, actor \in Actors :
        /\ Approved("vault", user, actor) <=> <<user, actor>> \in relayerApprovals
        /\ Approved("minter", user, actor) <=> <<user, actor>> \in allowedMinters

ConsentInv == ConsentTypeOK /\ ApprovalsRecorded /\ EveryCallConsented

ConsentStep == ConsentNext \/ UNCHANGED consentVars

------------------------------------------------------------------------------
(* A call is appended to the history.                                      *)

Appended(call, n) ==
    calls \in Seq(Calls) /\ call \in Calls /\ calls' = Append(calls, call) /\ n = Len(calls)

LEMMA AppendedCall ==
    ASSUME NEW call, NEW n, Appended(call, n)
    PROVE  /\ n \in Nat /\ Len(calls) = n /\ Len(calls') = n + 1
           /\ calls' \in Seq(Calls)
           /\ \A j \in 1 .. n : calls'[j] = calls[j]
           /\ calls'[n + 1] = call
BY AppendProperties DEF Appended

\* What was said of the earlier calls stays so.
LEMMA EarlierUnchanged ==
    ASSUME NEW call, NEW n, Appended(call, n), NEW i \in 1 .. n
    PROVE  /\ Own(i)' <=> Own(i)
           /\ ByApproval(i)' <=> ByApproval(i)
           /\ NeedsSignature(i)' <=> NeedsSignature(i)
<1>1. n \in Nat /\ \A j \in 1 .. n : calls'[j] = calls[j]
    BY AppendedCall
<1>2. Own(i)' <=> Own(i)
    BY <1>1 DEF Own
<1>3. \A j \in 1 .. i - 1 : j \in 1 .. n
    BY <1>1
<1>4. ByApproval(i)' <=> ByApproval(i)
  <2>1. \A j \in 1 .. i - 1 :
            /\ ApprovalOf(j, i)' <=> ApprovalOf(j, i)
            /\ calls'[j] = calls[j]
      BY <1>1, <1>3 DEF ApprovalOf
  <2>2. \A j \in 1 .. i - 1 : \A k \in j + 1 .. i - 1 : k \in 1 .. i - 1
      OBVIOUS
  <2> QED BY <2>1, <2>2 DEF ByApproval
<1>5. NeedsSignature(i)' <=> NeedsSignature(i)
    BY <1>1, <1>2, <1>4 DEF NeedsSignature
<1> QED BY <1>2, <1>4, <1>5

\* The calls that used up a signature, up to some call.
Signers(validator, user, last) ==
    {j \in 1 .. last : /\ calls[j].validator = validator
                       /\ calls[j].calldata.user = user
                       /\ NeedsSignature(j)}

LEMMA SignersFinite ==
    ASSUME NEW validator, NEW user, NEW last \in Nat
    PROVE  IsFiniteSet(Signers(validator, user, last))
<1>1. IsFiniteSet(1 .. last)
    BY FS_Interval
<1> QED BY <1>1, FS_Subset DEF Signers

LEMMA EarlierSigners ==
    ASSUME NEW call, NEW n, Appended(call, n), NEW validator, NEW user, NEW last \in 0 .. n
    PROVE  SignaturesUsed(validator, user, last)' = SignaturesUsed(validator, user, last)
<1>1. n \in Nat /\ \A j \in 1 .. n : calls'[j] = calls[j]
    BY AppendedCall
<1>2. \A j \in 1 .. last : j \in 1 .. n
    BY <1>1
<1>3. \A j \in 1 .. last : calls'[j] = calls[j] /\ (NeedsSignature(j)' <=> NeedsSignature(j))
    BY <1>1, <1>2, EarlierUnchanged
<1>4. Signers(validator, user, last)' = Signers(validator, user, last)
    BY <1>3 DEF Signers
<1> QED BY <1>4 DEF SignaturesUsed, Signers

\* The call that is appended is counted if it used up a signature.
LEMMA LastSigner ==
    ASSUME NEW call, NEW n, Appended(call, n), NEW validator, NEW user
    PROVE  /\ SignaturesUsed(validator, user, Len(calls)) \in Nat
           /\ SignaturesUsed(validator, user, Len(calls))'
                = SignaturesUsed(validator, user, Len(calls))
                  + IF call.validator = validator /\ call.calldata.user = user
                       /\ NeedsSignature(n + 1)'
                    THEN 1 ELSE 0
<1> DEFINE before == Signers(validator, user, n)
           after  == Signers(validator, user, n + 1)'
           counted == /\ call.validator = validator /\ call.calldata.user = user
                      /\ NeedsSignature(n + 1)'
<1>1. n \in Nat /\ Len(calls) = n /\ Len(calls') = n + 1 /\ calls'[n + 1] = call /\ \A j \in 1 .. n : calls'[j] = calls[j]
    BY AppendedCall
<1>2. IsFiniteSet(before) /\ n + 1 \notin before
  <2>1. IsFiniteSet(before)
      BY <1>1, SignersFinite
  <2>2. n + 1 \notin 1 .. n
      BY <1>1
  <2> QED BY <2>1, <2>2 DEF Signers
<1>3. \A j \in 1 .. n + 1 : j \in 1 .. n \/ j = n + 1
    BY <1>1
<1>4. after = {j \in 1 .. n + 1 : /\ calls'[j].validator = validator
                                  /\ calls'[j].calldata.user = user
                                  /\ NeedsSignature(j)'}
    BY DEF Signers
<1>5. \A j \in 1 .. n : j \in after <=> j \in before
  <2>1. TAKE j \in 1 .. n
  <2>2. calls'[j] = calls[j] /\ (NeedsSignature(j)' <=> NeedsSignature(j)) /\ j \in 1 .. n + 1
      BY <1>1, <2>1, EarlierUnchanged
  <2> QED BY <2>2, <1>4 DEF Signers
<1>6. n + 1 \in after <=> counted
    BY <1>1, <1>4
<1>7. after \subseteq 1 .. n + 1 /\ before \subseteq 1 .. n
    BY <1>4 DEF Signers
<1>8. /\ SignaturesUsed(validator, user, Len(calls)) = Cardinality(before)
      /\ SignaturesUsed(validator, user, Len(calls))' = Cardinality(after)
    BY <1>1 DEF SignaturesUsed, Signers
<1> HIDE DEF before, after, counted
<1>9. Cardinality(before) \in Nat
    BY <1>2, FS_CardinalityType
<1>10. CASE counted
  <2>1. after = before \cup {n + 1}
      BY <1>3, <1>5, <1>6, <1>7, <1>10
  <2>2. Cardinality(after) = Cardinality(before) + 1
      BY <2>1, <1>2, FS_AddElement
  <2> QED BY <2>2, <1>8, <1>9, <1>10 DEF counted
<1>11. CASE ~counted
  <2>1. after = before
      BY <1>1, <1>3, <1>5, <1>6, <1>7, <1>11
  <2> QED BY <2>1, <1>8, <1>9, <1>11 DEF counted
<1> QED BY <1>10, <1>11

\* Who is approved after a call: it decides itself, or leaves it as it was.
LEMMA LastApproval ==
    ASSUME NEW call, NEW n, Appended(call, n), NEW validator, NEW user, NEW actor
    PROVE  /\ Approved(validator, user, actor)' <=>
                  IF /\ call.validator = validator
                     /\ call.calldata.entry \in {"SetRelayerApproval"} \cup MinterApprovals
                     /\ call.calldata.user = user /\ call.calldata.relayer = actor
                  THEN call.calldata.approved
                  ELSE Approved(validator, user, actor)
<1> DEFINE about(j) == IsApproval(j, validator, user, actor)
           aboutNow == about(n + 1)'
           yes(j) == calls[j].calldata.approved
<1>1. n \in Nat /\ Len(calls) = n /\ Len(calls') = n + 1 /\ calls'[n + 1] = call /\ \A j \in 1 .. n : calls'[j] = calls[j]
    BY AppendedCall
<1>2. \A j \in 1 .. n : (about(j)' <=> about(j)) /\ (yes(j)' <=> yes(j))
    BY <1>1 DEF IsApproval
<1>3. aboutNow <=> /\ call.validator = validator
                   /\ call.calldata.entry \in {"SetRelayerApproval"} \cup MinterApprovals
                   /\ call.calldata.user = user /\ call.calldata.relayer = actor
    BY <1>1 DEF IsApproval
<1>4. Approved(validator, user, actor) <=>
          \E j \in 1 .. n : about(j) /\ yes(j) /\ \A k \in j + 1 .. n : about(k) => yes(k)
    BY <1>1 DEF Approved
<1>5. Approved(validator, user, actor)' <=>
          \E j \in 1 .. n + 1 : about(j)' /\ yes(j)' /\ \A k \in j + 1 .. n + 1 : about(k)' => yes(k)'
    BY <1>1 DEF Approved
<1>6. yes(n + 1)' <=> call.calldata.approved
    BY <1>1
<1> HIDE DEF about, yes
<1>7. CASE aboutNow
  <2>1. CASE yes(n + 1)'
    <3>1. n + 1 \in 1 .. n + 1 /\ (n + 1) + 1 .. n + 1 = {}
        BY <1>1
    <3>2. Approved(validator, user, actor)'
        BY <3>1, <2>1, <1>5, <1>7
    <3> QED BY <3>2, <2>1, <1>3, <1>6, <1>7
  <2>2. CASE ~yes(n + 1)'
    <3>1. \A j \in 1 .. n + 1 : j = n + 1 \/ n + 1 \in j + 1 .. n + 1
        BY <1>1
    <3>2. ~Approved(validator, user, actor)'
        BY <3>1, <2>2, <1>5, <1>7
    <3> QED BY <3>2, <2>2, <1>3, <1>6, <1>7
  <2> QED BY <2>1, <2>2
<1>8. CASE ~aboutNow
  <2>1. Approved(validator, user, actor)' <=>
            \E j \in 1 .. n : about(j)' /\ yes(j)' /\ \A k \in j + 1 .. n + 1 : about(k)' => yes(k)'
    <3>1. \A j \in 1 .. n + 1 : j \in 1 .. n \/ j = n + 1
        BY <1>1
    <3>2. \A j \in 1 .. n : j \in 1 .. n + 1
        BY <1>1
    <3> QED BY <3>1, <3>2, <1>5, <1>8
  <2>2. ASSUME NEW j \in 1 .. n
        PROVE  (\A k \in j + 1 .. n + 1 : about(k)' => yes(k)') <=> (\A k \in j + 1 .. n : about(k) => yes(k))
    <3>1. \A k \in j + 1 .. n + 1 : k \in j + 1 .. n \/ k = n + 1
        BY <1>1
    <3>2. \A k \in j + 1 .. n : k \in j + 1 .. n + 1 /\ k \in 1 .. n
        BY <1>1
    <3> QED BY <3>1, <3>2, <1>2, <1>8
  <2>3. Approved(validator, user, actor)' <=> Approved(validator, user, actor)
      BY <2>1, <2>2, <1>2, <1>4
  <2> QED BY <2>3, <1>3, <1>8
<1> QED BY <1>7, <1>8

\* A caller is approved as the history stands before the call.
LEMMA CallerApproved ==
    ASSUME NEW call, NEW n, Appended(call, n)
    PROVE  /\ calls'[n + 1] = call
           /\ Own(n + 1)' <=> call.sender = call.calldata.user
           /\ ByApproval(n + 1)' <=> Approved(call.validator, call.calldata.user, call.sender)
<1> DEFINE about(j) == IsApproval(j, call.validator, call.calldata.user, call.sender)
           aboutNext(j) == ApprovalOf(j, n + 1)'
<1>1. n \in Nat /\ Len(calls) = n /\ calls'[n + 1] = call /\ \A j \in 1 .. n : calls'[j] = calls[j]
    BY AppendedCall
<1>2. \A j \in 1 .. n : aboutNext(j) <=> about(j)
    BY <1>1 DEF IsApproval, ApprovalOf
<1>3. (n + 1) - 1 = n
    BY <1>1
<1>4. ByApproval(n + 1)' <=>
          \E j \in 1 .. n : aboutNext(j) /\ calls'[j].calldata.approved
                            /\ \A k \in j + 1 .. n : aboutNext(k) => calls'[k].calldata.approved
    BY <1>3 DEF ByApproval
<1>5. Approved(call.validator, call.calldata.user, call.sender) <=>
          \E j \in 1 .. n : about(j) /\ calls[j].calldata.approved
                            /\ \A k \in j + 1 .. n : about(k) => calls[k].calldata.approved
    BY <1>1 DEF Approved
<1>6. Own(n + 1)' <=> call.sender = call.calldata.user
    BY <1>1 DEF Own
<1> HIDE DEF about, aboutNext
<1>7. \A j \in 1 .. n : \A k \in j + 1 .. n : k \in 1 .. n
    BY <1>1
<1>8. ByApproval(n + 1)' <=> Approved(call.validator, call.calldata.user, call.sender)
    BY <1>1, <1>2, <1>4, <1>5, <1>7
<1> QED BY <1>1, <1>6, <1>8

\* The relayer or minter of an approving call, as it is recorded.
RecordedBy(call) ==
    LET pair == <<call.calldata.user, call.calldata.relayer>>
        approving == call.calldata.entry \in {"SetRelayerApproval"} \cup MinterApprovals
    IN  /\ relayerApprovals' = IF approving /\ call.validator = "vault"
                               THEN With(relayerApprovals, pair, call.calldata.approved)
                               ELSE relayerApprovals
        /\ allowedMinters' = IF approving /\ call.validator = "minter"
                             THEN With(allowedMinters, pair, call.calldata.approved)
                             ELSE allowedMinters

LEMMA ApprovalsKept ==
    ASSUME ConsentInv, NEW call, NEW n, Appended(call, n), RecordedBy(call),
           call.calldata.approved \in BOOLEAN
    PROVE  ApprovalsRecorded'
<1> SUFFICES ASSUME NEW user \in Users, NEW actor \in Actors
             PROVE  /\ Approved("vault", user, actor)' <=> <<user, actor>> \in relayerApprovals'
                    /\ Approved("minter", user, actor)' <=> <<user, actor>> \in allowedMinters'
    BY DEF ApprovalsRecorded
<1> DEFINE approving == call.calldata.entry \in {"SetRelayerApproval"} \cup MinterApprovals
           pair == <<call.calldata.user, call.calldata.relayer>>
           same == call.calldata.user = user /\ call.calldata.relayer = actor
<1>1. /\ Approved("vault", user, actor) <=> <<user, actor>> \in relayerApprovals
      /\ Approved("minter", user, actor) <=> <<user, actor>> \in allowedMinters
    BY DEF ConsentInv, ApprovalsRecorded
<1>2. ASSUME NEW validator
      PROVE  Approved(validator, user, actor)' <=>
                 IF call.validator = validator /\ approving /\ same
                 THEN call.calldata.approved ELSE Approved(validator, user, actor)
    BY LastApproval
<1>3. same <=> pair = <<user, actor>>
    OBVIOUS
<1>4. /\ relayerApprovals' = IF approving /\ call.validator = "vault"
                             THEN With(relayerApprovals, pair, call.calldata.approved)
                             ELSE relayerApprovals
      /\ allowedMinters' = IF approving /\ call.validator = "minter"
                           THEN With(allowedMinters, pair, call.calldata.approved)
                           ELSE allowedMinters
    BY DEF RecordedBy
<1> HIDE DEF approving, same, pair
<1>5. ASSUME NEW approvals
      PROVE  <<user, actor>> \in With(approvals, pair, call.calldata.approved) <=>
                 IF same THEN call.calldata.approved ELSE <<user, actor>> \in approvals
    BY <1>3 DEF With
<1>6. Approved("vault", user, actor)' <=> <<user, actor>> \in relayerApprovals'
  <2>1. CASE approving /\ call.validator = "vault"
      BY <2>1, <1>1, <1>2, <1>4, <1>5
  <2>2. CASE ~(approving /\ call.validator = "vault")
      BY <2>2, <1>1, <1>2, <1>4
  <2> QED BY <2>1, <2>2
<1>7. Approved("minter", user, actor)' <=> <<user, actor>> \in allowedMinters'
  <2>1. CASE approving /\ call.validator = "minter"
      BY <2>1, <1>1, <1>2, <1>4, <1>5
  <2>2. CASE ~(approving /\ call.validator = "minter")
      BY <2>2, <1>1, <1>2, <1>4
  <2> QED BY <2>1, <2>2
<1> QED BY <1>6, <1>7

\* What a call does with the nonce, and the consent it has.
SignedNow(call) ==
    \E s \in signed :
        /\ s.signer = call.calldata.user /\ s.domain = call.validator
        /\ s.struct.nonce = nextNonce[call.validator][call.calldata.user]
        /\ call.time <= s.struct.deadline
        /\ IF call.validator = "vault"
           THEN /\ s.struct.type = call.calldata.entry
                /\ s.struct.content = [calldata |-> call.calldata, sender |-> call.sender]
           ELSE /\ s.struct.type = "SetMinterApproval"
                /\ s.struct.content = [minter |-> call.calldata.relayer,
                                       approval |-> call.calldata.approved]

\* What a call is admitted on, by the state of the contracts alone.
SignatureDue(call) ==
    IF call.validator = "vault"
    THEN call.sender # call.calldata.user /\ <<call.calldata.user, call.sender>> \notin relayerApprovals
    ELSE call.calldata.entry = "SetMinterApprovalWithSignature"

Admitted(call) ==
    /\ IF SignatureDue(call)
       THEN /\ SignedNow(call)
            /\ nextNonce' = [nextNonce EXCEPT ![call.validator][call.calldata.user] = @ + 1]
       ELSE /\ nextNonce' = nextNonce
            /\ call.validator = "minter" =>
                  \/ call.sender = call.calldata.user
                  \/ call.sender \in Actors /\ <<call.calldata.user, call.sender>> \in allowedMinters
    /\ call.validator = "vault" =>
          call.sender \in Actors /\ (call.sender = call.calldata.user \/ call.permitted)
    /\ signed' = signed

\* A call that the contracts admit is one that needed a signature, and had it, or needed none.
LEMMA AdmittedHasConsent ==
    ASSUME ConsentInv, NEW call, NEW n, Appended(call, n), call.calldata.user \in Users, Admitted(call)
    PROVE  /\ NeedsSignature(n + 1)' <=> SignatureDue(call)
           /\ ~SignatureDue(call) => Own(n + 1)' \/ ByApproval(n + 1)'
<1>1. call.validator \in Validators
    BY DEF Appended, Calls
<1>2. /\ calls'[n + 1] = call
      /\ Own(n + 1)' <=> call.sender = call.calldata.user
      /\ ByApproval(n + 1)' <=> Approved(call.validator, call.calldata.user, call.sender)
    BY CallerApproved
<1>3. NeedsSignature(n + 1)' <=>
          IF call.validator = "vault" THEN ~Own(n + 1)' /\ ~ByApproval(n + 1)'
          ELSE call.calldata.entry = "SetMinterApprovalWithSignature"
    BY <1>2 DEF NeedsSignature
<1>4. CASE call.validator = "vault"
  <2>1. call.sender \in Actors
      BY <1>4 DEF Admitted
  <2>2. Approved("vault", call.calldata.user, call.sender)
           <=> <<call.calldata.user, call.sender>> \in relayerApprovals
      BY <2>1 DEF ConsentInv, ApprovalsRecorded
  <2> QED BY <1>2, <1>3, <1>4, <2>2 DEF SignatureDue
<1>5. CASE call.validator = "minter"
  <2>1. call.sender \in Actors =>
           (Approved("minter", call.calldata.user, call.sender)
              <=> <<call.calldata.user, call.sender>> \in allowedMinters)
      BY DEF ConsentInv, ApprovalsRecorded
  <2> QED BY <1>2, <1>3, <1>5, <2>1 DEF SignatureDue, Admitted
<1> QED BY <1>1, <1>4, <1>5 DEF Validators

LEMMA ConsentKept ==
    ASSUME ConsentInv, NEW call, NEW n, Appended(call, n), call.calldata.user \in Users, Admitted(call)
    PROVE  EveryCallConsented'
<1>1. /\ n \in Nat /\ Len(calls) = n /\ Len(calls') = n + 1 /\ calls'[n + 1] = call
      /\ \A j \in 1 .. n : calls'[j] = calls[j]
      /\ DOMAIN calls = 1 .. n /\ DOMAIN calls' = 1 .. n + 1
    BY AppendedCall DEF Appended
<1>2. \A j \in 1 .. n + 1 : j \in 1 .. n \/ j = n + 1
    BY <1>1
<1>3. /\ NeedsSignature(n + 1)' <=> SignatureDue(call)
      /\ ~SignatureDue(call) => Own(n + 1)' \/ ByApproval(n + 1)'
    BY AdmittedHasConsent
<1>4. \A v \in Validators, u \in Users : nextNonce[v][u] = SignaturesUsed(v, u, n)
    BY <1>1 DEF ConsentInv, EveryCallConsented
<1>5. call.validator \in Validators
    BY DEF Appended, Calls
<1>6. ASSUME NEW i \in 1 .. n + 1
      PROVE  (IF NeedsSignature(i) THEN BySignature(i) ELSE Own(i) \/ ByApproval(i))'
  <2>1. CASE i \in 1 .. n
    <3>1. IF NeedsSignature(i) THEN BySignature(i) ELSE Own(i) \/ ByApproval(i)
        BY <2>1, <1>1 DEF ConsentInv, EveryCallConsented
    <3>2. /\ Own(i)' <=> Own(i)
          /\ ByApproval(i)' <=> ByApproval(i)
          /\ NeedsSignature(i)' <=> NeedsSignature(i)
        BY <2>1, EarlierUnchanged
    <3>3. BySignature(i) => BySignature(i)'
      <4>1. calls'[i] = calls[i] /\ i - 1 \in 0 .. n /\ signed' = signed
          BY <2>1, <1>1 DEF Admitted
      <4>2. \A v, u : SignaturesUsed(v, u, i - 1)' = SignaturesUsed(v, u, i - 1)
          BY <4>1, EarlierSigners
      <4> QED BY <4>1, <4>2 DEF BySignature
    <3> QED BY <3>1, <3>2, <3>3
  <2>2. CASE i = n + 1 /\ SignatureDue(call)
    <3>1. SignedNow(call) /\ signed' = signed
        BY <2>2 DEF Admitted
    <3>2. (n + 1) - 1 = n /\ n \in 0 .. n
        BY <1>1
    <3>3. SignaturesUsed(call.validator, call.calldata.user, n)' = nextNonce[call.validator][call.calldata.user]
        BY <1>4, <1>5, <3>2, EarlierSigners
    <3>4. BySignature(n + 1)'
        BY <3>1, <3>2, <3>3, <1>1 DEF BySignature, SignedNow
    <3> QED BY <3>4, <2>2, <1>3
  <2>3. CASE i = n + 1 /\ ~SignatureDue(call)
      BY <2>3, <1>3
  <2> QED BY <2>1, <2>2, <2>3, <1>2
<1>7. ASSUME NEW i \in 1 .. n + 1
      PROVE  (calls[i].validator = "vault" => Own(i) \/ calls[i].permitted)'
  <2>1. CASE i \in 1 .. n
      BY <2>1, <1>1, EarlierUnchanged DEF ConsentInv, EveryCallConsented
  <2>2. CASE i = n + 1
      BY <2>2, <1>1, CallerApproved DEF Admitted
  <2> QED BY <2>1, <2>2, <1>2
<1>8. ASSUME NEW v \in Validators, NEW u \in Users
      PROVE  nextNonce'[v][u] = SignaturesUsed(v, u, Len(calls))'
  <2>1. /\ SignaturesUsed(v, u, n) \in Nat
        /\ SignaturesUsed(v, u, Len(calls))'
             = SignaturesUsed(v, u, n)
               + IF call.validator = v /\ call.calldata.user = u /\ SignatureDue(call) THEN 1 ELSE 0
      BY <1>1, <1>3, LastSigner
  <2>2. nextNonce'[v][u] = nextNonce[v][u]
               + IF call.validator = v /\ call.calldata.user = u /\ SignatureDue(call) THEN 1 ELSE 0
    <3>1. nextNonce \in [Validators -> [Users -> Nat]]
        BY DEF ConsentInv, ConsentTypeOK
    <3>2. CASE SignatureDue(call)
        BY <3>1, <3>2, <1>5 DEF Admitted
    <3>3. CASE ~SignatureDue(call)
        BY <3>1, <3>3 DEF Admitted
    <3> QED BY <3>2, <3>3
  <2> QED BY <2>1, <2>2, <1>4
<1> QED BY <1>1, <1>6, <1>7, <1>8 DEF EveryCallConsented

------------------------------------------------------------------------------
(* The steps.                                                              *)

\* What a call that is appended records, and who is admitted, decide the invariant.
LEMMA CallKeepsInv ==
    ASSUME ConsentInv, NEW call, NEW n, Appended(call, n), Admitted(call), RecordedBy(call),
           call.calldata.user \in Users, call.calldata.approved \in BOOLEAN,
           blockTime' = blockTime
    PROVE  ConsentInv'
<1>1. nextNonce' \in [Validators -> [Users -> Nat]]
  <2>1. nextNonce \in [Validators -> [Users -> Nat]] /\ call.validator \in Validators
      BY DEF ConsentInv, ConsentTypeOK, Appended, Calls
  <2>2. CASE SignatureDue(call)
      BY <2>1, <2>2 DEF Admitted
  <2>3. CASE ~SignatureDue(call)
      BY <2>1, <2>3 DEF Admitted
  <2> QED BY <2>2, <2>3
<1>2. ConsentTypeOK'
    BY <1>1, AppendedCall DEF ConsentInv, ConsentTypeOK
<1>3. ApprovalsRecorded' /\ EveryCallConsented'
    BY ApprovalsKept, ConsentKept
<1> QED BY <1>2, <1>3 DEF ConsentInv

\* The record of a call.
CallRecord(validator, calldata, sender) ==
    [validator |-> validator, calldata |-> calldata, sender |-> sender,
     time |-> blockTime, permitted |-> sender \in permittedRelayers]

LEMMA PerformedAppends ==
    ASSUME ConsentInv, NEW validator \in Validators, NEW calldata \in Calldata,
           NEW sender \in Actors \cup {Anyone}, Performed(validator, calldata, sender)
    PROVE  /\ Appended(CallRecord(validator, calldata, sender), Len(calls))
           /\ blockTime' = blockTime /\ signed' = signed
<1>1. blockTime \in Nat /\ calls \in Seq(Calls)
    BY DEF ConsentInv, ConsentTypeOK
<1>2. CallRecord(validator, calldata, sender) \in Calls
    BY <1>1 DEF CallRecord, Calls
<1> QED BY <1>1, <1>2 DEF Performed, Appended, CallRecord

\* Who signed what the Vault verifies is what the user was asked to sign.
LEMMA VaultAdmits ==
    ASSUME ConsentInv, NEW sender \in Users \cup Relayers, NEW extra \in Extras,
           AuthenticateFor(extra.calldata.user, sender, extra), signed' = signed
    PROVE  Admitted(CallRecord("vault", extra.calldata, sender))
<1> DEFINE c == extra.calldata
           call == CallRecord("vault", c, sender)
<1> SUFFICES Admitted(call)
    OBVIOUS
<1>1. /\ call.validator = "vault" /\ call.calldata = c /\ call.sender = sender
      /\ call.time = blockTime /\ (sender \in permittedRelayers => call.permitted)
    BY DEF CallRecord
<1>2. c \in VaultCalldata /\ c.user \in Users /\ sender \in Actors
    BY ConsentAssumption DEF Extras, encodeCalldataAuthorization, Actors
<1>3. "vault" # "minter"
    OBVIOUS
<1> HIDE DEF call
<1>4. CASE sender = c.user
    BY <1>1, <1>2, <1>3, <1>4 DEF Admitted, SignatureDue, AuthenticateFor
<1>5. CASE sender # c.user /\ <<c.user, sender>> \in relayerApprovals
    BY <1>1, <1>2, <1>3, <1>5 DEF Admitted, SignatureDue, AuthenticateFor
<1>6. CASE sender # c.user /\ <<c.user, sender>> \notin relayerApprovals
  <2>1. sender \in permittedRelayers /\ ValidateExtraCalldataSignature(c.user, sender, extra)
      BY <1>6 DEF AuthenticateFor
  <2>2. SignatureDue(call)
      BY <1>1, <1>6 DEF SignatureDue
  <2> DEFINE struct == [type |-> EntrypointTypeHash(c), content |-> [calldata |-> c, sender |-> sender],
                        nonce |-> nextNonce["vault"][c.user], deadline |-> extra.deadline]
             signature == [signer |-> c.user, domain |-> "vault", struct |-> struct]
  <2>3. /\ EntrypointTypeHash(c) # NotGiven
        /\ extra.signature = signature /\ extra.deadline >= blockTime
        /\ nextNonce' = [nextNonce EXCEPT !["vault"][c.user] = @ + 1]
      BY <2>1 DEF ValidateExtraCalldataSignature, EnsureValidSignature, AdvancedNonce
  <2>4. EntrypointTypeHash(c) = c.entry
      BY <2>3 DEF EntrypointTypeHash
  <2>5. signature \in signed
    <3>1. CASE extra.signature \in signed
        BY <3>1, <2>3
    <3>2. CASE extra.signature = NoSignature /\ extra.deadline = MAX_DEADLINE
      <4>1. nextNonce["vault"][c.user] \in Nat
          BY <1>2 DEF ConsentInv, ConsentTypeOK, Validators
      <4>2. c.entry \in STRING /\ extra.deadline \in Nat
          BY <1>2, <3>2, ConsentAssumption
      <4>3. [calldata |-> c, sender |-> sender] \in [calldata : VaultCalldata, sender : Users \cup Relayers]
          BY <1>2
      <4>4. struct \in [type : STRING, nonce : Nat, deadline : Nat,
                        content : [calldata : VaultCalldata, sender : Users \cup Relayers]
                                  \cup [minter : Minters, approval : BOOLEAN]]
          BY <2>4, <4>1, <4>2, <4>3
      <4>5. signature \in Signatures
        <5> HIDE DEF struct
        <5> QED BY <4>4, <1>2 DEF Signatures, Validators
      <4> QED BY <4>5, <3>2, <2>3, ConsentAssumption
    <3>3. extra.signature \in signed \/ (extra.signature = NoSignature /\ extra.deadline = MAX_DEADLINE)
        BY DEF Extras, encodeCalldataAuthorization
    <3> QED BY <3>1, <3>2, <3>3
  <2>6. SignedNow(call)
    <3>1. /\ signature.signer = c.user /\ signature.domain = "vault"
          /\ signature.struct.nonce = nextNonce["vault"][c.user]
          /\ blockTime <= signature.struct.deadline
          /\ signature.struct.type = c.entry
          /\ signature.struct.content = [calldata |-> c, sender |-> sender]
        BY <2>3, <2>4
    <3> HIDE DEF signature
    <3> QED BY <3>1, <2>5, <1>1 DEF SignedNow
  <2> QED BY <2>1, <2>2, <2>3, <2>6, <1>1, <1>2 DEF Admitted
<1> QED BY <1>4, <1>5, <1>6

LEMMA VaultCallKeepsInv ==
    ASSUME ConsentInv, NEW sender \in Users \cup Relayers, NEW extra \in Extras,
           SetRelayerApproval(sender, extra) \/ ActFor(sender, extra)
    PROVE  ConsentInv'
<1> DEFINE c == extra.calldata
           call == CallRecord("vault", c, sender)
<1>1. c \in VaultCalldata
    BY DEF Extras, encodeCalldataAuthorization
<1>2. /\ AuthenticateFor(c.user, sender, extra) /\ Performed("vault", c, sender)
    BY DEF SetRelayerApproval, ActFor
<1>3. "vault" \in Validators /\ c \in Calldata /\ sender \in Actors \cup {Anyone}
    BY <1>1 DEF Validators, Calldata, Actors
<1>4. Appended(call, Len(calls)) /\ blockTime' = blockTime /\ signed' = signed
    BY <1>2, <1>3, PerformedAppends
<1>5. Admitted(call)
    BY <1>2, <1>4, VaultAdmits
<1>6. /\ call.validator = "vault" /\ call.calldata = c
      /\ c.user \in Users /\ c.approved \in BOOLEAN /\ c.entry \notin MinterApprovals
    BY <1>1, ConsentAssumption DEF CallRecord
<1> HIDE DEF call
<1>7. RecordedBy(call)
    BY <1>6 DEF RecordedBy, SetRelayerApproval, ActFor
<1> QED BY <1>4, <1>5, <1>6, <1>7, CallKeepsInv

\* The calls of the BalancerMinter.
LEMMA SetMinterApprovalKeepsInv ==
    ASSUME ConsentInv, NEW user \in Users, NEW minter \in Minters, NEW approval \in BOOLEAN,
           setMinterApproval(user, minter, approval)
    PROVE  ConsentInv'
<1> DEFINE c == MinterCalldata("SetMinterApproval", user, minter, approval)
           call == CallRecord("minter", c, user)
<1>1. c.entry = "SetMinterApproval" /\ c.user = user /\ c.relayer = minter /\ c.approved = approval
    BY DEF MinterCalldata
<1>2. c \in Calldata /\ "minter" \in Validators /\ user \in Actors \cup {Anyone}
    BY DEF MinterCalldata, MinterApprovals, Calldata, Validators, Actors
<1>3. /\ Performed("minter", c, user)
      /\ allowedMinters' = With(allowedMinters, <<user, minter>>, approval)
      /\ nextNonce' = nextNonce /\ relayerApprovals' = relayerApprovals
    BY DEF setMinterApproval, SetAllowedMinter
<1> HIDE DEF c
<1>4. Appended(call, Len(calls)) /\ blockTime' = blockTime /\ signed' = signed
    BY <1>2, <1>3, PerformedAppends
<1>5. call.validator = "minter" /\ call.calldata = c /\ call.sender = user
    BY DEF CallRecord
<1> HIDE DEF call
<1>6. Admitted(call)
    BY <1>1, <1>3, <1>4, <1>5 DEF Admitted, SignatureDue
<1>7. RecordedBy(call)
    BY <1>1, <1>3, <1>5 DEF RecordedBy, MinterApprovals
<1> QED BY <1>1, <1>4, <1>5, <1>6, <1>7, CallKeepsInv

LEMMA WithSignatureKeepsInv ==
    ASSUME ConsentInv, NEW user \in Users, NEW minter \in Minters, NEW approval \in BOOLEAN,
           NEW deadline, NEW s \in signed,
           setMinterApprovalWithSignature(Anyone, minter, approval, user, deadline, s)
    PROVE  ConsentInv'
<1> DEFINE c == MinterCalldata("SetMinterApprovalWithSignature", user, minter, approval)
           call == CallRecord("minter", c, Anyone)
<1>1. /\ c.entry = "SetMinterApprovalWithSignature"
      /\ c.user = user /\ c.relayer = minter /\ c.approved = approval
    BY DEF MinterCalldata
<1>2. c \in Calldata /\ "minter" \in Validators /\ Anyone \in Actors \cup {Anyone}
    BY DEF MinterCalldata, MinterApprovals, Calldata, Validators
<1>3. /\ Performed("minter", c, Anyone)
      /\ allowedMinters' = With(allowedMinters, <<user, minter>>, approval)
      /\ nextNonce' = [nextNonce EXCEPT !["minter"][user] = @ + 1]
      /\ relayerApprovals' = relayerApprovals
    BY DEF setMinterApprovalWithSignature, SetAllowedMinter, EnsureValidSignature, AdvancedNonce
<1>4. /\ s.signer = user /\ s.domain = "minter" /\ s.struct.nonce = nextNonce["minter"][user]
      /\ blockTime <= s.struct.deadline /\ s.struct.type = "SetMinterApproval"
      /\ s.struct.content = [minter |-> minter, approval |-> approval]
    BY DEF setMinterApprovalWithSignature, EnsureValidSignature
<1> HIDE DEF c
<1>5. Appended(call, Len(calls)) /\ blockTime' = blockTime /\ signed' = signed
    BY <1>2, <1>3, PerformedAppends
<1>6. call.validator = "minter" /\ call.calldata = c /\ call.sender = Anyone /\ call.time = blockTime
    BY DEF CallRecord
<1> HIDE DEF call
<1>7. SignedNow(call)
    BY <1>1, <1>4, <1>6 DEF SignedNow
<1>8. Admitted(call)
    BY <1>1, <1>3, <1>5, <1>6, <1>7 DEF Admitted, SignatureDue
<1>9. RecordedBy(call)
    BY <1>1, <1>3, <1>6 DEF RecordedBy, MinterApprovals
<1> QED BY <1>1, <1>5, <1>6, <1>8, <1>9, CallKeepsInv

LEMMA MintForKeepsInv ==
    ASSUME ConsentInv, NEW user \in Users, NEW minter \in Minters, mintFor(minter, user)
    PROVE  ConsentInv'
<1> DEFINE c == MinterCalldata("MintFor", user, NotGiven, FALSE)
           call == CallRecord("minter", c, minter)
<1>1. c.entry = "MintFor" /\ c.user = user /\ c.approved = FALSE
    BY DEF MinterCalldata
<1>2. c \in Calldata /\ "minter" \in Validators /\ minter \in Actors
    BY DEF MinterCalldata, Calldata, Validators, Actors
<1>3. /\ Performed("minter", c, minter) /\ <<user, minter>> \in allowedMinters
      /\ allowedMinters' = allowedMinters /\ nextNonce' = nextNonce
      /\ relayerApprovals' = relayerApprovals
    BY DEF mintFor, nonceVars
<1> HIDE DEF c
<1>4. Appended(call, Len(calls)) /\ blockTime' = blockTime /\ signed' = signed
    BY <1>2, <1>3, PerformedAppends
<1>5. call.validator = "minter" /\ call.calldata = c /\ call.sender = minter
    BY DEF CallRecord
<1> HIDE DEF call
<1>6. Admitted(call)
    BY <1>1, <1>2, <1>3, <1>4, <1>5 DEF Admitted, SignatureDue
<1>7. RecordedBy(call)
    BY <1>1, <1>3, <1>5 DEF RecordedBy, MinterApprovals
<1> QED BY <1>1, <1>4, <1>5, <1>6, <1>7, CallKeepsInv

\* Signing adds to what is signed, and the Authorizer and time change what no earlier call
\* depends on.
LEMMA OtherStepKeepsInv ==
    ASSUME ConsentInv, UNCHANGED <<nonceVars, calls>>, signed \subseteq signed', blockTime' \in Nat
    PROVE  ConsentInv'
<1>1. /\ nextNonce' = nextNonce /\ relayerApprovals' = relayerApprovals
      /\ allowedMinters' = allowedMinters /\ calls' = calls
    BY DEF nonceVars
<1>2. ConsentTypeOK'
    BY <1>1 DEF ConsentInv, ConsentTypeOK
<1>3. ApprovalsRecorded'
  <2>1. \A j, validator, user, actor :
          IsApproval(j, validator, user, actor)' <=> IsApproval(j, validator, user, actor)
      BY <1>1 DEF IsApproval
  <2>2. \A validator, user, actor : Approved(validator, user, actor)' <=> Approved(validator, user, actor)
      BY <1>1, <2>1 DEF Approved
  <2> QED BY <1>1, <2>2 DEF ConsentInv, ApprovalsRecorded
<1>4. \A i : /\ Own(i)' <=> Own(i)
             /\ ByApproval(i)' <=> ByApproval(i)
             /\ NeedsSignature(i)' <=> NeedsSignature(i)
    BY <1>1 DEF Own, ByApproval, ApprovalOf, NeedsSignature
<1>5. \A v, u, last : SignaturesUsed(v, u, last)' = SignaturesUsed(v, u, last)
  <2>1. TAKE v, u, last
  <2>2. Signers(v, u, last)' = Signers(v, u, last)
      BY <1>1, <1>4 DEF Signers
  <2> QED BY <2>2 DEF SignaturesUsed, Signers
<1>6. \A i : BySignature(i) => BySignature(i)'
    BY <1>1, <1>5 DEF BySignature
<1>7. ASSUME NEW v \in Validators, NEW u \in Users
      PROVE  nextNonce'[v][u] = SignaturesUsed(v, u, Len(calls))'
  <2>1. PICK n : n = Len(calls)
      OBVIOUS
  <2>2. SignaturesUsed(v, u, Len(calls))' = SignaturesUsed(v, u, n)'
      BY <2>1, <1>1
  <2> QED BY <2>1, <2>2, <1>1, <1>5 DEF ConsentInv, EveryCallConsented
<1>8. EveryCallConsented'
    BY <1>1, <1>4, <1>6, <1>7 DEF ConsentInv, EveryCallConsented
<1> QED BY <1>2, <1>3, <1>8 DEF ConsentInv

LEMMA StepConsentInv == ConsentInv /\ ConsentStep => ConsentInv'
<1> SUFFICES ASSUME ConsentInv, ConsentStep PROVE ConsentInv'
    OBVIOUS
<1>1. blockTime \in Nat
    BY DEF ConsentInv, ConsentTypeOK
<1>2. CASE \E request \in Requests : ReadNonce(request)
    BY <1>1, <1>2, OtherStepKeepsInv DEF ReadNonce
<1>3. CASE \E message \in signing : SignTypedData(message)
    BY <1>1, <1>3, OtherStepKeepsInv DEF SignTypedData
<1>4. CASE VaultCallsNext
    BY <1>4, VaultCallKeepsInv DEF VaultCallsNext
<1>5. CASE MinterCallsNext
  <2>1. ASSUME NEW user \in Users, NEW minter \in Minters, NEW approval \in BOOLEAN,
               setMinterApproval(user, minter, approval)
        PROVE  ConsentInv'
      BY <2>1, SetMinterApprovalKeepsInv
  <2>2. ASSUME NEW user \in Users, NEW minter \in Minters, toggle_approve_mint(user, minter)
        PROVE  ConsentInv'
      BY <2>2, SetMinterApprovalKeepsInv DEF toggle_approve_mint
  <2>3. ASSUME NEW user \in Users, NEW minter \in Minters, mintFor(minter, user)
        PROVE  ConsentInv'
      BY <2>3, MintForKeepsInv
  <2>4. ASSUME NEW user \in Users, NEW minter \in Minters, NEW s \in signed,
               NEW approval \in BOOLEAN, NEW deadline \in {x.struct.deadline : x \in signed},
               setMinterApprovalWithSignature(Anyone, minter, approval, user, deadline, s)
        PROVE  ConsentInv'
      BY <2>4, WithSignatureKeepsInv
  <2> QED BY <1>5, <2>1, <2>2, <2>3, <2>4 DEF MinterCallsNext
<1>6. CASE \E relayer \in Reviewed, permitted \in BOOLEAN : PermitRelayer(relayer, permitted)
    BY <1>1, <1>6, OtherStepKeepsInv DEF PermitRelayer
<1>7. CASE BlockTimePasses
    BY <1>1, <1>7, OtherStepKeepsInv DEF BlockTimePasses
<1>8. CASE UNCHANGED consentVars
    BY <1>1, <1>8, OtherStepKeepsInv DEF consentVars
<1> QED BY <1>2, <1>3, <1>4, <1>5, <1>6, <1>7, <1>8 DEF ConsentStep, ConsentNext, SigningNext

LEMMA InitConsentInv == ConsentInit => ConsentInv
<1> SUFFICES ASSUME ConsentInit PROVE ConsentInv
    OBVIOUS
<1>1. /\ nextNonce = [v \in Validators |-> [u \in Users |-> 0]] /\ blockTime = 0
      /\ relayerApprovals = {} /\ allowedMinters = {} /\ calls = <<>>
    BY DEF ConsentInit
<1>2. Len(calls) = 0 /\ DOMAIN calls = {} /\ 1 .. Len(calls) = {} /\ calls \in Seq(Calls)
    BY <1>1
<1>3. ConsentTypeOK
    BY <1>1, <1>2 DEF ConsentTypeOK
<1>4. ApprovalsRecorded
    BY <1>1, <1>2 DEF ApprovalsRecorded, Approved
<1>5. \A v, u : SignaturesUsed(v, u, Len(calls)) = 0
  <2>1. TAKE v, u
  <2>2. SignaturesUsed(v, u, Len(calls)) = Cardinality({})
      BY <1>2 DEF SignaturesUsed
  <2> QED BY <2>2, FS_EmptySet
<1>6. EveryCallConsented
    BY <1>1, <1>2, <1>5 DEF EveryCallConsented
<1> QED BY <1>3, <1>4, <1>6 DEF ConsentInv

------------------------------------------------------------------------------
\* Nobody acts in somebody's name without consent, for any users, relayers, minters and
\* signatures, and histories of any length: what the contracts keep of approvals and nonces
\* is exactly what the calls that succeeded say of them, so that a signature serves once, in
\* the order of its nonce, and an approved caller uses none.
THEOREM ConsentIsAlwaysGiven == ConsentSpec => []EveryCallConsented
<1>1. ConsentInv => EveryCallConsented
    BY DEF ConsentInv
<1>2. ConsentInv /\ [ConsentNext]_consentVars => ConsentInv'
    BY StepConsentInv DEF ConsentStep
<1> QED BY <1>1, <1>2, InitConsentInv, PTL DEF ConsentSpec
==============================================================================
