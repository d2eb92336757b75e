-------------------- MODULE TimelockAuthorizerMigrator_proofs --------------------
(***************************************************************************)
(* A migration that is over is a whole one, whatever the lists are, in     *)
(* calls of any sizes, and wherever the sum of two counters wraps.         *)
(***************************************************************************)
EXTENDS TimelockAuthorizerMigrator, SequenceTheorems, TLAPS

\* One step of _migrate on one list: what is left for the next list is left only when this one
\* is through, and a list that is through stays so.
LEMMA OneKind ==
    ASSUME NEW list, list \in Seq(Range(list)), NEW from \in Nat, from <= Len(list),
           NEW count \in Nat, MaxCounter \in Nat
    PROVE  /\ Advanced(list, from, count) \in from .. Len(list)
           /\ Remaining(list, from, count) \in Nat
           /\ Remaining(list, from, count) # 0 => Advanced(list, from, count) = Len(list)
           /\ from = 0 /\ count = 0 => Advanced(list, from, count) = 0 /\ Remaining(list, from, count) = 0
           /\ from = Len(list) => Advanced(list, from, count) = from
           /\ Range(SubSeq(list, 1, from)) \cup Entries(list, from, count)
                = Range(SubSeq(list, 1, Advanced(list, from, count)))
<1> DEFINE sum == Add(from, count)
           to  == To(list, from, count)
<1>1. Len(list) \in Nat
    OBVIOUS
<1>2. sum \in Nat /\ (from = 0 /\ count = 0 => sum = 0)
  <2>1. /\ (from + count) % (MaxCounter + 1) \in 0 .. MaxCounter
        /\ 0 % (MaxCounter + 1) = 0
      OBVIOUS
  <2> QED BY <2>1 DEF Add
<1>3. to = IF sum < Len(list) THEN sum ELSE Len(list)
    BY DEF To, Least
<1>4. /\ Advanced(list, from, count) = IF to > from THEN to ELSE from
      /\ Remaining(list, from, count) = sum - to
    BY DEF Advanced, Remaining
<1>5. Entries(list, from, count) = Range(SubSeq(list, from + 1, to))
    BY DEF Entries
<1> HIDE DEF sum, to
<1>6. to \in 0 .. Len(list)
    BY <1>1, <1>2, <1>3
<1>7. Range(SubSeq(list, 1, from)) \cup Range(SubSeq(list, from + 1, to))
        = Range(SubSeq(list, 1, IF to > from THEN to ELSE from))
  <2>1. \A m \in 1 .. Len(list) + 1, n \in 0 .. Len(list) :
            Range(SubSeq(list, m, n)) = {list[i] : i \in m .. n}
    <3> TAKE m \in 1 .. Len(list) + 1, n \in 0 .. Len(list)
    <3>1. \A i \in m .. n : list[i] \in Range(list)
        BY <1>1 DEF Range
    <3>2. /\ SubSeq(list, m, n) \in Seq(Range(list))
          /\ Len(SubSeq(list, m, n)) = IF m <= n THEN n - m + 1 ELSE 0
          /\ \A i \in 1 .. n - m + 1 : SubSeq(list, m, n)[i] = list[m + i - 1]
        BY <3>1, <1>1, SubSeqProperties
    <3>3. Range(SubSeq(list, m, n)) = {SubSeq(list, m, n)[i] : i \in 1 .. Len(SubSeq(list, m, n))}
        BY <3>2, RangeEquality
    <3>4. \A x : (\E i \in 1 .. n - m + 1 : x = list[m + i - 1]) <=> (\E i \in m .. n : x = list[i])
      <4> TAKE x
      <4>1. ASSUME NEW i \in m .. n PROVE i - m + 1 \in 1 .. n - m + 1 /\ m + (i - m + 1) - 1 = i
          BY <1>1
      <4>2. ASSUME NEW i \in 1 .. n - m + 1 PROVE m + i - 1 \in m .. n
          BY <1>1
      <4> QED BY <4>1, <4>2
    <3>5. 1 .. Len(SubSeq(list, m, n)) = 1 .. n - m + 1
        BY <3>2, <1>1
    <3> DEFINE sub == SubSeq(list, m, n)
    <3>6. Range(sub) = {sub[i] : i \in 1 .. n - m + 1} /\ \A i \in 1 .. n - m + 1 : sub[i] = list[m + i - 1]
        BY <3>2, <3>3, <3>5
    <3> HIDE DEF sub
    <3>7. Range(sub) = {list[m + i - 1] : i \in 1 .. n - m + 1}
        BY <3>6
    <3>8. {list[m + i - 1] : i \in 1 .. n - m + 1} = {list[i] : i \in m .. n}
        BY <3>4
    <3> QED BY <3>7, <3>8 DEF sub
  <2> DEFINE last == IF to > from THEN to ELSE from
  <2>2. last \in 0 .. Len(list) /\ from \in 0 .. Len(list) /\ from + 1 \in 1 .. Len(list) + 1
        /\ 1 \in 1 .. Len(list) + 1
      BY <1>1, <1>6
  <2>3. (1 .. from) \cup (from + 1 .. to) = 1 .. last
      BY <1>1, <1>6
  <2> HIDE DEF last
  <2>4. {list[i] : i \in 1 .. from} \cup {list[i] : i \in from + 1 .. to} = {list[i] : i \in 1 .. last}
      BY <2>3
  <2>5. /\ Range(SubSeq(list, 1, from)) = {list[i] : i \in 1 .. from}
        /\ Range(SubSeq(list, from + 1, to)) = {list[i] : i \in from + 1 .. to}
        /\ Range(SubSeq(list, 1, last)) = {list[i] : i \in 1 .. last}
      BY <2>1, <2>2, <1>6
  <2> QED BY <2>4, <2>5 DEF last
<1> QED BY <1>1, <1>2, <1>3, <1>4, <1>5, <1>6, <1>7

------------------------------------------------------------------------------
(* The inductive invariant: besides the order of the migration, what each  *)
(* stage of the transfer of root says of the stages before it.             *)

MigratorTypeOK ==
    /\ lists \in RoleLists
    /\ migrated \in [Kinds -> Nat]
    /\ complete \in BOOLEAN /\ executed \in BOOLEAN

RootFollowsCompletion ==
    /\ complete => migrated.revokers >= Len(lists.revokers)
    /\ executed => complete
    /\ pendingRoot = "root" \/ root = "root" => executed

MigratorInv == MigratorTypeOK /\ MigratedInOrder /\ RootFollowsCompletion /\ HandedOverToRoot

MigratorStep == MigratorNext \/ UNCHANGED migratorVars

LEMMA ListsAreSequences ==
    ASSUME MigratorInv
    PROVE  \A k \in Kinds :
             /\ lists[k] \in Seq(Range(lists[k])) /\ Len(lists[k]) \in Nat
             /\ migrated[k] \in Nat /\ migrated[k] <= Len(lists[k])
             /\ granted[k] = Range(SubSeq(lists[k], 1, migrated[k]))
BY MigratorAssumption DEF MigratorInv, MigratorTypeOK, MigratedInOrder

LEMMA InitMigratorInv == MigratorInit => MigratorInv
<1> SUFFICES ASSUME MigratorInit PROVE MigratorInv
    OBVIOUS
<1> USE DEF MigratorInit
<1>1. MigratorTypeOK
    BY DEF MigratorTypeOK
<1>2. MigratedInOrder
  <2>1. \A k \in Kinds : Len(lists[k]) \in Nat
      BY MigratorAssumption
  <2>2. \A k \in Kinds : migrated[k] = 0 /\ granted[k] = {}
      OBVIOUS
  <2>3. \A k \in Kinds : Range(SubSeq(lists[k], 1, 0)) = {}
      BY SubSeqEmpty DEF Range
  <2>4. migrated.granters = 0 /\ migrated.revokers = 0
      BY DEF Kinds
  <2>5. \A k \in Kinds :
          migrated[k] <= Len(lists[k]) /\ granted[k] = Range(SubSeq(lists[k], 1, migrated[k]))
    <3> TAKE k \in Kinds
    <3>1. migrated[k] = 0 /\ granted[k] = {}
        BY <2>2
    <3>2. Len(lists[k]) \in Nat /\ Range(SubSeq(lists[k], 1, 0)) = {}
        BY <2>1, <2>3
    <3> HIDE DEF MigratorInit
    <3> QED BY <3>1, <3>2
  <2> HIDE DEF MigratorInit
  <2>6. ~(migrated.granters > 0) /\ ~(migrated.revokers > 0)
      BY <2>4
  <2> QED BY <2>5, <2>6 DEF MigratedInOrder
<1>3. RootFollowsCompletion /\ HandedOverToRoot
    BY DEF RootFollowsCompletion, HandedOverToRoot
<1> QED BY <1>1, <1>2, <1>3 DEF MigratorInv

\* A call of migrate, which takes the three lists in their order.
LEMMA MigrateKeepsInv ==
    ASSUME MigratorInv, NEW rolesToMigrate \in Batches, Migrate(rolesToMigrate)
    PROVE  MigratorInv'
<1> DEFINE n == Counts(rolesToMigrate)
           now(k) == Advanced(lists[k], migrated[k], n[k])
<1>1. /\ lists' = lists /\ root' = root /\ authorizer' = authorizer /\ ~complete
      /\ migrated' = [k \in Kinds |-> now(k)]
      /\ granted' = [k \in Kinds |-> granted[k] \cup Entries(lists[k], migrated[k], n[k])]
      /\ complete' = (migrated'.revokers >= Len(lists.revokers))
      /\ IF complete' THEN executed' = TRUE /\ pendingRoot' = "root"
         ELSE executed' = executed /\ pendingRoot' = pendingRoot
    BY DEF Migrate, RootChangeDue
<1>2. /\ n["roles"] = rolesToMigrate
      /\ n["granters"] = Remaining(lists["roles"], migrated["roles"], n["roles"])
      /\ n["revokers"] = Remaining(lists["granters"], migrated["granters"], n["granters"])
    BY DEF Counts
<1>3. "roles" \in Kinds /\ "granters" \in Kinds /\ "revokers" \in Kinds
    BY DEF Kinds
<1> HIDE DEF n
<1> DEFINE OfKind(k) ==
        /\ now(k) \in migrated[k] .. Len(lists[k])
        /\ Remaining(lists[k], migrated[k], n[k]) \in Nat
        /\ Remaining(lists[k], migrated[k], n[k]) # 0 => now(k) = Len(lists[k])
        /\ migrated[k] = 0 /\ n[k] = 0 => now(k) = 0 /\ Remaining(lists[k], migrated[k], n[k]) = 0
        /\ migrated[k] = Len(lists[k]) => now(k) = migrated[k]
        /\ Range(SubSeq(lists[k], 1, migrated[k])) \cup Entries(lists[k], migrated[k], n[k])
             = Range(SubSeq(lists[k], 1, now(k)))
<1>4. ASSUME NEW k \in Kinds, n[k] \in Nat PROVE OfKind(k)
  <2>1. /\ lists[k] \in Seq(Range(lists[k]))
        /\ migrated[k] \in Nat /\ migrated[k] <= Len(lists[k])
      BY ListsAreSequences
  <2>2. MaxCounter \in Nat
      BY MigratorAssumption
  <2> QED BY <2>1, <2>2, <1>4, OneKind
<1>5. OfKind("roles") /\ OfKind("granters") /\ OfKind("revokers")
  <2>1. n["roles"] \in Nat
      BY <1>2, MigratorAssumption
  <2>2. OfKind("roles") /\ n["granters"] \in Nat
      BY <2>1, <1>2, <1>3, <1>4
  <2>3. OfKind("granters") /\ n["revokers"] \in Nat
      BY <2>2, <1>2, <1>3, <1>4
  <2> QED BY <2>2, <2>3, <1>3, <1>4
<1>6. \A k \in Kinds : OfKind(k)
    BY <1>5 DEF Kinds
<1>7. \A k \in Kinds :
        /\ migrated'[k] = now(k)
        /\ granted'[k] = granted[k] \cup Entries(lists[k], migrated[k], n[k])
    BY <1>1
<1>8. \A k \in Kinds :
        /\ migrated'[k] \in Nat /\ migrated'[k] <= Len(lists[k]) /\ migrated'[k] >= migrated[k]
        /\ granted'[k] = Range(SubSeq(lists[k], 1, migrated'[k]))
  <2> TAKE k \in Kinds
  <2>1. OfKind(k) /\ migrated'[k] = now(k) /\ granted'[k] = granted[k] \cup Entries(lists[k], migrated[k], n[k])
      BY <1>6, <1>7
  <2>2. granted[k] = Range(SubSeq(lists[k], 1, migrated[k])) /\ migrated[k] \in Nat /\ Len(lists[k]) \in Nat
      BY ListsAreSequences
  <2> HIDE DEF now
  <2>3. granted'[k] = Range(SubSeq(lists[k], 1, migrated'[k]))
      BY <2>1, <2>2
  <2>4. now(k) \in migrated[k] .. Len(lists[k])
      BY <2>1
  <2> QED BY <2>1, <2>2, <2>3, <2>4
\* A list that was not begun is begun only when the one before is through; one that was begun
\* has had the ones before it through already.
<1>9. migrated'["granters"] > 0 => migrated'["roles"] = Len(lists["roles"])
  <2>1. CASE migrated["granters"] = 0
      BY <2>1, <1>2, <1>3, <1>5, <1>7
  <2>2. CASE migrated["granters"] # 0
    <3>1. migrated["granters"] > 0
        BY <2>2, <1>3, ListsAreSequences
    <3>2. migrated["roles"] = Len(lists["roles"])
        BY <3>1 DEF MigratorInv, MigratedInOrder
    <3> QED BY <3>2, <1>3, <1>5, <1>7
  <2> QED BY <2>1, <2>2
<1>10. migrated'["revokers"] > 0 =>
          migrated'["granters"] = Len(lists["granters"]) /\ migrated'["roles"] = Len(lists["roles"])
  <2>1. CASE migrated["revokers"] = 0 /\ migrated'["revokers"] > 0
    <3>1. n["revokers"] # 0
        BY <2>1, <1>3, <1>5, <1>7
    <3>2. migrated'["granters"] = Len(lists["granters"])
        BY <3>1, <1>2, <1>3, <1>5, <1>7
    <3>3. CASE migrated["granters"] = 0
      <4>1. n["granters"] # 0
          BY <3>1, <3>3, <1>2, <1>3, <1>5
      <4>2. migrated'["roles"] = Len(lists["roles"])
          BY <4>1, <1>2, <1>3, <1>5, <1>7
      <4> QED BY <4>2, <3>2
    <3>4. CASE migrated["granters"] # 0
      <4>1. migrated["roles"] = Len(lists["roles"])
          BY <3>4, <1>3, ListsAreSequences DEF MigratorInv, MigratedInOrder
      <4>2. migrated'["roles"] = Len(lists["roles"])
          BY <4>1, <1>3, <1>5, <1>7
      <4> QED BY <4>2, <3>2
    <3> QED BY <3>2, <3>3, <3>4
  <2>2. CASE migrated["revokers"] # 0
    <3>1. migrated["revokers"] > 0
        BY <2>2, <1>3, ListsAreSequences
    <3>2. migrated["granters"] = Len(lists["granters"]) /\ migrated["roles"] = Len(lists["roles"])
        BY <3>1 DEF MigratorInv, MigratedInOrder
    <3> QED BY <3>2, <1>3, <1>5, <1>7
  <2> QED BY <2>1, <2>2, <1>3, <1>8, ListsAreSequences
<1>11. MigratedInOrder'
    BY <1>1, <1>8, <1>9, <1>10 DEF MigratedInOrder
<1>12. MigratorTypeOK'
  <2>1. migrated' \in [Kinds -> Nat]
      BY <1>1, <1>8
  <2>2. complete' \in BOOLEAN /\ executed' \in BOOLEAN
    <3>1. complete' \in BOOLEAN
      <4>1. /\ migrated'["revokers"] \in Nat /\ Len(lists["revokers"]) \in Nat
            /\ complete' = (migrated'["revokers"] >= Len(lists["revokers"]))
          BY <1>1, <1>3, <1>8, ListsAreSequences
      <4> QED BY <4>1
    <3>2. CASE complete'
        BY <3>2, <1>1, <3>1
    <3>3. CASE ~complete'
        BY <3>3, <1>1, <3>1 DEF MigratorInv, MigratorTypeOK
    <3> QED BY <3>2, <3>3
  <2> QED BY <2>1, <2>2, <1>1 DEF MigratorInv, MigratorTypeOK
<1>13. RootFollowsCompletion' /\ HandedOverToRoot'
    BY <1>1 DEF MigratorInv, MigratorTypeOK, RootFollowsCompletion, HandedOverToRoot
<1> QED BY <1>11, <1>12, <1>13 DEF MigratorInv

LEMMA StepMigratorInv == MigratorInv /\ MigratorStep => MigratorInv'
<1> SUFFICES ASSUME MigratorInv, MigratorStep PROVE MigratorInv'
    OBVIOUS
<1> USE DEF MigratorInv, MigratorTypeOK, MigratedInOrder, RootFollowsCompletion, HandedOverToRoot
<1>1. CASE \E rolesToMigrate \in Batches : Migrate(rolesToMigrate)
    BY <1>1, MigrateKeepsInv
<1>2. CASE claimRoot
    BY <1>2 DEF claimRoot
<1>3. CASE finalizeMigration
    BY <1>3 DEF finalizeMigration, RootClaimed, newVars
<1>4. CASE DelayEnds
    BY <1>4 DEF DelayEnds, newVars
<1>5. CASE ChangeMigratorsPermission
    BY <1>5 DEF ChangeMigratorsPermission, newVars
<1>6. CASE UNCHANGED migratorVars
    BY <1>6 DEF migratorVars, newVars
<1> QED BY <1>1, <1>2, <1>3, <1>4, <1>5, <1>6 DEF MigratorStep, MigratorNext

------------------------------------------------------------------------------

\* A migration that is complete, with revokers in the lists, has gone through all of them.
LEMMA CompleteIsWhole == MigratorInv => NotCutShort
<1> SUFFICES ASSUME MigratorInv, lists.revokers # <<>>, complete \/ pendingRoot = "root" \/ root = "root"
             PROVE  AllMigrated
    BY DEF NotCutShort
<1>1. "roles" \in Kinds /\ "granters" \in Kinds /\ "revokers" \in Kinds
    BY DEF Kinds
<1>2. migrated.revokers >= Len(lists.revokers)
    BY DEF MigratorInv, RootFollowsCompletion
<1>3. Len(lists.revokers) > 0
    BY <1>1, ListsAreSequences, EmptySeq
<1>4. migrated.revokers = Len(lists.revokers) /\ migrated.revokers > 0
    BY <1>1, <1>2, <1>3, ListsAreSequences
<1>5. migrated.granters = Len(lists.granters) /\ migrated.roles = Len(lists.roles)
    BY <1>4 DEF MigratorInv, MigratedInOrder
<1>6. ASSUME NEW k \in Kinds PROVE granted[k] = Range(lists[k])
  <2>1. migrated[k] = Len(lists[k])
      BY <1>4, <1>5 DEF Kinds
  <2>2. SubSeq(lists[k], 1, Len(lists[k])) = lists[k]
      BY ListsAreSequences, SubSeqFull
  <2> QED BY <2>1, <2>2, ListsAreSequences
<1> QED BY <1>6 DEF AllMigrated

\* Whatever the lists and the sizes of the calls: what the new Authorizer grants is what the
\* lists say, in their order; root is given away when nothing is left to grant, if there are
\* revokers; and the Vault's Authorizer is changed for one whose root has shown that it can act.
THEOREM MigrationIsFaithful == MigratorSpec => []MigratedFaithfully
<1>1. MigratorInv => MigratedFaithfully
    BY CompleteIsWhole DEF MigratorInv, MigratedFaithfully
<1>2. MigratorInv /\ [MigratorNext]_migratorVars => MigratorInv'
    BY StepMigratorInv DEF MigratorStep
<1> QED BY <1>1, <1>2, InitMigratorInv, PTL DEF MigratorSpec
==============================================================================
