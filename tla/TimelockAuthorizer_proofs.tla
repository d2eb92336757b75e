--------------------- MODULE TimelockAuthorizer_proofs ---------------------
(***************************************************************************)
(* What TLAPS proves about the timelock, for every value of the constants. *)
(***************************************************************************)
EXTENDS TimelockAuthorizerHistory, TLAPS

\* The ids the contract builds are action ids.
LEMMA IdTypes ==
  /\ \A action \in Actions : ActId(action) \in ActionIds
  /\ \A s \in Selectors : OwnId(s) \in ActionIds
  /\ \A i \in Nat : ExecuteId(i) \in ActionIds
  /\ \A s \in Specifiers : GrantId(s) \in ActionIds /\ RevokeId(s) \in ActionIds
BY ConstantsAssumption DEF ActId, OwnId, ExecuteId, GrantId, RevokeId, ActionIds, PlainIds,
   Specifiers, Selectors

LEMMA NoArgumentsType == NoArguments \in CallData
BY ConstantsAssumption, IdTypes DEF NoArguments, CallData, Selectors, Accounts, Wheres

LEMMA DelayOfType == ASSUME TypeOK, NEW id PROVE DelayOf(id) \in 0..MAX_DELAY
BY ConstantsAssumption DEF TypeOK, DelayOf

LEMMA DelayChangeDelayType ==
  ASSUME TypeOK, NEW id, NEW newDelay \in 0..MAX_DELAY
  PROVE  DelayChangeDelay(id, newDelay) \in Nat
BY ConstantsAssumption, DelayOfType DEF DelayChangeDelay

\* A new execution is well typed if the call it makes is.
LEMMA ScheduleWithDelayType ==
  ASSUME TypeOK, NEW where \in Targets \cup {Authorizer}, NEW data \in CallData,
         NEW delay \in Nat, NEW executors \in SUBSET Users,
         ScheduleWithDelay(where, data, delay, executors)
  PROVE  TypeOK'
<1> DEFINE e == [where |-> where, data |-> data, executed |-> FALSE, cancelled |-> FALSE,
                 protected |-> executors # {}, executableAt |-> ExecutableAt(delay)]
<1>1. e \in ScheduledExecution
  BY DEF ScheduledExecution, ExecutableAt, TypeOK
<1>2. scheduledExecutions' \in Seq(ScheduledExecution)
  BY <1>1 DEF ScheduleWithDelay, TypeOK
<1>3. granted' \subseteq ActionIds \X Accounts \X Wheres
  BY IdTypes DEF ScheduleWithDelay, TypeOK, Accounts, Wheres
<1> QED BY <1>2, <1>3 DEF ScheduleWithDelay, TypeOK

\* What the five scheduling functions append is well typed.
LEMMA SchedulingType ==
  ASSUME TypeOK, NEW sender \in Users, NEW executors \in ExecutorLists,
         Scheduling(sender, executors)
  PROVE  TypeOK'
<1> executors \in SUBSET Users  BY ConstantsAssumption
<1> USE NoArgumentsType
<1>1. ASSUME NEW newRoot \in TriedRoots, ScheduleRootChange(sender, newRoot, executors)
      PROVE  TypeOK'
  <2>1. [NoArguments EXCEPT !.sel = "setPendingRoot", !.account = newRoot] \in CallData
    BY ConstantsAssumption DEF CallData, Selectors
  <2> QED BY <1>1, <2>1, ScheduleWithDelayType, ConstantsAssumption DEF ScheduleRootChange
<1>2. ASSUME NEW id \in DelayableIds, NEW newDelay \in TriedDelays,
             ScheduleDelayChange(sender, id, newDelay, executors)
      PROVE  TypeOK'
  <2>1. newDelay \in 0..MAX_DELAY
    BY <1>2, ConstantsAssumption DEF ScheduleDelayChange, DelayAllowed
  <2>2. [NoArguments EXCEPT !.sel = "setDelay", !.id = id, !.delay = newDelay] \in CallData
    BY <2>1, ConstantsAssumption DEF CallData, Selectors
  <2> QED BY <1>2, <2>1, <2>2, DelayChangeDelayType, ScheduleWithDelayType
          DEF ScheduleDelayChange
<1>3. ASSUME NEW action \in Actions, NEW where \in Targets,
             Schedule(sender, action, where, executors)
      PROVE  TypeOK'
  <2>1. [NoArguments EXCEPT !.id = ActId(action), !.where = where] \in CallData
    BY IdTypes DEF CallData, Wheres
  <2> QED BY <1>3, <2>1, DelayOfType, ScheduleWithDelayType, ConstantsAssumption
          DEF Schedule, ScheduleAction
<1>4. ASSUME NEW id \in GrantableIds, NEW account \in TriedAccounts, NEW where \in TriedWheres,
             ScheduleGrantPermission(sender, id, account, where, executors)
      PROVE  TypeOK'
  <2>1. [NoArguments EXCEPT !.sel = "grantPermissions", !.id = id,
                            !.account = account, !.where = where] \in CallData
    BY ConstantsAssumption DEF CallData, Selectors, Accounts
  <2> QED BY <1>4, <2>1, DelayOfType, ScheduleWithDelayType, ConstantsAssumption
          DEF ScheduleGrantPermission, ScheduleAction
<1>5. ASSUME NEW id \in GrantableIds, NEW account \in TriedAccounts, NEW where \in TriedWheres,
             ScheduleRevokePermission(sender, id, account, where, executors)
      PROVE  TypeOK'
  <2>1. [NoArguments EXCEPT !.sel = "revokePermissions", !.id = id,
                            !.account = account, !.where = where] \in CallData
    BY ConstantsAssumption DEF CallData, Selectors, Accounts
  <2> QED BY <1>5, <2>1, DelayOfType, ScheduleWithDelayType, ConstantsAssumption
          DEF ScheduleRevokePermission, ScheduleAction
<1> QED BY <1>1, <1>2, <1>3, <1>4, <1>5 DEF Scheduling

\* Settling an execution, in either way, leaves a well-typed execution in its place.
LEMMA SettledType ==
  ASSUME TypeOK, NEW i \in DOMAIN scheduledExecutions
  PROVE  /\ [scheduledExecutions EXCEPT ![i].executed = TRUE] \in Seq(ScheduledExecution)
         /\ [scheduledExecutions EXCEPT ![i].cancelled = TRUE] \in Seq(ScheduledExecution)
<1>1. scheduledExecutions[i] \in ScheduledExecution  BY DEF TypeOK
<1>2. /\ [scheduledExecutions[i] EXCEPT !.executed = TRUE] \in ScheduledExecution
      /\ [scheduledExecutions[i] EXCEPT !.cancelled = TRUE] \in ScheduledExecution
  BY <1>1 DEF ScheduledExecution
<1>3. ASSUME NEW e \in ScheduledExecution
      PROVE  [scheduledExecutions EXCEPT ![i] = e] \in Seq(ScheduledExecution)
  BY DEF TypeOK
<1> QED BY <1>2, <1>3

LEMMA ExecuteType ==
  ASSUME TypeOK, NEW sender \in Users, NEW i \in DOMAIN scheduledExecutions,
         Execute(sender, i)
  PROVE  TypeOK'
<1> DEFINE call == scheduledExecutions[i].data
<1>1. scheduledExecutions[i] \in ScheduledExecution  BY DEF TypeOK
<1>2. call \in CallData  BY <1>1 DEF ScheduledExecution
<1>3. scheduledExecutions' \in Seq(ScheduledExecution)
  BY SettledType DEF Execute
<1>4. /\ pendingRoot' \in Accounts
      /\ granted' \subseteq ActionIds \X Accounts \X Wheres
      /\ delays' \in [DelayableIds -> 0..MAX_DELAY]
  BY <1>2 DEF Execute, SetPendingRoot, SetDelay, ExecutorGrants, ExecutorRevokes, ExecutorActs,
     TypeOK, CallData
<1> QED BY <1>3, <1>4 DEF Execute, TypeOK

LEMMA ManagingType ==
  ASSUME TypeOK, NEW sender \in Users, NEW where \in TriedWheres, Managing(sender, where)
  PROVE  TypeOK'
<1>1. granted' \subseteq ActionIds \X Accounts \X Wheres
  BY ConstantsAssumption, IdTypes DEF Managing, ManageGranter, ManageRevoker, GrantPermissions,
     RevokePermissions, RenouncePermissions, TypeOK, Accounts
<1> QED BY <1>1 DEF Managing, ManageGranter, ManageRevoker, GrantPermissions,
     RevokePermissions, RenouncePermissions, OnlyPermissionsChange, TypeOK

LEMMA NextType == TypeOK /\ [Next]_vars => TypeOK'
<1> SUFFICES ASSUME TypeOK, [Next]_vars PROVE TypeOK'  OBVIOUS
<1>1. ASSUME NEW sender \in Users, NEW executors \in ExecutorLists,
             Scheduling(sender, executors)
      PROVE  TypeOK'
  BY <1>1, SchedulingType
<1>2. ASSUME NEW sender \in Users, NEW i \in DOMAIN scheduledExecutions, Execute(sender, i)
      PROVE  TypeOK'
  BY <1>2, ExecuteType
<1>3. ASSUME NEW sender \in Users, NEW i \in DOMAIN scheduledExecutions, Cancel(sender, i)
      PROVE  TypeOK'
  BY <1>3, SettledType DEF Cancel, TypeOK
<1>4. ASSUME NEW sender \in Users, ClaimRoot(sender)
      PROVE  TypeOK'
  <2>1. GrantId(GENERAL) \in ActionIds /\ RevokeId(GENERAL) \in ActionIds
    BY IdTypes DEF Specifiers
  <2>2. granted' \subseteq ActionIds \X Accounts \X Wheres
    BY <1>4, <2>1 DEF ClaimRoot, TypeOK, Wheres
  <2> QED BY <1>4, <2>2 DEF ClaimRoot, TypeOK, Accounts
<1>5. ASSUME NEW sender \in Users, NEW where \in TriedWheres, Managing(sender, where)
      PROVE  TypeOK'
  BY <1>5, ManagingType
<1>6. ASSUME Tick PROVE TypeOK'
  BY <1>6 DEF Tick, TypeOK
<1>7. ASSUME UNCHANGED vars PROVE TypeOK'
  BY <1>7 DEF vars, TypeOK
<1> QED BY <1>1, <1>2, <1>3, <1>4, <1>5, <1>6, <1>7 DEF Next, Transaction

LEMMA InitType == Init => TypeOK
BY ConstantsAssumption, IdTypes DEF Init, TypeOK, Accounts, Wheres, Specifiers

\* The state of the authorizer keeps its types: no delay exceeds MAX_DELAY, root is
\* never the zero address.
THEOREM TypeCorrect == Spec => []TypeOK
BY InitType, NextType, PTL DEF Spec

-----------------------------------------------------------------------------
\* The four kinds of step, by what they do to the executions.

Schedules(sender, e) ==
  /\ scheduledExecutions' = Append(scheduledExecutions, e)
  /\ Pending(e)
  /\ ~Governed(e.data) => sender = root
  /\ e.data.sel = "setPendingRoot" => e.executableAt = now + RootTransferDelay
  /\ e.data.sel = "setDelay" /\ e.data.id \in DelayableIds =>
       now + delays[e.data.id] <= e.executableAt + e.data.delay
  /\ Governed(e.data) => /\ GoverningId(e.data) \in DelayableIds
                         /\ e.executableAt = now + delays[GoverningId(e.data)]
  /\ UNCHANGED <<now, root, pendingRoot, delays>>

Runs(i) ==
  /\ CanExecute(i)
  /\ scheduledExecutions' = [scheduledExecutions EXCEPT ![i].executed = TRUE]
  /\ \/ delays' = delays
     \/ /\ scheduledExecutions[i].data.sel = "setDelay"
        /\ delays' = [delays EXCEPT ![scheduledExecutions[i].data.id] =
                        scheduledExecutions[i].data.delay]
  /\ \/ pendingRoot' = pendingRoot
     \/ /\ scheduledExecutions[i].data.sel = "setPendingRoot"
        /\ pendingRoot' = scheduledExecutions[i].data.account
  /\ UNCHANGED <<now, root>>

Cancels(i) ==
  /\ Pending(scheduledExecutions[i])
  /\ scheduledExecutions' = [scheduledExecutions EXCEPT ![i].cancelled = TRUE]
  /\ UNCHANGED <<now, root, pendingRoot, delays>>

LeavesExecutions ==
  /\ now <= now'
  /\ \/ UNCHANGED <<root, pendingRoot>>
     \/ pendingRoot # ZeroAddress /\ root' = pendingRoot /\ pendingRoot' = ZeroAddress
  /\ UNCHANGED <<delays, scheduledExecutions>>

LEMMA SchedulingShape ==
  ASSUME TypeOK, NEW sender \in Users, NEW executors \in ExecutorLists,
         Scheduling(sender, executors)
  PROVE  \E e \in ScheduledExecution : Schedules(sender, e)
<1> DEFINE e == scheduledExecutions'[Len(scheduledExecutions')]
<1> executors \in SUBSET Users  BY ConstantsAssumption
<1>0. TypeOK'  BY SchedulingType
<1>1. ASSUME NEW where, NEW data, NEW delay, ScheduleWithDelay(where, data, delay, executors)
      PROVE  /\ scheduledExecutions' = Append(scheduledExecutions, e)
             /\ e.data = data /\ e.executableAt = now + delay /\ Pending(e)
             /\ e \in ScheduledExecution
             /\ UNCHANGED <<now, root, pendingRoot, delays>>
  <2> DEFINE new == [where |-> where, data |-> data, executed |-> FALSE, cancelled |-> FALSE,
                     protected |-> executors # {}, executableAt |-> now + delay]
  <2>1. scheduledExecutions' = Append(scheduledExecutions, new)
    BY <1>1 DEF ScheduleWithDelay, ExecutableAt
  <2>2. e = new
    <3> HIDE DEF new
    <3> QED BY <2>1 DEF TypeOK
  <2>3. Len(scheduledExecutions') \in DOMAIN scheduledExecutions'
    <3> HIDE DEF new
    <3> QED BY <2>1, <1>0 DEF TypeOK
  <2>4. e \in ScheduledExecution
    <3> HIDE DEF e
    <3> QED BY <2>3, <1>0 DEF e, TypeOK
  <2> HIDE DEF e
  <2> QED BY <1>1, <2>1, <2>2, <2>4 DEF Pending, ScheduleWithDelay
<1>2. ASSUME NEW id, NEW where, NEW data, ScheduleAction(id, where, data, executors),
             Governed(data), GoverningId(data) = id
      PROVE  \E x \in ScheduledExecution : Schedules(sender, x)
  <2>1. id \in DelayableIds /\ DelayOf(id) = delays[id]
    BY <1>2 DEF ScheduleAction, DelayOf
  <2> HIDE DEF e
  <2> QED BY <1>1, <1>2, <2>1 DEF ScheduleAction, Schedules, Governed
<1>3. ASSUME NEW newRoot \in TriedRoots, ScheduleRootChange(sender, newRoot, executors)
      PROVE  \E x \in ScheduledExecution : Schedules(sender, x)
  <2> DEFINE data == [NoArguments EXCEPT !.sel = "setPendingRoot", !.account = newRoot]
  <2>1. data.sel = "setPendingRoot"  BY DEF NoArguments
  <2> HIDE DEF e, data
  <2> QED BY <1>1, <1>3, <2>1 DEF ScheduleRootChange, Schedules, Governed, data
<1>4. ASSUME NEW id \in DelayableIds, NEW newDelay \in TriedDelays,
             ScheduleDelayChange(sender, id, newDelay, executors)
      PROVE  \E x \in ScheduledExecution : Schedules(sender, x)
  <2> DEFINE data == [NoArguments EXCEPT !.sel = "setDelay", !.id = id, !.delay = newDelay]
  <2>1. data.sel = "setDelay" /\ data.id = id /\ data.delay = newDelay  BY DEF NoArguments
  <2>2. newDelay \in Nat /\ delays[id] \in Nat /\ now \in Nat
    BY ConstantsAssumption DEF TypeOK
  <2>3. DelayChangeDelay(id, newDelay) \in Nat
        /\ now + delays[id] <= now + DelayChangeDelay(id, newDelay) + newDelay
    BY <2>2, ConstantsAssumption DEF DelayChangeDelay, DelayOf
  <2> HIDE DEF e, data
  <2> QED BY <1>1, <1>4, <2>1, <2>3 DEF ScheduleDelayChange, Schedules, Governed, data
<1>5. ASSUME NEW action \in Actions, NEW where \in Targets,
             Schedule(sender, action, where, executors)
      PROVE  \E x \in ScheduledExecution : Schedules(sender, x)
  <2> DEFINE data == [NoArguments EXCEPT !.id = ActId(action), !.where = where]
  <2>1. Governed(data) /\ GoverningId(data) = ActId(action)
    BY DEF NoArguments, Governed, GoverningId
  <2> HIDE DEF data
  <2> QED BY <1>2, <1>5, <2>1 DEF Schedule, data
<1>6. ASSUME NEW id \in GrantableIds, NEW account \in TriedAccounts, NEW where \in TriedWheres,
             ScheduleGrantPermission(sender, id, account, where, executors)
      PROVE  \E x \in ScheduledExecution : Schedules(sender, x)
  <2> DEFINE data == [NoArguments EXCEPT !.sel = "grantPermissions", !.id = id,
                                         !.account = account, !.where = where]
  <2>1. Governed(data) /\ GoverningId(data) = GrantId(id)
    BY DEF NoArguments, Governed, GoverningId
  <2> HIDE DEF data
  <2> QED BY <1>2, <1>6, <2>1 DEF ScheduleGrantPermission, data
<1>7. ASSUME NEW id \in GrantableIds, NEW account \in TriedAccounts, NEW where \in TriedWheres,
             ScheduleRevokePermission(sender, id, account, where, executors)
      PROVE  \E x \in ScheduledExecution : Schedules(sender, x)
  <2> DEFINE data == [NoArguments EXCEPT !.sel = "revokePermissions", !.id = id,
                                         !.account = account, !.where = where]
  <2>1. Governed(data) /\ GoverningId(data) = RevokeId(id)
    BY DEF NoArguments, Governed, GoverningId
  <2> HIDE DEF data
  <2> QED BY <1>2, <1>7, <2>1 DEF ScheduleRevokePermission, data
<1> QED BY <1>3, <1>4, <1>5, <1>6, <1>7 DEF Scheduling

LEMMA TransactionShape ==
  ASSUME TypeOK, NEW sender \in Users, Transaction(sender)
  PROVE  \/ \E e \in ScheduledExecution : Schedules(sender, e)
         \/ \E i \in DOMAIN scheduledExecutions : Runs(i) \/ Cancels(i)
         \/ LeavesExecutions
<1>1. ASSUME NEW i \in DOMAIN scheduledExecutions, Execute(sender, i)
      PROVE  Runs(i)
  BY <1>1 DEF Execute, Runs, SetPendingRoot, SetDelay, ExecutorGrants, ExecutorRevokes,
     ExecutorActs
<1>2. ASSUME NEW i \in DOMAIN scheduledExecutions, Cancel(sender, i)
      PROVE  Cancels(i)
  BY <1>2 DEF Cancel, Cancels, Pending
<1>3. ASSUME ClaimRoot(sender) PROVE LeavesExecutions
  BY <1>3, ConstantsAssumption DEF ClaimRoot, LeavesExecutions, TypeOK
<1>4. ASSUME NEW where \in TriedWheres, Managing(sender, where)
      PROVE  LeavesExecutions
  BY <1>4 DEF Managing, ManageGranter, ManageRevoker, GrantPermissions, RevokePermissions,
     RenouncePermissions, OnlyPermissionsChange, LeavesExecutions, TypeOK
<1> QED BY <1>1, <1>2, <1>3, <1>4, SchedulingShape DEF Transaction

LEMMA NextShape ==
  ASSUME TypeOK, [Next]_vars
  PROVE  \/ \E sender \in Users, e \in ScheduledExecution : Schedules(sender, e)
         \/ \E i \in DOMAIN scheduledExecutions : Runs(i) \/ Cancels(i)
         \/ LeavesExecutions
<1>1. ASSUME Tick \/ UNCHANGED vars PROVE LeavesExecutions
  BY <1>1 DEF Tick, vars, LeavesExecutions, TypeOK
<1> QED BY <1>1, TransactionShape DEF Next

-----------------------------------------------------------------------------
\* The inductive invariant.

LEMMA InitInv == HInit => HInv
<1> SUFFICES ASSUME HInit PROVE HInv  OBVIOUS
<1>1. TypeOK  BY InitType DEF HInit
<1>2. scheduledExecutions = << >> /\ scheduledLog = << >> /\ now = 0
      /\ root = Admin /\ pendingRoot = ZeroAddress
      /\ floor = [id \in DelayableIds |-> 0] /\ delays = [id \in DelayableIds |-> 0]
  BY DEF HInit, Init
<1>3. HTypeOK  BY <1>2 DEF HTypeOK
<1>4. DelayHonoured /\ PromisesWithinDelays /\ PendingChangesKeepPromises /\ RanWhenDue
  BY <1>2 DEF DelayHonoured, PromisesWithinDelays, PendingChangesKeepPromises, RanWhenDue
<1>5. RootChainOfCustody /\ RootChangesWait /\ PendingRootNominated
  BY <1>2 DEF RootChainOfCustody, RootChangesWait, PendingRootNominated
<1> QED BY <1>1, <1>3, <1>4, <1>5 DEF HInv

\* A promise is raised only to what the delay, as it is after the step, honours, and
\* only while no change of that delay is pending.
LEMMA RaisedFloor ==
  ASSUME TypeOK, TypeOK', HTypeOK, RaiseFloors, NEW id \in DelayableIds,
         floor[id] <= now' + delays'[id]
  PROVE  /\ floor'[id] \in Nat
         /\ floor'[id] <= now' + delays'[id]
         /\ DelayChangePending(id)' => floor'[id] = floor[id]
BY DEF RaiseFloors, RaiseFloor, TypeOK, HTypeOK

\* A step that leaves the number of executions alone leaves the log alone.
LEMMA SameLog ==
  ASSUME TypeOK, NEW sender, RecordScheduling(sender),
         Len(scheduledExecutions') = Len(scheduledExecutions)
  PROVE  scheduledLog' = scheduledLog
BY DEF RecordScheduling, TypeOK

\* The invariant after a new execution.
LEMMA SchedulesInv ==
  ASSUME HInv, TypeOK', NEW sender \in Users, RecordScheduling(sender), RaiseFloors,
         NEW e \in ScheduledExecution, Schedules(sender, e)
  PROVE  HInv'
<1> DEFINE n == Len(scheduledExecutions)
<1> DEFINE promised == IF Governed(e.data) THEN FloorOf(GoverningId(e.data)) ELSE 0
<1> DEFINE entry == [at |-> now, sender |-> sender, root |-> root, floor |-> promised]
<1> USE DEF HInv
<1>1. /\ n \in Nat /\ Len(scheduledExecutions') = n + 1
      /\ scheduledExecutions'[n + 1] = e
      /\ \A i \in 1..n : scheduledExecutions'[i] = scheduledExecutions[i]
      /\ DOMAIN scheduledExecutions = 1..n /\ DOMAIN scheduledExecutions' = 1..(n + 1)
  BY DEF Schedules, TypeOK
<1>2. scheduledLog' = Append(scheduledLog, entry)
  BY <1>1 DEF RecordScheduling
<1>3. promised \in Nat  BY DEF HTypeOK, FloorOf
<1>4. entry \in LogEntry
  BY <1>3 DEF TypeOK, LogEntry
<1>5. /\ scheduledLog'[n + 1] = entry
      /\ \A i \in 1..n : scheduledLog'[i] = scheduledLog[i]
      /\ Len(scheduledLog') = n + 1
      /\ scheduledLog' \in Seq(LogEntry)
  <2> HIDE DEF entry
  <2> QED BY <1>2, <1>4, <1>1 DEF HTypeOK
<1>6. \A id \in DelayableIds :
        /\ floor'[id] \in Nat /\ floor'[id] <= now' + delays'[id]
        /\ DelayChangePending(id)' => floor'[id] = floor[id]
  <2> TAKE id \in DelayableIds
  <2>1. floor[id] <= now' + delays'[id]
    BY DEF PromisesWithinDelays, Schedules
  <2> QED BY <2>1, RaisedFloor
<1>7. HTypeOK'
  BY <1>1, <1>5, <1>6 DEF HTypeOK, RaiseFloors
<1>8. PromisesWithinDelays'  BY <1>6 DEF PromisesWithinDelays
<1>9. DelayHonoured'
  <2>1. \A id \in DelayableIds : delays'[id] = 0 => floor'[id] <= now'
    BY <1>6 DEF TypeOK
  <2>2. e.executableAt >= promised
    <3>1. CASE Governed(e.data)
      BY <1>3, <3>1 DEF Schedules, FloorOf, PromisesWithinDelays
    <3>2. CASE ~Governed(e.data)
      BY <3>2 DEF ScheduledExecution
    <3> QED BY <3>1, <3>2
  <2> HIDE DEF promised
  <2> QED BY <1>1, <1>5, <2>1, <2>2 DEF DelayHonoured
<1>10. PendingChangesKeepPromises'
  <2> SUFFICES ASSUME NEW i \in 1..(n + 1), Pending(scheduledExecutions'[i]),
                      scheduledExecutions'[i].data.sel = "setDelay",
                      scheduledExecutions'[i].data.id \in DelayableIds
               PROVE  floor'[scheduledExecutions'[i].data.id]
                        <= scheduledExecutions'[i].executableAt + scheduledExecutions'[i].data.delay
    BY <1>1 DEF PendingChangesKeepPromises, Pending
  <2> DEFINE id == scheduledExecutions'[i].data.id
  <2>1. floor'[id] = floor[id]
    BY <1>1, <1>6 DEF DelayChangePending, Pending
  <2>2. CASE i \in 1..n
    BY <2>1, <2>2, <1>1 DEF PendingChangesKeepPromises
  <2>3. CASE i = n + 1
    <3>1. scheduledExecutions'[i] = e  BY <1>1, <2>3
    <3>2. e.data \in CallData /\ e.executableAt \in Nat  BY DEF ScheduledExecution
    <3>3. e.data.delay \in Nat
      BY <3>2, ConstantsAssumption DEF CallData
    <3>4. floor[e.data.id] \in Nat /\ floor[e.data.id] <= now + delays[e.data.id]
      BY <3>1 DEF PromisesWithinDelays, HTypeOK
    <3>5. now \in Nat /\ delays[e.data.id] \in Nat
      BY <3>1, ConstantsAssumption DEF TypeOK
    <3> QED BY SMTT(30), <2>1, <3>1, <3>2, <3>3, <3>4, <3>5 DEF Schedules
  <2> QED BY <2>2, <2>3
<1>11. RanWhenDue'
  BY <1>1 DEF RanWhenDue, Schedules, Pending
<1>12. RootChangesWait'
  <2> SUFFICES ASSUME NEW i \in 1..(n + 1),
                      scheduledExecutions'[i].data.sel = "setPendingRoot"
               PROVE  scheduledExecutions'[i].executableAt
                        = scheduledLog'[i].at + RootTransferDelay
    BY <1>1 DEF RootChangesWait
  <2>1. CASE i \in 1..n
    BY <1>1, <1>5, <2>1 DEF RootChangesWait
  <2>2. CASE i = n + 1
    <3>1. scheduledExecutions'[i] = e /\ scheduledLog'[i].at = now
      BY <1>1, <1>5, <2>2
    <3> QED BY <3>1 DEF Schedules
  <2> QED BY <2>1, <2>2
<1>13. \A account, time : \A i \in 1..n :
         NominatedBy(account, time, i) => NominatedBy(account, time, i)'
  BY <1>1, <1>5 DEF NominatedBy, ScheduledByRoot
<1>14. PendingRootNominated'
  BY <1>1, <1>13 DEF PendingRootNominated, Schedules
<1>15. RootChainOfCustody'
  <2>1. root' # Admin => \E i \in DOMAIN scheduledExecutions' : NominatedBy(root, now, i)'
    BY <1>1, <1>13 DEF RootChainOfCustody, Schedules
  <2>2. ASSUME NEW i \in 1..(n + 1), scheduledLog'[i].root # Admin
        PROVE  \E j \in 1..(i - 1) : NominatedBy(scheduledLog[i].root, scheduledLog[i].at, j)'
    <3>1. CASE i \in 1..n
      <4>1. scheduledLog'[i] = scheduledLog[i]  BY <1>5, <3>1
      <4>2. PICK j \in 1..(i - 1) :
              NominatedBy(scheduledLog[i].root, scheduledLog[i].at, j)
        BY <1>1, <2>2, <3>1, <4>1 DEF RootChainOfCustody
      <4>3. NominatedBy(scheduledLog[i].root, scheduledLog[i].at, j)'
        BY <1>1, <1>5, <3>1, <4>1, <4>2 DEF NominatedBy, ScheduledByRoot
      <4> QED BY <4>3
    <3>2. CASE i = n + 1
      <4>1. scheduledLog'[i].root = root /\ scheduledLog'[i].at = now
        BY <1>5, <3>2
      <4>2. \E j \in 1..n : NominatedBy(root, now, j)
        BY <1>1, <2>2, <4>1 DEF RootChainOfCustody
      <4> QED BY <1>1, <1>13, <3>2, <4>1, <4>2 DEF NominatedBy
    <3> QED BY <3>1, <3>2
  <2>3. ASSUME NEW i \in 1..(n + 1), ~Governed(scheduledExecutions'[i].data)
        PROVE  ScheduledByRoot(i)'
    <3>1. CASE i \in 1..n
      BY <1>1, <1>5, <2>3, <3>1 DEF RootChainOfCustody, ScheduledByRoot
    <3>2. CASE i = n + 1
      <4>1. /\ scheduledExecutions'[i] = e
            /\ scheduledLog'[i].sender = sender /\ scheduledLog'[i].root = root
        BY <1>1, <1>5, <3>2
      <4> QED BY <2>3, <4>1 DEF Schedules, ScheduledByRoot
    <3> QED BY <3>1, <3>2
  <2> QED BY <1>1, <2>1, <2>2, <2>3 DEF RootChainOfCustody, Governed
<1> QED BY <1>7, <1>8, <1>9, <1>10, <1>11, <1>12, <1>14, <1>15

\* The steps that add no execution: settling one, and all others.
LEMMA SettledShape ==
  ASSUME TypeOK, NEW i \in DOMAIN scheduledExecutions, Runs(i) \/ Cancels(i)
  PROVE  /\ Len(scheduledExecutions') = Len(scheduledExecutions)
         /\ DOMAIN scheduledExecutions' = DOMAIN scheduledExecutions
         /\ \A j \in DOMAIN scheduledExecutions :
              /\ scheduledExecutions'[j].where = scheduledExecutions[j].where
              /\ scheduledExecutions'[j].data = scheduledExecutions[j].data
              /\ scheduledExecutions'[j].protected = scheduledExecutions[j].protected
              /\ scheduledExecutions'[j].executableAt = scheduledExecutions[j].executableAt
              /\ scheduledExecutions[j].executed => scheduledExecutions'[j].executed
              /\ Pending(scheduledExecutions'[j]) => Pending(scheduledExecutions[j])
              /\ j # i => scheduledExecutions'[j] = scheduledExecutions[j]
<1>1. scheduledExecutions[i] \in ScheduledExecution  BY DEF TypeOK
<1>2. ASSUME NEW e \in ScheduledExecution
      PROVE  LET r == [e EXCEPT !.executed = TRUE]
                 c == [e EXCEPT !.cancelled = TRUE]
             IN  /\ r.where = e.where /\ r.data = e.data /\ r.protected = e.protected
                 /\ r.executableAt = e.executableAt /\ r.executed /\ r.cancelled = e.cancelled
                 /\ c.where = e.where /\ c.data = e.data /\ c.protected = e.protected
                 /\ c.executableAt = e.executableAt /\ c.cancelled /\ c.executed = e.executed
  BY DEF ScheduledExecution
<1>3. ASSUME NEW r, scheduledExecutions' = [scheduledExecutions EXCEPT ![i] = r]
      PROVE  /\ Len(scheduledExecutions') = Len(scheduledExecutions)
             /\ DOMAIN scheduledExecutions' = DOMAIN scheduledExecutions
             /\ scheduledExecutions'[i] = r
             /\ \A j \in DOMAIN scheduledExecutions :
                  j # i => scheduledExecutions'[j] = scheduledExecutions[j]
  BY <1>3 DEF TypeOK
<1>4. CASE Runs(i)
  <2> DEFINE r == [scheduledExecutions[i] EXCEPT !.executed = TRUE]
  <2>1. scheduledExecutions' = [scheduledExecutions EXCEPT ![i] = r]
    BY <1>4 DEF Runs
  <2>2. /\ r.where = scheduledExecutions[i].where /\ r.data = scheduledExecutions[i].data
        /\ r.protected = scheduledExecutions[i].protected
        /\ r.executableAt = scheduledExecutions[i].executableAt /\ r.executed
    BY <1>1, <1>2
  <2> HIDE DEF r
  <2> QED BY <2>1, <2>2, <1>3 DEF Pending
<1>5. CASE Cancels(i)
  <2> DEFINE c == [scheduledExecutions[i] EXCEPT !.cancelled = TRUE]
  <2>1. scheduledExecutions' = [scheduledExecutions EXCEPT ![i] = c]
    BY <1>5 DEF Cancels
  <2>2. /\ c.where = scheduledExecutions[i].where /\ c.data = scheduledExecutions[i].data
        /\ c.protected = scheduledExecutions[i].protected
        /\ c.executableAt = scheduledExecutions[i].executableAt
        /\ c.executed = scheduledExecutions[i].executed /\ c.cancelled
    BY <1>1, <1>2
  <2> HIDE DEF c
  <2> QED BY <2>1, <2>2, <1>3 DEF Pending
<1> QED BY <1>4, <1>5

\* What a settled execution was, when it runs and when it is cancelled.
LEMMA SettledNow ==
  ASSUME TypeOK, NEW i \in DOMAIN scheduledExecutions
  PROVE  /\ Runs(i) => /\ Pending(scheduledExecutions[i])
                       /\ scheduledExecutions'[i].executed
                       /\ ~scheduledExecutions'[i].cancelled
                       /\ now >= scheduledExecutions[i].executableAt
         /\ Cancels(i) => /\ Pending(scheduledExecutions[i])
                          /\ ~scheduledExecutions'[i].executed
<1>1. scheduledExecutions[i] \in ScheduledExecution  BY DEF TypeOK
<1>2. ASSUME NEW e \in ScheduledExecution
      PROVE  /\ [e EXCEPT !.executed = TRUE].executed
             /\ [e EXCEPT !.executed = TRUE].cancelled = e.cancelled
             /\ [e EXCEPT !.cancelled = TRUE].executed = e.executed
  BY DEF ScheduledExecution
<1>3. ASSUME NEW r, scheduledExecutions' = [scheduledExecutions EXCEPT ![i] = r]
      PROVE  scheduledExecutions'[i] = r
  BY <1>3 DEF TypeOK
<1>4. Runs(i) => /\ scheduledExecutions'[i].executed
                 /\ scheduledExecutions'[i].cancelled = scheduledExecutions[i].cancelled
  <2> DEFINE r == [scheduledExecutions[i] EXCEPT !.executed = TRUE]
  <2>1. Runs(i) => scheduledExecutions' = [scheduledExecutions EXCEPT ![i] = r]
    BY DEF Runs
  <2>2. r.executed /\ r.cancelled = scheduledExecutions[i].cancelled
    BY <1>1, <1>2
  <2> HIDE DEF r
  <2> QED BY <2>1, <2>2, <1>3
<1>5. Cancels(i) => scheduledExecutions'[i].executed = scheduledExecutions[i].executed
  BY <1>1, <1>2, <1>3 DEF Cancels
<1> QED BY <1>4, <1>5 DEF Runs, Cancels, CanExecute, Pending

LEMMA ElementTypes ==
  ASSUME TypeOK, HTypeOK, NEW i \in DOMAIN scheduledExecutions
  PROVE  /\ scheduledExecutions[i] \in ScheduledExecution
         /\ scheduledExecutions[i].executableAt \in Nat
         /\ scheduledLog[i].at \in Nat
<1>1. scheduledExecutions[i] \in ScheduledExecution  BY DEF TypeOK
<1>2. scheduledExecutions[i].executableAt \in Nat  BY <1>1 DEF ScheduledExecution
<1>3. i \in 1..Len(scheduledLog)  BY DEF HTypeOK, TypeOK
<1>4. scheduledLog[i] \in LogEntry  BY <1>3 DEF HTypeOK
<1>5. scheduledLog[i].at \in Nat  BY <1>4 DEF LogEntry
<1> QED BY <1>1, <1>2, <1>5

\* A nomination stays one: executions are not undone and time does not go back.
LEMMA NominationStays ==
  ASSUME TypeOK, TypeOK', HTypeOK, scheduledLog' = scheduledLog,
         NEW j \in DOMAIN scheduledExecutions,
         scheduledExecutions'[j].data = scheduledExecutions[j].data,
         scheduledExecutions[j].executed => scheduledExecutions'[j].executed,
         NEW account, NEW earlier \in Nat, NEW later \in Nat, earlier <= later,
         NominatedBy(account, earlier, j)
  PROVE  /\ scheduledExecutions'[j].executed
         /\ scheduledExecutions'[j].data.sel = "setPendingRoot"
         /\ scheduledExecutions'[j].data.account = account
         /\ ScheduledByRoot(j)'
         /\ scheduledLog'[j].at + RootTransferDelay <= later
<1> QED BY ElementTypes, ConstantsAssumption DEF NominatedBy, ScheduledByRoot

\* The invariant after any step that adds no execution.
LEMMA OtherInv ==
  ASSUME HInv, TypeOK', RaiseFloors,
         UNCHANGED scheduledLog \/ \E sender \in Users : RecordScheduling(sender),
         \/ \E i \in DOMAIN scheduledExecutions : Runs(i) \/ Cancels(i)
         \/ LeavesExecutions
  PROVE  HInv'
<1> USE DEF HInv
<1>1. /\ Len(scheduledExecutions') = Len(scheduledExecutions)
      /\ DOMAIN scheduledExecutions' = DOMAIN scheduledExecutions
      /\ \A j \in DOMAIN scheduledExecutions :
           /\ scheduledExecutions'[j].data = scheduledExecutions[j].data
           /\ scheduledExecutions'[j].executableAt = scheduledExecutions[j].executableAt
           /\ scheduledExecutions[j].executed => scheduledExecutions'[j].executed
           /\ Pending(scheduledExecutions'[j]) => Pending(scheduledExecutions[j])
  BY SettledShape DEF LeavesExecutions
<1>2. scheduledLog' = scheduledLog  BY <1>1, SameLog
<1>3. now \in Nat /\ now' \in Nat /\ now <= now'
  BY DEF TypeOK, Runs, Cancels, LeavesExecutions
<1>4. \A id \in DelayableIds : floor[id] <= now' + delays'[id]
  <2> TAKE id \in DelayableIds
  <2>1. /\ floor[id] \in Nat /\ delays[id] \in Nat /\ delays'[id] \in Nat
        /\ floor[id] <= now + delays[id]
    BY ConstantsAssumption DEF HTypeOK, TypeOK, PromisesWithinDelays
  <2>2. CASE delays'[id] = delays[id]
    BY <1>3, <2>1, <2>2
  <2>3. CASE delays'[id] # delays[id]
    <3>1. PICK i \in DOMAIN scheduledExecutions :
            /\ Runs(i) /\ scheduledExecutions[i].data.sel = "setDelay"
            /\ delays' = [delays EXCEPT ![scheduledExecutions[i].data.id] =
                            scheduledExecutions[i].data.delay]
      BY <2>3 DEF Runs, Cancels, LeavesExecutions
    <3>2. /\ scheduledExecutions[i].data.id = id
          /\ delays'[id] = scheduledExecutions[i].data.delay
      BY <2>3, <3>1 DEF TypeOK
    <3>3. /\ Pending(scheduledExecutions[i])
          /\ scheduledExecutions[i].executableAt <= now
      BY <3>1, SettledNow
    <3>4. floor[id] <= scheduledExecutions[i].executableAt + delays'[id]
      BY <3>1, <3>2, <3>3 DEF PendingChangesKeepPromises
    <3>5. scheduledExecutions[i].executableAt \in Nat
      BY ElementTypes
    <3> QED BY <1>3, <2>1, <3>3, <3>4, <3>5
  <2> QED BY <2>2, <2>3
<1>5. \A id \in DelayableIds :
        /\ floor'[id] \in Nat /\ floor'[id] <= now' + delays'[id]
        /\ DelayChangePending(id)' => floor'[id] = floor[id]
  BY <1>4, RaisedFloor
<1>6. HTypeOK'
  BY <1>1, <1>2, <1>5 DEF HTypeOK, RaiseFloors
<1>7. PromisesWithinDelays'  BY <1>5 DEF PromisesWithinDelays
<1>8. DelayHonoured'
  <2>1. \A id \in DelayableIds : delays'[id] = 0 => floor'[id] <= now'
    BY <1>3, <1>5
  <2> QED BY <1>1, <1>2, <2>1 DEF DelayHonoured
<1>9. PendingChangesKeepPromises'
  <2> SUFFICES ASSUME NEW i \in DOMAIN scheduledExecutions', Pending(scheduledExecutions'[i]),
                      scheduledExecutions'[i].data.sel = "setDelay",
                      scheduledExecutions'[i].data.id \in DelayableIds
               PROVE  floor'[scheduledExecutions'[i].data.id]
                        <= scheduledExecutions'[i].executableAt + scheduledExecutions'[i].data.delay
    BY DEF PendingChangesKeepPromises, Pending
  <2>1. floor'[scheduledExecutions'[i].data.id] = floor[scheduledExecutions'[i].data.id]
    BY <1>5 DEF DelayChangePending, Pending
  <2> QED BY <1>1, <2>1 DEF PendingChangesKeepPromises
<1>10. RanWhenDue'
  <2> SUFFICES ASSUME NEW j \in DOMAIN scheduledExecutions
               PROVE  /\ ~(scheduledExecutions'[j].executed /\ scheduledExecutions'[j].cancelled)
                      /\ scheduledExecutions'[j].executed =>
                           now' >= scheduledExecutions'[j].executableAt
    BY <1>1 DEF RanWhenDue
  <2>0. scheduledExecutions[j].executableAt \in Nat
    BY ElementTypes
  <2>1. CASE scheduledExecutions'[j] = scheduledExecutions[j]
    BY <1>3, <2>0, <2>1 DEF RanWhenDue
  <2>2. CASE scheduledExecutions'[j] # scheduledExecutions[j]
    <3>1. Runs(j) \/ Cancels(j)
      BY <2>2, SettledShape DEF LeavesExecutions
    <3> QED BY <1>1, <1>3, <2>0, <3>1, SettledNow
  <2> QED BY <2>1, <2>2
<1>11. RootChangesWait'
  BY <1>1, <1>2 DEF RootChangesWait
<1>12. \A account : \A earlier \in Nat : \A j \in DOMAIN scheduledExecutions :
         NominatedBy(account, earlier, j) =>
           \A later \in Nat : earlier <= later => NominatedBy(account, later, j)'
  BY <1>1, <1>2, NominationStays DEF NominatedBy
<1>13. PendingRootNominated'
  <2> SUFFICES ASSUME pendingRoot' # ZeroAddress
               PROVE  \E j \in DOMAIN scheduledExecutions : NominatedBy(pendingRoot, now, j)'
    BY <1>1 DEF PendingRootNominated
  <2>1. CASE pendingRoot' = pendingRoot
    BY <1>3, <1>12, <2>1 DEF PendingRootNominated
  <2>2. CASE pendingRoot' # pendingRoot
    <3>1. PICK i \in DOMAIN scheduledExecutions :
            /\ Runs(i) /\ scheduledExecutions[i].data.sel = "setPendingRoot"
            /\ pendingRoot' = scheduledExecutions[i].data.account
      BY <2>2 DEF Runs, Cancels, LeavesExecutions
    <3>2. /\ scheduledExecutions'[i].executed
          /\ scheduledExecutions[i].executableAt <= now
      BY <3>1, SettledNow
    <3>3. scheduledLog'[i].at + RootTransferDelay = scheduledExecutions[i].executableAt
      BY <1>2, <3>1 DEF RootChangesWait
    <3>4. scheduledExecutions[i].executableAt \in Nat
      BY ElementTypes
    <3>5. ScheduledByRoot(i)'
      BY <1>2, <3>1 DEF RootChainOfCustody, Governed, ScheduledByRoot
    <3>6. NominatedBy(pendingRoot, now, i)'
      BY <1>1, <1>3, <3>1, <3>2, <3>3, <3>4, <3>5 DEF NominatedBy
    <3> QED BY <3>6
  <2> QED BY <2>1, <2>2
<1>14. RootChainOfCustody'
  <2>1. root' # Admin => \E j \in DOMAIN scheduledExecutions' : NominatedBy(root, now, j)'
    <3>1. CASE root' = root
      BY <1>1, <1>3, <1>12, <3>1 DEF RootChainOfCustody
    <3>2. CASE root' # root
      <4>1. pendingRoot # ZeroAddress /\ root' = pendingRoot
        BY <3>2 DEF Runs, Cancels, LeavesExecutions
      <4> QED BY <1>1, <1>3, <1>12, <4>1 DEF PendingRootNominated
    <3> QED BY <3>1, <3>2
  <2>2. ASSUME NEW i \in DOMAIN scheduledExecutions, scheduledLog'[i].root # Admin
        PROVE  \E j \in 1..(i - 1) : NominatedBy(scheduledLog[i].root, scheduledLog[i].at, j)'
    <3>1. PICK j \in 1..(i - 1) : NominatedBy(scheduledLog[i].root, scheduledLog[i].at, j)
      BY <1>2, <2>2 DEF RootChainOfCustody
    <3>2. j \in DOMAIN scheduledExecutions  BY DEF TypeOK
    <3>3. NominatedBy(scheduledLog[i].root, scheduledLog[i].at, j)'
      BY <1>1, <1>2, <3>1, <3>2 DEF NominatedBy, ScheduledByRoot
    <3> QED BY <3>3
  <2>3. ASSUME NEW i \in DOMAIN scheduledExecutions, ~Governed(scheduledExecutions'[i].data)
        PROVE  ScheduledByRoot(i)'
    BY <1>1, <1>2, <2>3 DEF RootChainOfCustody, ScheduledByRoot, Governed
  <2> QED BY <1>1, <2>1, <2>2, <2>3 DEF RootChainOfCustody, Governed
<1> QED BY <1>6, <1>7, <1>8, <1>9, <1>10, <1>11, <1>13, <1>14

LEMMA StepInv == HInv /\ [HNext]_hvars => HInv'
<1> SUFFICES ASSUME HInv, [HNext]_hvars PROVE HInv'  OBVIOUS
<1>1. ASSUME NEW sender \in Users, HTransaction(sender) PROVE HInv'
  <2>1. Transaction(sender) /\ RecordScheduling(sender) /\ RaiseFloors
    BY <1>1 DEF HTransaction
  <2>2. TypeOK /\ TypeOK'  BY <2>1, NextType DEF HInv, Next
  <2>3. \/ \E e \in ScheduledExecution : Schedules(sender, e)
        \/ \E i \in DOMAIN scheduledExecutions : Runs(i) \/ Cancels(i)
        \/ LeavesExecutions
    BY <2>1, <2>2, TransactionShape
  <2> QED BY <2>1, <2>2, <2>3, SchedulesInv, OtherInv
<1>3. ASSUME HTick PROVE HInv'
  <2>1. Tick /\ RaiseFloors /\ UNCHANGED scheduledLog  BY <1>3 DEF HTick
  <2>2. TypeOK /\ TypeOK'  BY <2>1, NextType DEF HInv, Next
  <2>3. LeavesExecutions  BY <2>1, <2>2 DEF Tick, LeavesExecutions, TypeOK
  <2> QED BY <2>1, <2>2, <2>3, OtherInv
<1>2. CASE UNCHANGED hvars
  <2>1. TypeOK'  BY <1>2, NextType DEF HInv, hvars
  <2> QED BY <1>2, <2>1 DEF hvars, vars, HInv, HTypeOK, DelayHonoured, PromisesWithinDelays,
        PendingChangesKeepPromises, RanWhenDue, RootChainOfCustody, RootChangesWait,
        PendingRootNominated, NominatedBy, ScheduledByRoot, Governed, Pending
<1> QED BY <1>1, <1>2, <1>3 DEF HNext

\* The inductive invariant holds of every state of the authorizer with its history.
THEOREM Invariance == HSpec => []HInv
BY InitInv, StepInv, PTL DEF HSpec

\* A delay that no pending change threatens is a promise: whatever is scheduled or done
\* from then on happens no sooner, however the delay changes later (scheduleDelayChange).
THEOREM DelaysAreHonoured == HSpec => []DelayHonoured
<1>1. HInv => DelayHonoured  BY DEF HInv
<1> QED BY <1>1, Invariance, PTL

\* Root can be traced back to the first one through executed nominations, each scheduled
\* at least RootTransferDelay before it took effect in a transaction that the root of that
\* time sent; and nobody but the root of the time ever gets a change of root or of a delay
\* scheduled (scheduleRootChange, scheduleDelayChange, setPendingRoot, claimRoot).
THEOREM RootIsTraceable == HSpec => []RootChainOfCustody
<1>1. HInv => RootChainOfCustody  BY DEF HInv
<1> QED BY <1>1, Invariance, PTL

LEMMA StepSettlesOnce ==
  HInv /\ [HNext]_hvars => \A i \in DOMAIN scheduledExecutions : SettlesOnce(i)
<1> SUFFICES ASSUME HInv, [HNext]_hvars, NEW i \in DOMAIN scheduledExecutions
             PROVE  SettlesOnce(i)
  OBVIOUS
<1>0. TypeOK /\ HTypeOK /\ [Next]_vars /\ RanWhenDue
  BY DEF HInv, HNext, HTransaction, HTick, Next, hvars
<1>1. scheduledExecutions[i].executableAt \in Nat /\ now \in Nat
  BY <1>0, ElementTypes DEF TypeOK
<1>2. CASE i \in DOMAIN scheduledExecutions' /\ scheduledExecutions'[i] = scheduledExecutions[i]
  BY <1>0, <1>1, <1>2 DEF SettlesOnce, RanWhenDue
<1>3. ASSUME NEW sender, NEW e \in ScheduledExecution, Schedules(sender, e)
      PROVE  SettlesOnce(i)
  <2>1. i \in DOMAIN scheduledExecutions' /\ scheduledExecutions'[i] = scheduledExecutions[i]
    BY <1>0, <1>3 DEF Schedules, TypeOK
  <2> QED BY <2>1, <1>2
<1>4. ASSUME NEW j \in DOMAIN scheduledExecutions, Runs(j) \/ Cancels(j)
      PROVE  SettlesOnce(i)
  <2>1. CASE i = j
    <3>1. /\ i \in DOMAIN scheduledExecutions'
          /\ scheduledExecutions'[i].where = scheduledExecutions[i].where
          /\ scheduledExecutions'[i].data = scheduledExecutions[i].data
          /\ scheduledExecutions'[i].protected = scheduledExecutions[i].protected
          /\ scheduledExecutions'[i].executableAt = scheduledExecutions[i].executableAt
      BY <1>0, <1>4, SettledShape
    <3> QED BY <1>0, <1>1, <1>4, <2>1, <3>1, SettledNow DEF SettlesOnce
  <2>2. CASE i # j
    BY <1>0, <1>2, <1>4, <2>2, SettledShape
  <2> QED BY <2>1, <2>2
<1>5. CASE LeavesExecutions
  BY <1>2, <1>5 DEF LeavesExecutions
<1> QED BY <1>0, <1>3, <1>4, <1>5, NextShape

\* A scheduled execution is settled at most once, never before it is due, and stays what
\* it was when it was scheduled (execute, cancel).
THEOREM ExecutionsSettleOnce == HSpec => SettledOnce
BY Invariance, StepSettlesOnce, PTL DEF HSpec, SettledOnce

\* An execution that has run is marked so in the same step.
LEMMA MarkedWhenRun ==
  ASSUME TypeOK, NEW i \in DOMAIN scheduledExecutions, Runs(i)
  PROVE  RunsNow(i)
<1> DEFINE e == [scheduledExecutions[i] EXCEPT !.executed = TRUE]
<1>1. scheduledExecutions[i] \in ScheduledExecution  BY DEF TypeOK
<1>2. e.executed  BY <1>1 DEF ScheduledExecution
<1>3. scheduledExecutions' = [scheduledExecutions EXCEPT ![i] = e]  BY DEF Runs
<1> HIDE DEF e
<1>4. scheduledExecutions'[i] = e  BY <1>3 DEF TypeOK
<1> QED BY <1>2, <1>4 DEF RunsNow, Runs, CanExecute

Reconfigured ==
  /\ \A id \in DelayableIds : delays'[id] # delays[id] =>
       \E i \in DOMAIN scheduledExecutions :
         /\ RunsNow(i)
         /\ scheduledExecutions[i].data.sel = "setDelay"
         /\ scheduledExecutions[i].data.id = id
         /\ scheduledExecutions[i].data.delay = delays'[id]
  /\ pendingRoot' # pendingRoot =>
       \/ root' = pendingRoot /\ pendingRoot' = ZeroAddress
       \/ \E i \in DOMAIN scheduledExecutions :
            /\ RunsNow(i)
            /\ scheduledExecutions[i].data.sel = "setPendingRoot"
            /\ scheduledExecutions[i].data.account = pendingRoot'

LEMMA StepReconfigures == TypeOK /\ [Next]_vars => Reconfigured
<1>1. ASSUME TypeOK, [Next]_vars, NEW id \in DelayableIds, delays'[id] # delays[id]
      PROVE  \E i \in DOMAIN scheduledExecutions :
               /\ RunsNow(i)
               /\ scheduledExecutions[i].data.sel = "setDelay"
               /\ scheduledExecutions[i].data.id = id
               /\ scheduledExecutions[i].data.delay = delays'[id]
  <2>1. PICK i \in DOMAIN scheduledExecutions : Runs(i)
    BY <1>1, NextShape DEF Schedules, Cancels, LeavesExecutions
  <2>2. /\ scheduledExecutions[i].data.sel = "setDelay"
        /\ delays' = [delays EXCEPT ![scheduledExecutions[i].data.id] =
                        scheduledExecutions[i].data.delay]
    BY <1>1, <2>1 DEF Runs
  <2>3. scheduledExecutions[i].data.id = id /\ scheduledExecutions[i].data.delay = delays'[id]
    BY <1>1, <2>2 DEF TypeOK
  <2> QED BY <1>1, <2>1, <2>2, <2>3, MarkedWhenRun
<1>2. ASSUME TypeOK, [Next]_vars, pendingRoot' # pendingRoot
      PROVE  \/ root' = pendingRoot /\ pendingRoot' = ZeroAddress
             \/ \E i \in DOMAIN scheduledExecutions :
                  /\ RunsNow(i)
                  /\ scheduledExecutions[i].data.sel = "setPendingRoot"
                  /\ scheduledExecutions[i].data.account = pendingRoot'
  BY <1>2, NextShape, MarkedWhenRun DEF Schedules, Runs, Cancels, LeavesExecutions
<1> QED BY <1>1, <1>2 DEF Reconfigured

\* Delays (setDelay) and the pending root (setPendingRoot) change only by executions that
\* run in that very step and were scheduled for this change; otherwise a pending root only
\* disappears by claiming (claimRoot).
THEOREM TimelockReconfigures == Spec => OnlyTheTimelockReconfigures
BY TypeCorrect, StepReconfigures, PTL DEF Spec, OnlyTheTimelockReconfigures, Reconfigured

-----------------------------------------------------------------------------
\* Permissions whose granting or revoking is delayed.

IsActionPermission(permission) == permission[1][1] = "act"

RunsFor(sel, permission) ==
  \E i \in DOMAIN scheduledExecutions :
    /\ RunsNow(i)
    /\ scheduledExecutions[i].data.sel = sel
    /\ LET call == scheduledExecutions[i].data
       IN  permission = <<call.id, call.account, call.where>>

GrantRespected(permission) ==
  IsActionPermission(permission) /\ DelayOf(GrantId(permission[1])) > 0
    => RunsFor("grantPermissions", permission)

RevocationRespected(permission) ==
  IsActionPermission(permission) /\ DelayOf(RevokeId(permission[1])) > 0
    => \/ RunsFor("revokePermissions", permission)
       \/ RenouncePermissions(permission[2], permission[1], permission[3])

GrantsRespected == \A permission \in granted' \ granted : GrantRespected(permission)
RevocationsRespected == \A permission \in granted \ granted' : RevocationRespected(permission)

\* Granters, revokers and executors are not permissions to act.
LEMMA OtherPermissions ==
  ASSUME NEW who, NEW where, NEW x
  PROVE  /\ ~IsActionPermission(<<GrantId(x), who, where>>)
         /\ ~IsActionPermission(<<RevokeId(x), who, where>>)
         /\ ~IsActionPermission(<<ExecuteId(x), who, where>>)
BY DEF IsActionPermission, GrantId, RevokeId, ExecuteId

\* Nothing is revoked by scheduling, and all that is granted is to run the execution.
LEMMA SchedulingRespects ==
  ASSUME NEW sender \in Users, NEW executors \in ExecutorLists, Scheduling(sender, executors)
  PROVE  GrantsRespected /\ RevocationsRespected
<1>1. granted' = granted \cup
        ({ExecuteId(Len(scheduledExecutions) + 1)} \X executors \X {Authorizer})
  BY DEF Scheduling, ScheduleRootChange, ScheduleDelayChange, Schedule, ScheduleGrantPermission,
     ScheduleRevokePermission, ScheduleAction, ScheduleWithDelay
<1>2. ASSUME NEW permission \in granted' \ granted PROVE ~IsActionPermission(permission)
  <2>1. PICK who \in executors :
          permission = <<ExecuteId(Len(scheduledExecutions) + 1), who, Authorizer>>
    BY <1>1, <1>2
  <2> QED BY <2>1, OtherPermissions
<1>3. granted \ granted' = {}  BY <1>1
<1> QED BY <1>2, <1>3 DEF GrantsRespected, RevocationsRespected, GrantRespected

\* The executor changes the permission that its call names, and no other.
LEMMA ExecuteRespects ==
  ASSUME TypeOK, NEW sender \in Users, NEW i \in DOMAIN scheduledExecutions, Execute(sender, i)
  PROVE  GrantsRespected /\ RevocationsRespected
<1> DEFINE call == scheduledExecutions[i].data
           changed == <<call.id, call.account, call.where>>
<1>1. Runs(i)
  BY DEF Execute, Runs, SetPendingRoot, SetDelay, ExecutorGrants, ExecutorRevokes, ExecutorActs
<1>2. RunsNow(i)  BY <1>1, MarkedWhenRun
<1>3. CASE ExecutorGrants(call)
  <2>1. RunsFor("grantPermissions", changed)
    BY <1>2, <1>3 DEF RunsFor, ExecutorGrants
  <2>2. granted' = granted \cup {changed}  BY <1>3 DEF ExecutorGrants
  <2> HIDE DEF changed
  <2> QED BY <2>1, <2>2 DEF GrantsRespected, RevocationsRespected, GrantRespected
<1>4. CASE ExecutorRevokes(call)
  <2>1. RunsFor("revokePermissions", changed)
    BY <1>2, <1>4 DEF RunsFor, ExecutorRevokes
  <2>2. granted' = granted \ {changed}  BY <1>4 DEF ExecutorRevokes
  <2> HIDE DEF changed
  <2> QED BY <2>1, <2>2 DEF GrantsRespected, RevocationsRespected, RevocationRespected
<1>5. CASE UNCHANGED granted
  BY <1>5 DEF GrantsRespected, RevocationsRespected
<1> QED BY <1>3, <1>4, <1>5 DEF Execute, SetPendingRoot, SetDelay, ExecutorActs

LEMMA ManagingRespects ==
  ASSUME NEW sender \in Users, NEW where \in TriedWheres, Managing(sender, where)
  PROVE  GrantsRespected /\ RevocationsRespected
<1>0. sender # TimelockExecutor  BY ConstantsAssumption
<1>1. ASSUME NEW specifier, NEW account, NEW allowed,
             \/ ManageGranter(sender, specifier, account, where, allowed)
             \/ ManageRevoker(sender, specifier, account, where, allowed)
      PROVE  GrantsRespected /\ RevocationsRespected
  <2>1. PICK changed : /\ ~IsActionPermission(changed)
                       /\ granted' = granted \cup {changed} \/ granted' = granted \ {changed}
    BY <1>1, OtherPermissions DEF ManageGranter, ManageRevoker
  <2> QED BY <2>1 DEF GrantsRespected, RevocationsRespected, GrantRespected, RevocationRespected
<1>2. ASSUME NEW id, NEW account, GrantPermissions(sender, id, account, where)
      PROVE  GrantsRespected /\ RevocationsRespected
  <2>1. ~(DelayOf(GrantId(id)) > 0)
    BY <1>0, <1>2 DEF GrantPermissions, CanGrant, CanPerformSpecificallyOrGenerally, GrantId
  <2>2. GrantRespected(<<id, account, where>>)  BY <2>1 DEF GrantRespected
  <2>3. granted' = granted \cup {<<id, account, where>>}  BY <1>2 DEF GrantPermissions
  <2> QED BY <2>2, <2>3 DEF GrantsRespected, RevocationsRespected
<1>3. ASSUME NEW id, NEW account, RevokePermissions(sender, id, account, where)
      PROVE  GrantsRespected /\ RevocationsRespected
  <2>1. ~(DelayOf(RevokeId(id)) > 0)
    BY <1>0, <1>3 DEF RevokePermissions, CanRevoke, CanPerformSpecificallyOrGenerally, RevokeId
  <2>2. RevocationRespected(<<id, account, where>>)  BY <2>1 DEF RevocationRespected
  <2>3. granted' = granted \ {<<id, account, where>>}  BY <1>3 DEF RevokePermissions
  <2> QED BY <2>2, <2>3 DEF GrantsRespected, RevocationsRespected
<1>4. ASSUME NEW id, RenouncePermissions(sender, id, where)
      PROVE  GrantsRespected /\ RevocationsRespected
  <2>1. RevocationRespected(<<id, sender, where>>)  BY <1>4 DEF RevocationRespected
  <2>2. granted' = granted \ {<<id, sender, where>>}  BY <1>4 DEF RenouncePermissions
  <2> QED BY <2>1, <2>2 DEF GrantsRespected, RevocationsRespected
<1> QED BY <1>1, <1>2, <1>3, <1>4 DEF Managing

LEMMA StepRespects == TypeOK /\ [Next]_vars => GrantsRespected /\ RevocationsRespected
<1> SUFFICES ASSUME TypeOK, [Next]_vars PROVE GrantsRespected /\ RevocationsRespected
  OBVIOUS
<1>1. ASSUME NEW sender \in Users, ClaimRoot(sender)
      PROVE  GrantsRespected /\ RevocationsRespected
  <2> DEFINE powers(who) == {GrantId(GENERAL), RevokeId(GENERAL)} \X {who} \X {EVERYWHERE}
  <2>1. granted' = (granted \cup powers(pendingRoot)) \ powers(root)
    BY <1>1 DEF ClaimRoot
  <2>2. ASSUME NEW who, NEW permission \in powers(who) PROVE ~IsActionPermission(permission)
    <3>1. \/ permission = <<GrantId(GENERAL), who, EVERYWHERE>>
          \/ permission = <<RevokeId(GENERAL), who, EVERYWHERE>>
      BY <2>2
    <3> QED BY <3>1, OtherPermissions
  <2> HIDE DEF powers
  <2> QED BY <2>1, <2>2 DEF GrantsRespected, RevocationsRespected, GrantRespected,
          RevocationRespected
<1>2. CASE UNCHANGED granted
  BY <1>2 DEF GrantsRespected, RevocationsRespected
<1> QED BY <1>1, <1>2, SchedulingRespects, ExecuteRespects, ManagingRespects
        DEF Next, Transaction, Cancel, Tick, vars

\* A permission over an action whose granting (revoking) has a delay appears (disappears)
\* only by an execution that was scheduled for it, or is renounced by its holder:
\* canPerform lets nobody but the executor through, and general granters and root come
\* no further (grantPermissions, revokePermissions, claimRoot, manageGranter).
THEOREM NoWayAroundGrantDelays == Spec => GrantDelaysRespected
BY TypeCorrect, StepRespects, PTL DEF Spec, GrantDelaysRespected, GrantsRespected,
   RevocationsRespected, GrantRespected, RevocationRespected, RunsFor, IsActionPermission
=============================================================================
