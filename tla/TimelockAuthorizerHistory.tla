---------------------- MODULE TimelockAuthorizerHistory ----------------------
(***************************************************************************)
(* TimelockAuthorizer with history variables, which no guard reads, and    *)
(* the properties of the timelock that need them.                          *)
(***************************************************************************)
EXTENDS TimelockAuthorizer

VARIABLES
  scheduledLog,   \* per execution: when it was scheduled, who sent the transaction, who
                  \* was root, and the floor then
  floor           \* per delayable id: no call initiated from now on may run before this

hvars == <<vars, scheduledLog, floor>>

\* The action id whose delay an execution made by _schedule has to wait for; root and
\* delay changes have waiting times of their own.
Governed(call) == call.sel \notin {"setPendingRoot", "setDelay"}
GoverningId(call) ==
  IF call.sel = "act" THEN call.id
  ELSE IF call.sel = "grantPermissions" THEN GrantId(call.id) ELSE RevokeId(call.id)

FloorOf(id) == IF id \in DelayableIds THEN floor[id] ELSE 0

DelayChangePending(id) ==
  \E i \in DOMAIN scheduledExecutions :
    /\ Pending(scheduledExecutions[i])
    /\ scheduledExecutions[i].data.sel = "setDelay"
    /\ scheduledExecutions[i].data.id = id

LogEntry == [at : Nat, sender : Users, root : Users, floor : Nat]
HTypeOK ==
  /\ scheduledLog \in Seq(LogEntry)
  /\ Len(scheduledLog) = Len(scheduledExecutions)
  /\ floor \in [DelayableIds -> Nat]

HInit ==
  /\ Init
  /\ scheduledLog = << >>
  /\ floor = [id \in DelayableIds |-> 0]

\* A moment without a pending change of the delay of `id` promises that delay.
RaiseFloor(id) ==
  IF DelayChangePending(id)' \/ floor[id] >= now' + delays'[id]
  THEN floor[id]
  ELSE now' + delays'[id]

RecordScheduling(sender) ==
  IF Len(scheduledExecutions') > Len(scheduledExecutions)
  THEN LET call == scheduledExecutions'[Len(scheduledExecutions')].data IN
       scheduledLog' = Append(scheduledLog,
         [at |-> now, sender |-> sender, root |-> root,
          floor |-> IF Governed(call) THEN FloorOf(GoverningId(call)) ELSE 0])
  ELSE scheduledLog' = scheduledLog

RaiseFloors == floor' = [id \in DelayableIds |-> RaiseFloor(id)]

HTransaction(sender) ==
  Transaction(sender) /\ RecordScheduling(sender) /\ RaiseFloors
HTick ==
  Tick /\ RaiseFloors /\ UNCHANGED scheduledLog

HNext == (\E sender \in Users : HTransaction(sender)) \/ HTick

HSpec == HInit /\ [][HNext]_hvars

-----------------------------------------------------------------------------
\* While no change of an action's delay is pending, that delay is a promise: nothing
\* initiated from then on happens sooner, however the delay changes later.  This is
\* what the comment in scheduleDelayChange argues for a single reduction.
DelayHonoured ==
  /\ \A id \in DelayableIds : delays[id] = 0 => floor[id] <= now
  /\ \A i \in DOMAIN scheduledExecutions :
       scheduledExecutions[i].executableAt >= scheduledLog[i].floor

\* The sender of the transaction that scheduled execution i was root at that time.
ScheduledByRoot(i) == scheduledLog[i].sender = scheduledLog[i].root

\* Execution i made `account` the pending root: the root of the time scheduled it, and it
\* ran no sooner than RootTransferDelay after that.
NominatedBy(account, time, i) ==
  /\ scheduledExecutions[i].executed
  /\ scheduledExecutions[i].data.sel = "setPendingRoot"
  /\ scheduledExecutions[i].data.account = account
  /\ ScheduledByRoot(i)
  /\ scheduledLog[i].at + RootTransferDelay <= time

\* A root other than the first one was nominated by an executed root change, which was
\* scheduled RootTransferDelay or more ago in a transaction of the account that was root
\* then; and so was that account in turn.  Nobody else ever gets a change of root or of a
\* delay scheduled, executed or not.
RootChainOfCustody ==
  /\ root # Admin => \E i \in DOMAIN scheduledExecutions : NominatedBy(root, now, i)
  /\ \A i \in DOMAIN scheduledExecutions :
       /\ ~Governed(scheduledExecutions[i].data) => ScheduledByRoot(i)
       /\ scheduledLog[i].root # Admin =>
            \E j \in 1..(i - 1) : NominatedBy(scheduledLog[i].root, scheduledLog[i].at, j)

\* The strengthening that makes the two invariants above inductive, together with what
\* canExecute, execute and cancel agree on: an execution that ran was due, and was not
\* cancelled.  A pending delay change, once executed, still keeps every promise made
\* before it was scheduled, because a reduction waited for the difference.
PromisesWithinDelays ==
  \A id \in DelayableIds : floor[id] <= now + delays[id]
PendingChangesKeepPromises ==
  \A i \in DOMAIN scheduledExecutions :
    LET e == scheduledExecutions[i] IN
    Pending(e) /\ e.data.sel = "setDelay" /\ e.data.id \in DelayableIds =>
      floor[e.data.id] <= e.executableAt + e.data.delay
RanWhenDue ==
  \A i \in DOMAIN scheduledExecutions :
    LET e == scheduledExecutions[i] IN
    /\ ~(e.executed /\ e.cancelled)
    /\ e.executed => now >= e.executableAt
RootChangesWait ==
  \A i \in DOMAIN scheduledExecutions :
    scheduledExecutions[i].data.sel = "setPendingRoot" =>
      scheduledExecutions[i].executableAt = scheduledLog[i].at + RootTransferDelay
PendingRootNominated ==
  pendingRoot # ZeroAddress =>
    \E i \in DOMAIN scheduledExecutions : NominatedBy(pendingRoot, now, i)

HInv ==
  /\ TypeOK /\ HTypeOK
  /\ DelayHonoured /\ PromisesWithinDelays /\ PendingChangesKeepPromises
  /\ RanWhenDue
  /\ RootChainOfCustody /\ RootChangesWait /\ PendingRootNominated

SettlesOnce(i) ==
  LET before == scheduledExecutions[i]
      after == scheduledExecutions'[i]
  IN  /\ i \in DOMAIN scheduledExecutions'
      /\ after.where = before.where /\ after.data = before.data
      /\ after.protected = before.protected /\ after.executableAt = before.executableAt
      /\ ~Pending(before) => after = before
      /\ ~(after.executed /\ after.cancelled)
      /\ after.executed => now >= after.executableAt

\* An execution is settled at most once, keeps what was scheduled, and cannot have run
\* before its time: canExecute, execute and cancel agree on what is still pending.
SettledOnce ==
  [][\A i \in DOMAIN scheduledExecutions : SettlesOnce(i)]_hvars
=============================================================================
