------------------------- MODULE TimelockAuthorizer -------------------------
(***************************************************************************)
(* The permission ledger and the timelock of the protocol, as implemented  *)
(* by pkg/vault/contracts/authorizer/TimelockAuthorizer.sol together with  *)
(* TimelockExecutor.sol.                                                   *)
(*                                                                         *)
(* Every action is one transaction: the EVM runs it to completion or rolls *)
(* it back, so a `require` that fails is a guard.  Execute makes the only  *)
(* external call of the contract; nothing but an event follows that call,  *)
(* so what a target does by calling back into the (unguarded) functions is *)
(* the same as doing it right after.                                       *)
(*                                                                         *)
(* Abstractions.  keccak256 is injective: an action id is the pair         *)
(* <<base, specifier>> and a permission id the triple <<id, who, where>>.  *)
(* A list of actions given to grantPermissions, revokePermissions or       *)
(* renouncePermissions is a list of calls with one action each: the code   *)
(* checks and applies them one after the other.  Execution ids count from  *)
(* 1 (from 0 in the code).                                                 *)
(***************************************************************************)
EXTENDS Integers, Sequences

CONSTANTS
  Users,               \* accounts that send transactions, the first root included
  Admin,               \* the `admin` given to the constructor
  ZeroAddress,         \* address(0), never a sender
  Authorizer,          \* address(this)
  TimelockExecutor,    \* address(_executor)
  EVERYWHERE,          \* the address that stands for any contract
  Targets,             \* contracts that ask this authorizer who may call them
  Actions,             \* action ids of the targets' functions
  SetAuthorizer,       \* the action id of the Vault's setAuthorizer
  GENERAL,             \* GENERAL_PERMISSION_SPECIFIER
  NoSpecifier,         \* marks an action id that is not extended
  MIN_DELAY, MAX_DELAY,
  RootTransferDelay,
  ManagedSpecifiers,   \* specifiers tried with manageGranter and manageRevoker
  GrantableIds,        \* action ids tried with grant, revoke and renounce
  DelayableIds,        \* action ids whose delay is tried to be changed
  TriedDelays,         \* delays tried with scheduleDelayChange
  TriedWheres,         \* `where` arguments tried
  TriedRoots,          \* accounts tried as the next root
  TriedAccounts,       \* accounts tried as the holder of a permission
  ExecutorLists,       \* the sets of executors tried when scheduling
  MaxTime,             \* bound: last timestamp explored
  MaxExecutions        \* bound: number of scheduled executions

Accounts == Users \cup {ZeroAddress}
Wheres == Targets \cup {Authorizer, EVERYWHERE}

\* Action ids: functions of the targets and of the authorizer itself, permissions to
\* run one execution, and the ids extended by what may be granted or revoked.
ActId(action) == <<"act", action>>
OwnId(selector) == <<selector, NoSpecifier>>
ExecuteId(execution) == <<"execute", execution>>
GrantId(specifier) == <<"grant", specifier>>
RevokeId(specifier) == <<"revoke", specifier>>

Selectors == {"act", "setPendingRoot", "setDelay", "grantPermissions", "revokePermissions"}
PlainIds == ({"act"} \X Actions) \cup (Selectors \X {NoSpecifier}) \cup ({"execute"} \X Nat)
Specifiers == PlainIds \cup {GENERAL}
ActionIds == PlainIds \cup ({"grant", "revoke"} \X Specifiers)

ASSUME ConstantsAssumption ==
  /\ Admin \in Users /\ ZeroAddress \notin Users /\ TimelockExecutor \notin Users
  /\ Authorizer \notin Targets /\ EVERYWHERE \notin Targets \cup {Authorizer}
  /\ SetAuthorizer \in Actions /\ NoSpecifier \notin Actions /\ GENERAL \notin PlainIds
  /\ MIN_DELAY \in Nat \ {0} /\ MAX_DELAY \in Nat /\ RootTransferDelay \in Nat
  /\ ManagedSpecifiers \subseteq Specifiers
  /\ GrantableIds \subseteq ActionIds
  /\ DelayableIds \subseteq ActionIds
  /\ ActId(SetAuthorizer) \in DelayableIds
  /\ TriedDelays \subseteq Nat
  /\ TriedWheres \subseteq Wheres /\ TriedRoots \subseteq Accounts
  /\ TriedAccounts \subseteq Users
  /\ ExecutorLists \subseteq SUBSET Users
  /\ MaxTime \in Nat /\ MaxExecutions \in Nat

VARIABLES
  now,                  \* block.timestamp
  root,                 \* _root
  pendingRoot,          \* _pendingRoot
  granted,              \* _isPermissionGranted: the permissions that are true
  delays,               \* _delaysPerActionId, on the ids whose delay can change
  scheduledExecutions   \* _scheduledExecutions

vars == <<now, root, pendingRoot, granted, delays, scheduledExecutions>>

\* The call an execution makes: the selector of `data` and its decoded arguments.
\* Arguments a selector does not have keep the values below.
CallData ==
  [sel : Selectors, id : ActionIds, account : Accounts,
   where : Wheres, delay : 0..MAX_DELAY]
NoArguments ==
  [sel |-> "act", id |-> ActId(SetAuthorizer), account |-> ZeroAddress,
   where |-> Authorizer, delay |-> 0]

ScheduledExecution ==
  [where : Targets \cup {Authorizer}, data : CallData, executed : BOOLEAN,
   cancelled : BOOLEAN, protected : BOOLEAN, executableAt : Nat]

TypeOK ==
  /\ now \in Nat
  /\ root \in Users
  /\ pendingRoot \in Accounts
  /\ granted \subseteq ActionIds \X Accounts \X Wheres
  /\ delays \in [DelayableIds -> 0..MAX_DELAY]
  /\ scheduledExecutions \in Seq(ScheduledExecution)

-----------------------------------------------------------------------------
\* The views that the state changes are guarded by.

DelayOf(id) == IF id \in DelayableIds THEN delays[id] ELSE 0

HasPermission(id, who, where) ==
  <<id, who, where>> \in granted \/ <<id, who, EVERYWHERE>> \in granted

HasPermissionSpecificallyOrGenerally(base, who, where, specifier) ==
  \/ HasPermission(<<base, specifier>>, who, where)
  \/ HasPermission(<<base, GENERAL>>, who, where)

IsGranter(id, who, where) ==
  HasPermissionSpecificallyOrGenerally("grant", who, where, id)
IsRevoker(id, who, where) ==
  HasPermissionSpecificallyOrGenerally("revoke", who, where, id)

CanPerform(id, who, where) ==
  IF DelayOf(id) > 0 THEN who = TimelockExecutor ELSE HasPermission(id, who, where)

\* Mutant: the delay of the specific action is not looked at.
IgnoresSpecificDelay(base, who, where, specifier) ==
  \/ HasPermission(<<base, specifier>>, who, where)
  \/ CanPerform(<<base, GENERAL>>, who, where)

CanPerformSpecificallyOrGenerally(base, who, where, specifier) ==
  IF DelayOf(<<base, specifier>>) > 0
  THEN who = TimelockExecutor
  ELSE \/ HasPermission(<<base, specifier>>, who, where)
       \/ CanPerform(<<base, GENERAL>>, who, where)

CanGrant(id, who, where) == CanPerformSpecificallyOrGenerally("grant", who, where, id)
CanRevoke(id, who, where) == CanPerformSpecificallyOrGenerally("revoke", who, where, id)

-----------------------------------------------------------------------------
Init ==
  /\ now = 0
  /\ root = Admin /\ pendingRoot = ZeroAddress
  /\ granted = {GrantId(GENERAL), RevokeId(GENERAL)} \X {Admin} \X {EVERYWHERE}
  /\ delays = [id \in DelayableIds |-> 0]
  /\ scheduledExecutions = << >>

\* Mutant: the delay is forgotten.
ExecutableImmediately(delay) == now

ExecutableAt(delay) == now + delay

\* _scheduleWithDelay: a new execution, which only `executors` may run if there are any.
ScheduleWithDelay(where, data, delay, executors) ==
  /\ Len(scheduledExecutions) < MaxExecutions
  /\ scheduledExecutions' = Append(scheduledExecutions,
       [where |-> where, data |-> data, executed |-> FALSE, cancelled |-> FALSE,
        protected |-> executors # {}, executableAt |-> ExecutableAt(delay)])
  /\ granted' = granted \cup
       ({ExecuteId(Len(scheduledExecutions) + 1)} \X executors \X {Authorizer})
  /\ UNCHANGED <<now, root, pendingRoot, delays>>

\* _schedule: the delay is the one of the action, which must have one.
ScheduleAction(id, where, data, executors) ==
  /\ DelayOf(id) > 0
  /\ ScheduleWithDelay(where, data, DelayOf(id), executors)

\* Mutant: nobody asks whether the sender is root.
AnybodyNominates(sender, newRoot, executors) ==
  ScheduleWithDelay(Authorizer,
    [NoArguments EXCEPT !.sel = "setPendingRoot", !.account = newRoot],
    RootTransferDelay, executors)

ScheduleRootChange(sender, newRoot, executors) ==
  /\ sender = root
  /\ ScheduleWithDelay(Authorizer,
       [NoArguments EXCEPT !.sel = "setPendingRoot", !.account = newRoot],
       RootTransferDelay, executors)

\* Mutant: a reduction of a delay waits no longer than an increase.
AlwaysMinDelay(id, newDelay) == MIN_DELAY

\* Shortening a delay waits for the difference, and any change for MIN_DELAY.
DelayChangeDelay(id, newDelay) ==
  IF newDelay < DelayOf(id) /\ DelayOf(id) - newDelay > MIN_DELAY
  THEN DelayOf(id) - newDelay
  ELSE MIN_DELAY

DelayAllowed(newDelay) == newDelay <= MAX_DELAY

ScheduleDelayChange(sender, id, newDelay, executors) ==
  /\ DelayAllowed(newDelay)
  /\ sender = root
  /\ ScheduleWithDelay(Authorizer,
       [NoArguments EXCEPT !.sel = "setDelay", !.id = id, !.delay = newDelay],
       DelayChangeDelay(id, newDelay), executors)

Schedule(sender, action, where, executors) ==
  /\ HasPermission(ActId(action), sender, where)
  /\ ScheduleAction(ActId(action), where,
       [NoArguments EXCEPT !.id = ActId(action), !.where = where], executors)

ScheduleGrantPermission(sender, id, account, where, executors) ==
  /\ IsGranter(id, sender, where)
  /\ ScheduleAction(GrantId(id), Authorizer,
       [NoArguments EXCEPT !.sel = "grantPermissions", !.id = id,
                           !.account = account, !.where = where], executors)

ScheduleRevokePermission(sender, id, account, where, executors) ==
  /\ IsRevoker(id, sender, where)
  /\ ScheduleAction(RevokeId(id), Authorizer,
       [NoArguments EXCEPT !.sel = "revokePermissions", !.id = id,
                           !.account = account, !.where = where], executors)

-----------------------------------------------------------------------------
\* What an execution does when TimelockExecutor makes its call: the functions that
\* only the executor may call, and the target's own check of its caller.

SetPendingRoot(call) ==
  /\ call.sel = "setPendingRoot"
  /\ pendingRoot' = call.account
  /\ UNCHANGED <<granted, delays>>

SetDelay(call) ==
  /\ call.sel = "setDelay"
  /\ \/ call.id = ActId(SetAuthorizer)
     \/ call.delay <= delays[ActId(SetAuthorizer)]
  /\ delays' = [delays EXCEPT ![call.id] = call.delay]
  /\ UNCHANGED <<pendingRoot, granted>>

ExecutorGrants(call) ==
  /\ call.sel = "grantPermissions"
  /\ CanGrant(call.id, TimelockExecutor, call.where)
  /\ granted' = granted \cup {<<call.id, call.account, call.where>>}
  /\ UNCHANGED <<pendingRoot, delays>>

ExecutorRevokes(call) ==
  /\ call.sel = "revokePermissions"
  /\ CanRevoke(call.id, TimelockExecutor, call.where)
  /\ granted' = granted \ {<<call.id, call.account, call.where>>}
  /\ UNCHANGED <<pendingRoot, delays>>

ExecutorActs(call) ==
  /\ call.sel = "act"
  /\ CanPerform(call.id, TimelockExecutor, call.where)
  /\ UNCHANGED <<pendingRoot, granted, delays>>

\* Mutants: a cancelled (an executed) execution is executed.
IgnoresCancelled(i) ==
  ~scheduledExecutions[i].executed /\ now >= scheduledExecutions[i].executableAt
IgnoresExecuted(i) ==
  ~scheduledExecutions[i].cancelled /\ now >= scheduledExecutions[i].executableAt

CanExecute(i) ==
  /\ ~scheduledExecutions[i].executed
  /\ ~scheduledExecutions[i].cancelled
  /\ now >= scheduledExecutions[i].executableAt

Execute(sender, i) ==
  /\ CanExecute(i)
  /\ scheduledExecutions[i].protected => HasPermission(ExecuteId(i), sender, Authorizer)
  /\ LET call == scheduledExecutions[i].data IN
       \/ SetPendingRoot(call)
       \/ SetDelay(call)
       \/ ExecutorGrants(call)
       \/ ExecutorRevokes(call)
       \/ ExecutorActs(call)
  /\ scheduledExecutions' = [scheduledExecutions EXCEPT ![i].executed = TRUE]
  /\ UNCHANGED <<now, root>>

\* The id that `cancel` asks for: the target's id of the called function, not extended.
CancelId(execution) ==
  IF execution.data.sel = "act" THEN execution.data.id ELSE OwnId(execution.data.sel)

MayCancel(sender, i) ==
  \/ HasPermission(CancelId(scheduledExecutions[i]), sender, scheduledExecutions[i].where)
  \/ sender = root

Cancel(sender, i) ==
  /\ ~scheduledExecutions[i].executed
  /\ ~scheduledExecutions[i].cancelled
  /\ MayCancel(sender, i)
  /\ scheduledExecutions' = [scheduledExecutions EXCEPT ![i].cancelled = TRUE]
  /\ UNCHANGED <<now, root, pendingRoot, granted, delays>>

-----------------------------------------------------------------------------
ClaimRoot(sender) ==
  /\ sender = pendingRoot
  /\ LET powers(who) == {GrantId(GENERAL), RevokeId(GENERAL)} \X {who} \X {EVERYWHERE}
     IN  granted' = (granted \cup powers(pendingRoot)) \ powers(root)
  /\ root' = pendingRoot
  /\ pendingRoot' = ZeroAddress
  /\ UNCHANGED <<now, delays, scheduledExecutions>>

OnlyPermissionsChange == UNCHANGED <<now, root, pendingRoot, delays, scheduledExecutions>>

\* Root gives and takes the granter (revoker) status; whoever has it may take it away.
ManageGranter(sender, specifier, account, where, allowed) ==
  /\ sender = root \/ (~allowed /\ IsGranter(specifier, sender, where))
  /\ granted' = IF allowed THEN granted \cup {<<GrantId(specifier), account, where>>}
                           ELSE granted \ {<<GrantId(specifier), account, where>>}
  /\ OnlyPermissionsChange

ManageRevoker(sender, specifier, account, where, allowed) ==
  /\ sender = root \/ (~allowed /\ IsRevoker(specifier, sender, where))
  /\ granted' = IF allowed THEN granted \cup {<<RevokeId(specifier), account, where>>}
                           ELSE granted \ {<<RevokeId(specifier), account, where>>}
  /\ OnlyPermissionsChange

GrantPermissions(sender, id, account, where) ==
  /\ CanGrant(id, sender, where)
  /\ granted' = granted \cup {<<id, account, where>>}
  /\ OnlyPermissionsChange

RevokePermissions(sender, id, account, where) ==
  /\ CanRevoke(id, sender, where)
  /\ granted' = granted \ {<<id, account, where>>}
  /\ OnlyPermissionsChange

RenouncePermissions(sender, id, where) ==
  /\ granted' = granted \ {<<id, sender, where>>}
  /\ OnlyPermissionsChange

Tick ==
  /\ now < MaxTime
  /\ now' = now + 1
  /\ UNCHANGED <<root, pendingRoot, granted, delays, scheduledExecutions>>

Scheduling(sender, executors) ==
  \/ \E newRoot \in TriedRoots : ScheduleRootChange(sender, newRoot, executors)
  \/ \E id \in DelayableIds, newDelay \in TriedDelays :
       ScheduleDelayChange(sender, id, newDelay, executors)
  \/ \E action \in Actions, where \in Targets : Schedule(sender, action, where, executors)
  \/ \E id \in GrantableIds, account \in TriedAccounts, where \in TriedWheres :
       \/ ScheduleGrantPermission(sender, id, account, where, executors)
       \/ ScheduleRevokePermission(sender, id, account, where, executors)

Managing(sender, where) ==
  \/ \E specifier \in ManagedSpecifiers, account \in TriedAccounts, allowed \in BOOLEAN :
       \/ ManageGranter(sender, specifier, account, where, allowed)
       \/ ManageRevoker(sender, specifier, account, where, allowed)
  \/ \E id \in GrantableIds, account \in TriedAccounts :
       \/ GrantPermissions(sender, id, account, where)
       \/ RevokePermissions(sender, id, account, where)
  \/ \E id \in GrantableIds : RenouncePermissions(sender, id, where)

Transaction(sender) ==
  \/ \E executors \in ExecutorLists : Scheduling(sender, executors)
  \/ \E i \in DOMAIN scheduledExecutions : Execute(sender, i) \/ Cancel(sender, i)
  \/ ClaimRoot(sender)
  \/ \E where \in TriedWheres : Managing(sender, where)

Next == (\E sender \in Users : Transaction(sender)) \/ Tick

Spec == Init /\ [][Next]_vars

-----------------------------------------------------------------------------
Pending(execution) == ~execution.executed /\ ~execution.cancelled

RunsNow(i) == ~scheduledExecutions[i].executed /\ scheduledExecutions'[i].executed

\* Delays and the pending root change only by an execution that is settled in that very
\* step and says so; a pending root disappears only by becoming the root.
OnlyTheTimelockReconfigures ==
  [][/\ \A id \in DelayableIds : delays'[id] # delays[id] =>
          \E i \in DOMAIN scheduledExecutions :
            /\ RunsNow(i)
            /\ scheduledExecutions[i].data.sel = "setDelay"
            /\ scheduledExecutions[i].data.id = id
            /\ scheduledExecutions[i].data.delay = delays'[id]
     /\ pendingRoot' # pendingRoot =>
          \/ root' = pendingRoot /\ pendingRoot' = ZeroAddress
          \/ \E i \in DOMAIN scheduledExecutions :
               /\ RunsNow(i)
               /\ scheduledExecutions[i].data.sel = "setPendingRoot"
               /\ scheduledExecutions[i].data.account = pendingRoot']_vars

\* A delay on granting (revoking) an action is respected by every path, the general
\* granters and root included: the permission for it appears (disappears) only by an
\* execution that was scheduled for it, or by its holder renouncing it.
GrantDelaysRespected ==
  [][LET RunsFor(sel, permission) ==
           \E i \in DOMAIN scheduledExecutions :
             /\ RunsNow(i)
             /\ scheduledExecutions[i].data.sel = sel
             /\ LET call == scheduledExecutions[i].data
                IN  permission = <<call.id, call.account, call.where>>
         IsAction(permission) == permission[1][1] = "act"
     IN  /\ \A permission \in granted' \ granted :
              IsAction(permission) /\ DelayOf(GrantId(permission[1])) > 0
                => RunsFor("grantPermissions", permission)
         /\ \A permission \in granted \ granted' :
              IsAction(permission) /\ DelayOf(RevokeId(permission[1])) > 0
                => \/ RunsFor("revokePermissions", permission)
                   \/ RenouncePermissions(permission[2], permission[1], permission[3])]_vars

-----------------------------------------------------------------------------
\* What the comments say and the code does not do.

\* cancel: "The permission to cancel a scheduled action is the same one used to
\* schedule it."  So whoever may schedule a grant (revocation) may cancel a pending one.
SchedulersMayCancel ==
  \A i \in DOMAIN scheduledExecutions, who \in Users :
    LET call == scheduledExecutions[i].data IN
    /\ Pending(scheduledExecutions[i])
    /\ \/ call.sel = "act" /\ HasPermission(call.id, who, call.where)
       \/ call.sel = "grantPermissions" /\ IsGranter(call.id, who, call.where)
       \/ call.sel = "revokePermissions" /\ IsRevoker(call.id, who, call.where)
    => MayCancel(who, i)

=============================================================================
