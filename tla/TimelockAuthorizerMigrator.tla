--------------------- MODULE TimelockAuthorizerMigrator ---------------------
(***************************************************************************)
(* TimelockAuthorizerMigrator.sol: permissions of the old Authorizer, and  *)
(* granters and revokers, are set up on a new TimelockAuthorizer, any      *)
(* number of them by each call; then root is handed over, and the Vault's  *)
(* Authorizer is changed. Anybody may call it.                             *)
(*                                                                         *)
(* Of the new Authorizer there is what the migrator and the new root do    *)
(* with it: the migrator is its root and the only executor of the root     *)
(* change scheduled by the constructor, so that nobody else can. An entry  *)
(* of the lists (RoleData) is any value. Counters go up to MaxCounter, and *)
(* wrap.                                                                   *)
(***************************************************************************)
EXTENDS Integers, Sequences, SequencesExt

CONSTANTS
    RoleLists,      \* [roles, granters, revokers]: lists the constructor may be given
    MaxCounter,     \* the largest uint256
    Batches         \* numbers of roles to migrate by one call

Kinds == {"roles", "granters", "revokers"}

ASSUME MigratorAssumption ==
    /\ MaxCounter \in Nat /\ Batches \subseteq 0..MaxCounter
    /\ \A given \in RoleLists, k \in Kinds : given[k] \in Seq(Range(given[k]))

VARIABLES
    lists,          \* rolesData, grantersData, revokersData
    migrated,       \* existingRolesMigrated, grantersMigrated, revokersMigrated
    complete,       \* _roleMigrationComplete
    mayChange,      \* may the migrator call the Vault's setAuthorizer?
    granted,        \* [roles, granters, revokers] of the new Authorizer
    root,           \* of the new Authorizer, and its pending root: "migrator", "root" or "nobody"
    pendingRoot,
    delayOver,      \* is the root change executable?
    executed,       \* was it executed?
    authorizer      \* the Vault's: "old" or "new"

newVars == <<granted, root, pendingRoot, executed>>
migratorVars == <<lists, migrated, complete, mayChange, newVars, delayOver, authorizer>>

Add(a, b)   == (a + b) % (MaxCounter + 1)
Least(a, b) == IF a < b THEN a ELSE b

------------------------------------------------------------------------------
(* One kind of role: up to where the list is migrated, and what is left of *)
(* the roles to migrate.                                                   *)

\* Mutant: the last entry is never reached.
StopsShort(list, from, count) == Least(Add(from, count), Len(list) - 1)

To(list, from, count) == Least(Add(from, count), Len(list))

Advanced(list, from, count) == IF To(list, from, count) > from THEN To(list, from, count) ELSE from
Remaining(list, from, count) == Add(from, count) - To(list, from, count)
Entries(list, from, count) == Range(SubSeq(list, from + 1, To(list, from, count)))

\* How many roles each of the three steps of _migrate is given.
Counts(count) ==
    LET afterRoles    == Remaining(lists.roles, migrated.roles, count)
        afterGranters == Remaining(lists.granters, migrated.granters, afterRoles)
    IN  [roles |-> count, granters |-> afterRoles, revokers |-> afterGranters]

------------------------------------------------------------------------------
(* The calls.                                                              *)

\* Mutant: root is given away as soon as its delay is over.
WheneverExecutable(isComplete) == delayOver /\ ~executed

RootChangeDue(isComplete) == isComplete

MigratorInit ==
    /\ lists \in RoleLists
    /\ migrated = [k \in Kinds |-> 0] /\ complete = FALSE
    /\ mayChange \in BOOLEAN
    /\ granted = [k \in Kinds |-> {}]
    /\ root = "migrator" /\ pendingRoot = "nobody"
    /\ delayOver = FALSE /\ executed = FALSE /\ authorizer = "old"

\* migrate: it reverts when it would complete before the root change can be executed.
Migrate(rolesToMigrate) ==
    /\ ~complete
    /\ LET count == Counts(rolesToMigrate)
       IN  /\ migrated' = [k \in Kinds |-> Advanced(lists[k], migrated[k], count[k])]
           /\ granted' = [k \in Kinds |-> granted[k] \cup Entries(lists[k], migrated[k], count[k])]
    /\ complete' = (migrated'.revokers >= Len(lists.revokers))
    /\ IF RootChangeDue(complete')
       THEN delayOver /\ ~executed /\ executed' = TRUE /\ pendingRoot' = "root"
       ELSE UNCHANGED <<executed, pendingRoot>>
    /\ UNCHANGED <<lists, mayChange, root, delayOver, authorizer>>

RootClaimed == root = "root"

finalizeMigration ==
    /\ complete
    /\ RootClaimed
    /\ mayChange
    /\ authorizer' = "new"
    /\ UNCHANGED <<lists, migrated, complete, mayChange, newVars, delayOver>>

claimRoot ==
    /\ pendingRoot = "root"
    /\ root' = pendingRoot /\ pendingRoot' = "nobody"
    /\ UNCHANGED <<lists, migrated, complete, mayChange, granted, executed, delayOver, authorizer>>

\* Seven days after the constructor.
DelayEnds ==
    /\ ~delayOver /\ delayOver' = TRUE
    /\ UNCHANGED <<lists, migrated, complete, mayChange, newVars, authorizer>>

\* The old Authorizer lets the migrator, or no longer.
ChangeMigratorsPermission ==
    /\ mayChange' = ~mayChange
    /\ UNCHANGED <<lists, migrated, complete, newVars, delayOver, authorizer>>

MigratorNext ==
    \/ \E rolesToMigrate \in Batches : Migrate(rolesToMigrate)
    \/ claimRoot \/ finalizeMigration \/ DelayEnds \/ ChangeMigratorsPermission

\* Anybody may migrate and finalize, and the new root wants to be root.
MigratorFairness ==
    /\ WF_migratorVars(\E rolesToMigrate \in Batches : Migrate(rolesToMigrate))
    /\ WF_migratorVars(DelayEnds)
    /\ WF_migratorVars(claimRoot)
    /\ WF_migratorVars(finalizeMigration)

MigratorSpec == MigratorInit /\ [][MigratorNext]_migratorVars /\ MigratorFairness

------------------------------------------------------------------------------
(* Properties.                                                             *)

AllMigrated == \A k \in Kinds : granted[k] = Range(lists[k])

\* What the new Authorizer grants is what the lists say, in their order, each kind after
\* the one before it, whatever the sizes of the calls and wherever a sum wraps.
MigratedInOrder ==
    /\ \A k \in Kinds :
          migrated[k] <= Len(lists[k]) /\ granted[k] = Range(SubSeq(lists[k], 1, migrated[k]))
    /\ migrated.granters > 0 => migrated.roles = Len(lists.roles)
    /\ migrated.revokers > 0 => migrated.granters = Len(lists.granters)
                             /\ migrated.roles = Len(lists.roles)

\* Root leaves the migrator, which alone can grant, when nothing is left to grant: with
\* revokers in the lists, the last of them to be migrated, this is what completion means.
NotCutShort ==
    (lists.revokers # <<>> /\ (complete \/ pendingRoot = "root" \/ root = "root")) => AllMigrated

\* The Vault never gets an Authorizer whose root has not shown that it can act.
HandedOverToRoot == authorizer = "new" => root = "root" /\ executed /\ complete

\* A migration that is over is a whole one, and the new root is in charge.
MigratedFaithfully == MigratedInOrder /\ NotCutShort /\ HandedOverToRoot

\* The migration ends, if the old Authorizer lets the migrator end it.
MigrationEnds == <>[]mayChange => <>(authorizer = "new")

\* "As we set up the revoker roles last we can use them to determine whether the full
\* migration is complete" (TimelockAuthorizerMigrator.sol:146).
RevokersTellCompletion == complete => AllMigrated
==============================================================================
