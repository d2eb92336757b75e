----------------------------- MODULE MCContracts -----------------------------
(* Contracts that share no state, each explored on its own from one initial   *)
(* state or another: the emergency pause, the migration to the                *)
(* TimelockAuthorizer, a WeightedPool and its mathematics, and a              *)
(* ComposableStablePool.                                                      *)
EXTENDS TemporarilyPausable, MCMigrator, WeightedPool, WeightedReference, StableReference

VARIABLE explored

allVars == <<explored, pauseVars, migratorVars, poolVars, mathVars, stableVars>>

------------------------------------------------------------------------------
\* BPT first, in the middle and last among the tokens; the amplification of the first is
\* low, and its tokens are the furthest from one price.
MCSetups ==
    {[bptIndex |-> 1, amp |-> 1, swapFee |-> 0], [bptIndex |-> 2, amp |-> 10, swapFee |-> 100],
     [bptIndex |-> 3, amp |-> 10, swapFee |-> 0]}
MCInitialAmounts == {<<1800, 1200>>}

------------------------------------------------------------------------------
\* Joins and exits of every kind, of which some revert; the smallest of the initial joins
\* is too small.
MCJoins ==
    {buildInitParams(<<5000>>), buildInitParams(<<10>>),
     buildJoinGivenInParams(<<2000, 0>>, <<>>), buildJoinGivenInParams(<<0>>, <<1>>),
     buildJoinGivenOutParams(2000, 2), buildJoinAllGivenOutParams(1000)}
MCExits ==
    {buildSingleExitGivenInParams(1500, 1), buildMultiExitGivenInParams(4000),
     buildExitGivenOutParams(<<1000, 0>>, <<>>), buildExitGivenOutParams(<<1000>>, <<100>>),
     buildRecoveryModeExitParams(3000)}
MCInitialFees == {[swap |-> 1000, yield |-> 2500]}

------------------------------------------------------------------------------
\* Pools in and out of balance, amounts up to and beyond the limits of a single swap.
MCCases ==
    [balances : {<<a, b>> : a \in {4000, 5000, 10000}, b \in {4000, 5000}},
     amount : {0, 250, 500, 1000, 1500}, supply : {8000, 10000, 16000}, swapFee : {0, 500, 1000}]
MCWeightLists ==
    UNION {[1..n -> {1000, 2000, 7000, 333}] : n \in 2..3} \cup {<<2000, 3000, 5000>>, [i \in 1..8 |-> i]}

------------------------------------------------------------------------------
Init ==
    /\ explored \in {"pause", "migration", "pool", "math", "stable"}
    /\ PauseInit /\ MigratorInit /\ PoolInit /\ StableInit
    /\ explored = "migration" \/ (lists = MainnetLists /\ ~mayChange)
    /\ explored = "pool" \/ rate = ONE
    /\ explored = "stable" \/ stableSetup.bptIndex = 1
    /\ IF explored = "math" THEN MathInit ELSE cases = {} /\ weightLists = {}

PauseStep ==
    explored = "pause" /\ PauseNext
        /\ UNCHANGED <<explored, migratorVars, poolVars, mathVars, stableVars>>
MigrationStep ==
    explored = "migration" /\ MigratorNext
        /\ UNCHANGED <<explored, pauseVars, poolVars, mathVars, stableVars>>
PoolStep ==
    explored = "pool" /\ PoolNext
        /\ UNCHANGED <<explored, pauseVars, migratorVars, mathVars, stableVars>>
StableStep ==
    explored = "stable" /\ StableNext
        /\ UNCHANGED <<explored, pauseVars, migratorVars, poolVars, mathVars>>

Migrating == explored = "migration"

\* The fairness of each, while it is explored.
Spec == /\ Init /\ [][PauseStep \/ MigrationStep \/ PoolStep \/ StableStep]_allVars
        /\ WF_pauseVars(explored = "pause" /\ Tick)
        /\ WF_migratorVars(Migrating /\ \E rolesToMigrate \in Batches : Migrate(rolesToMigrate))
        /\ WF_migratorVars(Migrating /\ DelayEnds)
        /\ WF_migratorVars(Migrating /\ claimRoot)
        /\ WF_migratorVars(Migrating /\ finalizeMigration)
==============================================================================
