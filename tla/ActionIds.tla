------------------------------ MODULE ActionIds ------------------------------
(***************************************************************************)
(* The action ids that pkg/deployments records for one network             *)
(* (action-ids.json), how they are computed from the chain, saved and      *)
(* checked (src/actionId.ts, hardhat.config.ts), and what a permission     *)
(* granted with a recorded id (task.actionId) lets its holder call.        *)
(*                                                                         *)
(* An id is the pair of a disambiguator and a function; contracts are      *)
(* known to people by the <<task, name>> under which they are deployed.    *)
(* JSON objects are sequences, in the order in which keys were added.      *)
(***************************************************************************)
EXTENDS Sequences, SequencesExt, FiniteSets, Naturals

CONSTANTS
    Outputs,        \* <<task, name>> of the contracts in task outputs, in the order of getAllTaskIds
    Pools,          \* <<task, name>> of the pool contracts that factories create
    Abi,            \* Abi[c]: the functions of c that change state, sorted by signature
    Aware,          \* the contracts with a getActionId of their own
    Adaptor,        \* <<'20220325-authorizer-adaptor', 'AuthorizerAdaptor'>>, one of Outputs
    FactoryOf,      \* FactoryOf[p]: the contract named <name>Factory of the same task
    ignored,        \* ignored-functions.json
    MaxChanges,     \* bound: contracts redeployed and pools created
    None            \* a model value: undefined

VARIABLES
    deployed,   \* deployed[c]: the version of c in its task's output
    pools,      \* the pools created: [pool, factory version, index]
    changes,    \* how many times deployed or pools changed
    file,       \* action-ids.json: a sequence of entries, grouped by task
    expected,   \* expected-collisions.json
    collisions, \* new-collisions.json
    saving,     \* the save-action-ids run in progress: what it has left, what it has computed
    verdict     \* of check-action-ids on the files and chain as they are now

idVars == <<deployed, pools, changes, file, expected, collisions, saving, verdict>>

Contracts == Range(Outputs) \cup Pools

\* The functions of a contract are listed once each.
ASSUME ActionIdsAssumption ==
    /\ Outputs \in Seq(Range(Outputs))
    /\ \A c \in Contracts :
          /\ Abi[c] \in Seq(Range(Abi[c]))
          /\ \A i, j \in DOMAIN Abi[c] : Abi[c][i] = Abi[c][j] => i = j

Idle  == [queue |-> <<>>, entry |-> None]
Address(c) == [of |-> c, version |-> deployed[c]]

\* The elements of a sequence at some of its places, in their order.
Those(s, places) ==
    [k \in 1..Cardinality(places) |->
        s[CHOOSE i \in places : Cardinality({j \in places : j <= i}) = k]]

------------------------------------------------------------------------------
(* The chain: the id that a contract asks the Authorizer about.            *)

\* Singletons are told apart by their address, pools of a factory by the factory.
Disambiguator(a) == IF a.of \in Pools THEN a.factory ELSE a

\* Contracts that know no Authorizer are called through the adaptor.
OnChainId(a, f) ==
    <<IF a.of \in Aware THEN Disambiguator(a) ELSE Disambiguator(Address(Adaptor)), f>>

------------------------------------------------------------------------------
(* actionId.ts                                                             *)

isPoolFromFactory(factory, pool) == pool \in pools /\ pool.factory = factory

checkFactoryOutput(c, pool) == isPoolFromFactory(Address(FactoryOf[c]), pool)

\* The contract that is asked for the ids of c, and whether it is the adaptor.
getActionIdSource(c, factoryOutput) ==
    IF c \notin Aware THEN [useAdaptor |-> TRUE, source |-> Address(Adaptor)]
    ELSE [useAdaptor |-> FALSE,
          source |-> IF factoryOutput # None THEN factoryOutput ELSE Address(c)]

\* What an aware contract cannot be asked, or what its factory denies, throws.
Readable(c, factoryOutput) ==
    c \in Aware => IF factoryOutput # None THEN c \in Pools /\ checkFactoryOutput(c, factoryOutput)
                                           ELSE c \notin Pools

getActionIdsFromSource(functions, source) ==
    [i \in DOMAIN functions |-> <<functions[i], <<Disambiguator(source), functions[i]>> >>]

getActionIds(c, factoryOutput) ==
    LET s == getActionIdSource(c, factoryOutput)
    IN  [useAdaptor |-> s.useAdaptor,
         actionIds |-> getActionIdsFromSource(
                         Those(Abi[c], {i \in DOMAIN Abi[c] : Abi[c][i] \notin ignored}), s.source)]

RecordedIds == {file[i].contract : i \in DOMAIN file}
EntryOf(c) == file[CHOOSE i \in DOMAIN file : file[i].contract = c]

\* task.actionId: the recorded id of a function, or none (where the code throws).
actionId(c, f) ==
    IF c \in RecordedIds /\ \E k \in Range(EntryOf(c).actionIds) : k[1] = f
    THEN (CHOOSE k \in Range(EntryOf(c).actionIds) : k[1] = f)[2]
    ELSE None

\* Mutant: the entry is removed and added anew.
MovesToTheEnd(entry) ==
    Append(SelectSeq(file, LAMBDA e : e.contract # entry.contract), entry)

\* Writing an entry keeps the place of its key; a new key goes to the end of its object.
WriteEntry(entry) ==
    IF entry.contract \in RecordedIds
    THEN [i \in DOMAIN file |-> IF file[i].contract = entry.contract THEN entry ELSE file[i]]
    ELSE LET mates == {i \in DOMAIN file : file[i].contract[1] = entry.contract[1]}
             last  == IF mates = {} THEN Len(file) ELSE CHOOSE i \in mates : \A j \in mates : j <= i
         IN  InsertAt(file, last + 1, entry)

\* Mutant: only the source of the ids is compared.
AdaptorMatches(e) ==
    /\ Readable(e.contract, e.factoryOutput)
    /\ e.useAdaptor = getActionIds(e.contract, e.factoryOutput).useAdaptor

IdsMatch(e) ==
    LET now == getActionIds(e.contract, e.factoryOutput)
    IN  /\ Readable(e.contract, e.factoryOutput)
        /\ e.useAdaptor = now.useAdaptor
        /\ \A k \in Range(now.actionIds) : k \in Range(e.actionIds)

\* Every recorded id with the function it is for, in the order of the file.
Instances ==
    FlattenSeq([i \in DOMAIN file |->
        [j \in DOMAIN file[i].actionIds |->
            [id |-> file[i].actionIds[j][2],
             info |-> [contract |-> file[i].contract, signature |-> file[i].actionIds[j][1],
                       useAdaptor |-> file[i].useAdaptor]]]])

\* The ids of more than n instances, each with all of them, in order of first appearance.
WithId(instances, id) == {i \in DOMAIN instances : instances[i].id = id}
FirstPlaces(n, instances) ==
    {i \in DOMAIN instances :
        /\ \A j \in WithId(instances, instances[i].id) : i <= j
        /\ Cardinality(WithId(instances, instances[i].id)) > n}
SharedByMoreThan(n, instances) ==
    LET first == Those(instances, FirstPlaces(n, instances))
        Of(id) == Those(instances, WithId(instances, id))
    IN  [k \in DOMAIN first |->
            [id |-> first[k].id, infos |-> [j \in DOMAIN Of(first[k].id) |-> Of(first[k].id)[j].info]]]

\* Mutant: a pair of functions with one id is not taken for a collision.
MoreThanTwo(instances) == SharedByMoreThan(2, instances)

getDuplicateActionIds(instances) == SharedByMoreThan(1, instances)

Unique == getDuplicateActionIds(Instances) = expected

------------------------------------------------------------------------------
(* The commands, and what happens around them.                             *)

IdInit ==
    /\ deployed = [c \in Range(Outputs) |-> 1]
    /\ pools = {} /\ changes = 0 /\ file = <<>> /\ expected = <<>> /\ collisions = <<>>
    /\ saving = Idle /\ verdict = "none"

\* save-action-ids: of a pool at an address, of one contract, or of all task outputs.
StartSaving(queue) ==
    /\ saving = Idle
    /\ saving' = [queue |-> queue, entry |-> None]
    /\ UNCHANGED <<deployed, pools, changes, file, expected, collisions, verdict>>

\* A forced run replaces a contract of a task's output.
Redeploy(c) ==
    /\ changes < MaxChanges /\ changes' = changes + 1
    /\ deployed' = [deployed EXCEPT ![c] = @ + 1]
    /\ verdict' = "none"
    /\ UNCHANGED <<pools, file, expected, collisions, saving>>

CreatePool(c) ==
    LET factory == Address(FactoryOf[c])
        index   == 1 + Cardinality({p \in pools : p.of = c /\ p.factory = factory})
    IN  /\ changes < MaxChanges /\ changes' = changes + 1
        /\ pools' = pools \cup {[of |-> c, factory |-> factory, index |-> index]}
        /\ UNCHANGED <<deployed, file, expected, collisions, saving, verdict>>

\* saveActionIds up to the write: the ids are read from the chain, one await after the other.
ComputeIds ==
    /\ saving.queue # <<>> /\ saving.entry = None
    /\ LET job == Head(saving.queue)
           ids == getActionIds(job.contract, job.factoryOutput)
       IN  saving' = IF Readable(job.contract, job.factoryOutput)
                     THEN [saving EXCEPT !.entry =
                             [contract |-> job.contract, useAdaptor |-> ids.useAdaptor,
                              factoryOutput |-> job.factoryOutput, actionIds |-> ids.actionIds]]
                     ELSE Idle
    /\ UNCHANGED <<deployed, pools, changes, file, expected, collisions, verdict>>

\* The rest of it: the file is read, changed and written without giving way.
saveActionIds ==
    /\ saving.entry # None
    /\ file' = WriteEntry(saving.entry)
    /\ saving' = [queue |-> Tail(saving.queue), entry |-> None]
    /\ verdict' = IF file' = file THEN verdict ELSE "none"
    /\ UNCHANGED <<deployed, pools, changes, expected, collisions>>

Die ==
    /\ saving # Idle
    /\ saving' = Idle
    /\ UNCHANGED <<deployed, pools, changes, file, expected, collisions, verdict>>

\* check-action-ids of all tasks. It runs with nothing else going on.
checkActionIds ==
    /\ saving = Idle
    /\ LET matching == \A i \in DOMAIN file : IdsMatch(file[i])
       IN  /\ verdict' = IF matching /\ Unique THEN "passed" ELSE "failed"
           /\ collisions' = IF matching /\ ~Unique THEN getDuplicateActionIds(Instances) ELSE collisions
    /\ UNCHANGED <<deployed, pools, changes, file, expected, saving>>

\* "If we accept them, we can just copy them across."
AcceptCollisions ==
    /\ verdict = "failed" /\ expected # collisions
    /\ expected' = collisions
    /\ verdict' = "none"
    /\ UNCHANGED <<deployed, pools, changes, file, collisions, saving>>

Job(c, a) == [contract |-> c, factoryOutput |-> a]
AllJobs == [i \in DOMAIN Outputs |-> Job(Outputs[i], None)]

IdNext ==
    \/ StartSaving(AllJobs)
    \/ \E c \in Range(Outputs) : StartSaving(<<Job(c, None)>>)
    \/ \E p \in pools : StartSaving(<<Job(p.of, p)>>)
    \/ ComputeIds \/ saveActionIds \/ Die
    \/ \E c \in Range(Outputs) : Redeploy(c)
    \/ \E c \in Pools : CreatePool(c)
    \/ checkActionIds \/ AcceptCollisions

IdSpec == IdInit /\ [][IdNext]_idVars

------------------------------------------------------------------------------
(* Properties.                                                             *)

\* Where an instance of c may be found, as far as the records know.
InstancesOf(c) == IF c \in Pools THEN {p \in pools : p.of = c /\ p.factory = Address(FactoryOf[c])}
                                 ELSE {Address(c)}

\* A passed check vouches for what scripts look up (the migration of roles grants
\* permissions with these ids): the recorded id of a function that is not ignored is
\* the one its contract asks the Authorizer about, for every pool of a factory at once.
CheckVouchesForIds ==
    verdict = "passed" =>
        \A c \in RecordedIds : \A f \in Range(Abi[c]) \ ignored : \A a \in InstancesOf(c) :
            actionId(c, f) = OnChainId(a, f)

\* A permission granted with a recorded id reaches no recorded contract but the one it
\* was looked up for and those that the expected collisions list beside it.
GrantsReachOnlyExpected ==
    verdict = "passed" =>
        \A c, d \in RecordedIds : \A f \in Range(Abi[c]) \ ignored : \A a \in InstancesOf(d) :
            (c # d /\ f \in Range(Abi[d]) /\ OnChainId(a, f) = actionId(c, f)) =>
                \E i \in DOMAIN expected :
                    /\ expected[i].id = actionId(c, f)
                    /\ {c, d} \subseteq {x.contract : x \in Range(expected[i].infos)}

\* Recording again what has not changed is harmless: a check that passed still passes,
\* although it compares the collisions in the order of the file.
ResavingIsHarmless ==
    [][(/\ verdict = "passed" /\ file' # file
        /\ saving.entry.contract \in RecordedIds
        /\ EntryOf(saving.entry.contract).actionIds = saving.entry.actionIds)
            => Unique']_idVars
==============================================================================
