----------------------------- MODULE Deployments -----------------------------
(***************************************************************************)
(* Running deployment tasks (pkg/deployments/src/task.ts) on one network.  *)
(* A run executes the steps of a task's script; the process may die        *)
(* between any two of them, and its only memory is the files it wrote: the *)
(* task's output for the network, its output for tests, and the            *)
(* deployment transactions of the network.                                 *)
(*                                                                         *)
(* Addresses are <<place, i>>, the i-th contract created at a place: the   *)
(* live network, or the local fork that a test run starts from scratch.    *)
(* What other tasks deployed before is just given.                         *)
(***************************************************************************)
EXTENDS DeploymentTasks, Integers, Sequences, FiniteSets, SequencesExt

CONSTANT Sites \* the networks, the tasks run on each, and how many runs may die or be forced there

ASSUME SitesAssumption ==
    Sites \subseteq [network : NETWORKS, focus : Seq(TaskIds), maxCrashes : Nat, maxForced : Nat]

VARIABLES
    site,      \* the network and tasks of this behaviour
    chain,     \* the contracts created on the network, in order
    out,       \* out[task][file]: the addresses in a file of the output directory, of the tasks concerned
    txs,       \* the addresses whose deployment transaction is recorded
    run,       \* the run in progress, with the local fork it tests on, or the last one
    indexed,   \* how many live contracts the block explorer has found, in the order of the blocks
    verified,  \* the addresses whose source the block explorer has verified
    saved,     \* history: the live addresses ever recorded by deploy
    crashes, forced \* how many runs died, how many were forced

vars == <<site, chain, out, txs, run, indexed, verified, saved, crashes, forced>>

Places == {"live", "fork"}
Files  == {"network", "test"}
VERIFIED_NETWORKS == {"mainnet", "polygon", "arbitrum", "optimism", "goerli"}

Undefined == <<"undefined">>
NoOutput  == [n \in {} |-> Undefined]
With(output, name, a) == [n \in DOMAIN output \cup {name} |-> IF n = name THEN a ELSE output[n]]
Focus     == Range(site.focus)

On(place)   == IF place = "live" THEN chain ELSE run.fork
Exists(a)   == a[1] \in Places /\ a[2] <= Len(On(a[1]))
Contract(a) == On(a[1])[a[2]]
Deployed    == {<<"live", i>> : i \in DOMAIN chain}

\* What a deployment transaction says: the build's creation code and the constructor's arguments.
deploymentTxData(task, name, args) == [task |-> task, name |-> name, args |-> args]

------------------------------------------------------------------------------
(* Inputs.                                                                 *)

EntriesOn(t, n) == {e \in TaskInput[t] : n \in e.on}

\* What task d recorded under a name on the network, or undefined.
Recorded(d, name) ==
    IF name \in DOMAIN out[d]["network"] THEN out[d]["network"][name] ELSE Undefined

ParsedInput(t) ==
    [k \in {e.key : e \in EntriesOn(t, site.network)} |->
        LET e == CHOOSE e \in EntriesOn(t, site.network) : e.key = k
        IN  IF e.kind = "value" THEN <<"value", k>> ELSE Recorded(e.task, e.output)]

\* Loading input.ts reads the outputs it names (those of other networks are taken
\* as present); reading a task's recorded address throws when there is none.
InputReadable(t) ==
    /\ \A e \in TaskInput[t] : (e.kind = "loaded" /\ site.network \in e.on) => out[e.task]["network"] # NoOutput
    /\ \A e \in EntriesOn(t, site.network) : e.kind = "task" => Recorded(e.task, e.output) # Undefined

Argument(a, input, env) ==
    LET known == IF a[1] = "input" THEN input ELSE env
    IN  IF a[2] \in DOMAIN known THEN known[a[2]] ELSE Undefined
Arguments(args, input, env) == [i \in DOMAIN args |-> Argument(args[i], input, env)]

------------------------------------------------------------------------------
(* Runs.                                                                   *)

Ended(t, mode, force, status) ==
    [task |-> t, mode |-> mode, force |-> force, status |-> status, pc |-> 0, phase |-> "call",
     input |-> NoOutput, env |-> NoOutput, address |-> Undefined, fork |-> <<>>]

Running   == run.status = "running"
Current   == Script[run.task][run.pc]
Args      == Arguments(Current.args, run.input, run.env)
Deploying == Current.op \in {"deploy", "deployUnforced", "deployAndVerify"}
Finish(status) == Ended(run.task, run.mode, run.force, status)
Fail      == run' = Finish("failed") /\ UNCHANGED <<chain, out, txs, verified, saved>>

Advance(r) ==
    IF r.pc < Len(Script[r.task]) THEN [r EXCEPT !.pc = @ + 1, !.phase = "call", !.address = Undefined]
    ELSE Finish("done")
Learn(r, name, a) == [r EXCEPT !.env = With(@, name, a)]

ReadFile == IF run.mode = "TEST" THEN "test" ELSE "network"
SaveFile == IF run.mode = "LIVE" THEN "network" ELSE "test"
Save1(name, a) == out' = [out EXCEPT ![run.task][SaveFile] = With(@, name, a)]

\* Mutant: a contract is verified only by the run that creates it.
VerifiesOnlyNew(r) ==
    IF Current.op = "deployAndVerify" /\ r.mode = "LIVE" /\ run.phase # "call"
    THEN [r EXCEPT !.phase = "verify"] ELSE Advance(r)

\* deploy is over: deployAndVerify goes on to verify, in live runs.
AfterDeploy(r) ==
    IF Current.op = "deployAndVerify" /\ r.mode = "LIVE" THEN [r EXCEPT !.phase = "verify"] ELSE Advance(r)

Start(t, mode, force) ==
    /\ ~Running
    /\ force => forced < site.maxForced
    /\ run' = IF InputReadable(t)
              THEN [Ended(t, mode, force, "running") EXCEPT !.pc = 1, !.input = ParsedInput(t)]
              ELSE Ended(t, mode, force, "failed")
    /\ forced' = IF force THEN forced + 1 ELSE forced
    /\ UNCHANGED <<site, chain, out, txs, indexed, verified, saved, crashes>>

OnCall == Running /\ run.phase = "call"
Kept   == UNCHANGED <<site, indexed, crashes, forced>>

\* Mutants: what is recorded is never, or always, kept.
KeepsNothing == run.task \notin DOMAIN out
IgnoresForce == Current.name \in DOMAIN out[run.task][ReadFile]
MayKeep == (run.force => Current.op = "deployUnforced") /\ Current.name \in DOMAIN out[run.task][ReadFile]

\* deploy, when the output already has the contract.
UseRecorded ==
    /\ OnCall /\ Deploying /\ run.mode \in {"LIVE", "TEST"} /\ MayKeep
    /\ LET a == out[run.task][ReadFile][Current.name]
       IN  run' = AfterDeploy([Learn(run, Current.name, a) EXCEPT !.address = a])
    /\ UNCHANGED <<chain, out, txs, verified, saved>> /\ Kept

\* A contract is created together with what its constructor creates, parents first.
Created(place, task, name, args) ==
    LET self  == <<place, Len(On(place)) + 1>>
        one   == Append(<<>>, deploymentTxData(task, name, args))
        child == Creates(name, self, args)
        below == IF child = NoChild THEN NoChild
                 ELSE Creates(child.name, <<place, Len(On(place)) + 2>>, child.args)
        And(s, c) == IF c = NoChild THEN s ELSE Append(s, deploymentTxData("", c.name, c.args))
    IN  And(And(one, child), below)

Place == IF run.mode = "TEST" THEN "fork" ELSE "live"

\* deploy, when it must create the contract: the transaction is mined.
SendDeployment ==
    /\ OnCall /\ Deploying /\ run.mode \in {"LIVE", "TEST"} /\ ~MayKeep
    /\ IF \E i \in DOMAIN Args : Args[i] = Undefined
       THEN Fail
       ELSE LET new == Created(Place, run.task, Current.name, Args)
                r   == [run EXCEPT !.phase = "deployed", !.address = <<Place, Len(On(Place)) + 1>>]
            IN
            /\ chain' = IF Place = "live" THEN chain \o new ELSE chain
            /\ run' = IF Place = "fork" THEN [r EXCEPT !.fork = @ \o new] ELSE r
            /\ UNCHANGED <<out, txs, verified, saved>>
    /\ Kept

\* deploy, having awaited the transaction: save.
RecordAddress ==
    /\ Running /\ run.phase = "deployed"
    /\ Save1(Current.name, run.address)
    /\ LET r == Learn(run, Current.name, run.address)
       IN  run' = IF run.mode = "LIVE" THEN [r EXCEPT !.phase = "saved"] ELSE AfterDeploy(r)
    /\ saved' = IF run.mode = "LIVE" THEN saved \cup {run.address} ELSE saved
    /\ UNCHANGED <<chain, txs, verified>> /\ Kept

\* Mutant: the file is written without what it held.
ForgetsTransactions ==
    /\ Running /\ run.phase = "saved"
    /\ txs' = IF site.network \in VERIFIED_NETWORKS THEN {run.address} ELSE txs
    /\ run' = AfterDeploy(run)
    /\ UNCHANGED <<chain, out, verified, saved>> /\ Kept

saveContractDeploymentTransactionHash ==
    /\ Running /\ run.phase = "saved"
    /\ txs' = IF site.network \in VERIFIED_NETWORKS THEN txs \cup {run.address} ELSE txs
    /\ run' = AfterDeploy(run)
    /\ UNCHANGED <<chain, out, verified, saved>> /\ Kept

\* Verifier.call: verify throws unless the explorer has found the bytecode and
\* its source, with these arguments, compiles to it.  Task.verify swallows the
\* error, and does nothing outside live runs.
Verifies(a, args) ==
    run.mode = "LIVE" /\ a[2] <= indexed /\ Contract(a).args = args

VerifyContract ==
    /\ Running
    /\ run.phase = "verify" \/ (OnCall /\ Current.op = "verify")
    /\ LET a == run.env[Current.name]
       IN  verified' = IF Verifies(a, Args) THEN verified \cup {a} ELSE verified
    /\ run' = Advance(run)
    /\ UNCHANGED <<chain, out, txs, saved>> /\ Kept

\* Mutant: the constructor arguments are not compared.
ChecksCodeOnly ==
    /\ OnCall /\ Deploying /\ run.mode = "CHECK"
    /\ LET a == Recorded(run.task, Current.name)
       IN  IF a \in txs /\ Contract(a).name = Current.name
           THEN run' = Advance(Learn(run, Current.name, a)) /\ UNCHANGED <<chain, out, txs, verified, saved>>
           ELSE Fail
    /\ Kept

\* A check run compares the recorded contract's deployment with the one it would make.
CheckDeployment ==
    /\ OnCall /\ Deploying /\ run.mode = "CHECK"
    /\ LET a == Recorded(run.task, Current.name)
       IN  IF /\ a \in txs
              /\ Contract(a) = deploymentTxData(run.task, Current.name, Args)
           THEN run' = Advance(Learn(run, Current.name, a)) /\ UNCHANGED <<chain, out, txs, verified, saved>>
           ELSE Fail
    /\ Kept

\* A getter of a contract the script holds; it fails where there is no contract.
ReadContract ==
    /\ OnCall /\ Current.op = "read"
    /\ LET parent == Args[1]
           child  == <<parent[1], parent[2] + 1>>
       IN  IF Exists(parent) /\ Exists(child)
           THEN run' = Advance(Learn(run, Current.name, child)) /\ UNCHANGED <<chain, out, txs, verified, saved>>
           ELSE Fail
    /\ Kept

SaveContract ==
    /\ OnCall /\ Current.op = "save"
    /\ Save1(Current.name, run.env[Current.name])
    /\ run' = Advance(run)
    /\ UNCHANGED <<chain, txs, verified, saved>> /\ Kept

RequireNetwork ==
    /\ OnCall /\ Current.op = "onlyOn"
    /\ IF Current.name = site.network
       THEN run' = Advance(run) /\ UNCHANGED <<chain, out, txs, verified, saved>>
       ELSE Fail
    /\ Kept

Progress ==
    \/ UseRecorded \/ SendDeployment \/ RecordAddress \/ saveContractDeploymentTransactionHash
    \/ VerifyContract \/ CheckDeployment \/ ReadContract \/ SaveContract \/ RequireNetwork

Crash ==
    /\ Running /\ crashes < site.maxCrashes
    /\ run' = Finish("failed")
    /\ crashes' = crashes + 1
    /\ UNCHANGED <<site, chain, out, txs, indexed, verified, saved, forced>>

\* The explorer finds the bytecode of a contract some time after it was created.
FindBytecode ==
    /\ indexed < Len(chain)
    /\ indexed' = indexed + 1
    /\ UNCHANGED <<site, chain, out, txs, run, verified, saved, crashes, forced>>

------------------------------------------------------------------------------
(* Every task the focus reads from, but does not run, has been deployed.   *)

Dependencies(s) ==
    {<<e.task, e.output>> :
        e \in {e \in UNION {EntriesOn(t, s.network) : t \in Range(s.focus)} :
                 e.kind # "value" /\ e.task \notin Range(s.focus)}}

\* Where a task outside the focus deployed its contract of a name.
Given(t, name) == <<"given", <<t, name>>>>

Init ==
    /\ site \in Sites
    /\ chain = <<>>
    /\ out = [t \in Focus \cup {d[1] : d \in Dependencies(site)} |-> [f \in Files |->
                  [n \in {d[2] : d \in {d \in Dependencies(site) : d[1] = t /\ f = "network"}} |-> Given(t, n)]]]
    /\ txs = {Given(d[1], d[2]) : d \in Dependencies(site)}
    /\ saved = {} /\ indexed = 0
    /\ verified = {}
    /\ run = Ended(site.focus[1], "READ_ONLY", FALSE, "idle")
    /\ crashes = 0 /\ forced = 0

StartAny ==
    \E t \in Focus :
        \/ \E force \in BOOLEAN : Start(t, "LIVE", force) \/ Start(t, "TEST", force)
        \/ Start(t, "CHECK", FALSE)

Next == StartAny \/ Progress \/ Crash \/ FindBytecode

\* A running process goes on unless it dies, the explorer finds every contract,
\* and the operator runs each of the tasks again and again.
Fairness ==
    /\ WF_vars(Progress)
    /\ WF_vars(FindBytecode)
    /\ SF_vars(Start(site.focus[1], "LIVE", FALSE))
    /\ SF_vars(Start(site.focus[Len(site.focus)], "LIVE", FALSE))

Spec == Init /\ [][Next]_vars /\ Fairness

------------------------------------------------------------------------------
(* Properties.                                                             *)

DeploySteps(t) == {s \in Range(Script[t]) : s.op \in {"deploy", "deployUnforced", "deployAndVerify"}}
VerifiedSteps(t) == {s \in DeploySteps(t) : s.op = "deployAndVerify"}
SavedNames(t)  == {s.name : s \in {s \in Range(Script[t]) : s.op = "save"}}

\* The arguments the script would pass now, from what is recorded.
RecordedNow(t) == out[t]["network"]
ArgumentsNow(t, s) == Arguments(s.args, ParsedInput(t), RecordedNow(t))
Agrees(t, s) ==
    s.name \in DOMAIN RecordedNow(t)
        => Contract(RecordedNow(t)[s.name]) = deploymentTxData(t, s.name, ArgumentsNow(t, s))
Traceable(a) == a \in txs

\* Without --force, every recorded contract was created with the arguments its
\* script passes today, whatever processes died and in whatever order the tasks
\* were run again: a second run never replaces what another task built on.
UnforcedRunsAgree == forced = 0 => \A t \in Focus : \A s \in DeploySteps(t) : Agrees(t, s)

\* A check that ends well vouches for every contract the script deploys: each is
\* recorded, traced to its transaction, and what the script would create now.
CheckVouches ==
    (run.mode = "CHECK" /\ run.status = "done") =>
        \A s \in DeploySteps(run.task) :
            /\ s.name \in DOMAIN RecordedNow(run.task)
            /\ Traceable(RecordedNow(run.task)[s.name])
            /\ Agrees(run.task, s)

TopLevel(a) == Contract(a).task \in Focus
CreatedAs(t, name) == {a \in Deployed : Contract(a).task = t /\ Contract(a).name = name}

\* A contract is created twice on the live network only for a process that died
\* before recording it, or for a forced run.
NoNeedlessDeployment ==
    \A t \in Focus : \A s \in DeploySteps(t) :
        Cardinality(CreatedAs(t, s.name)) <= 1 + crashes + forced

\* Each death loses at most one contract: one whose address was never recorded,
\* or whose transaction never was, so that no check can vouch for it.
Lost ==
    {a \in Deployed :
        TopLevel(a) /\ (a \notin saved \/ (site.network \in VERIFIED_NETWORKS /\ ~Traceable(a)))}
InHand == IF Running THEN {run.address} ELSE {}
OneLossPerCrash == Cardinality(Lost \ InHand) <= crashes

\* Every contract of the live network is recorded and traceable, but for those of
\* processes that died, and none is created again without a reason.
DeploymentsAccountedFor == NoNeedlessDeployment /\ OneLossPerCrash

\* What a task promises: everything its script deploys or saves is recorded, and
\* everything it verifies is verified.
Complete ==
    \A t \in Focus :
        /\ \A s \in DeploySteps(t) : s.name \in DOMAIN RecordedNow(t)
        /\ SavedNames(t) \subseteq DOMAIN RecordedNow(t)
        /\ \A s \in VerifiedSteps(t) : RecordedNow(t)[s.name] \in verified

\* A site the scripts accept, and whose input.ts files are made for.
Configured ==
    \A t \in Focus :
        /\ \A s \in Range(Script[t]) : s.op = "onlyOn" => s.name = site.network
        /\ \A s \in DeploySteps(t) : \A i \in DOMAIN s.args :
              s.args[i][1] = "input" => s.args[i][2] \in {e.key : e \in EntriesOn(t, site.network)}

\* Running the tasks again and again, without --force, gets them there: "Running
\* the task again should fix the issue" (DEPLOYING.md).
RunningAgainCompletes == (Configured /\ [](forced = 0)) => <>[]Complete

\* A forced run that ends well leaves nothing that a check would reject, in the
\* steps that honour --force, whatever an earlier run left behind.
ForcedRunsRepair ==
    (run.mode = "LIVE" /\ run.force /\ run.status = "done") =>
        \A s \in DeploySteps(run.task) : s.op # "deployUnforced" =>
            /\ s.name \in DOMAIN RecordedNow(run.task) /\ Agrees(run.task, s)
            /\ site.network \in VERIFIED_NETWORKS => Traceable(RecordedNow(run.task)[s.name])

\* Starting from nothing, a network's tasks can be deployed: none waits for
\* itself through the outputs that it and others read.
Reads(t, n) == {e.task : e \in {e \in EntriesOn(t, n) : e.kind # "value"}}
Waiting(n) ==
    LET w[k \in 0..Cardinality(TaskIds)] ==
            IF k = 0 THEN TaskIds
            ELSE LET left == w[k - 1] IN {t \in left : Reads(t, n) \cap left # {}}
    IN  w[Cardinality(TaskIds)]
Circular == [n \in NETWORKS |-> Waiting(n) # {}]
NoCircularWait == ~Circular[site.network]

\* DEPLOYING.md: check-deployments verifies "that the addresses found in the
\* output directories correspond exactly to a run of the task".  A getter of a
\* recorded contract would return what save recorded.
ReadSteps(t) == {s \in Range(Script[t]) : s.op = "read" /\ s.name \in SavedNames(t)}
ReadNow(t, s) == LET parent == ArgumentsNow(t, s)[1] IN <<parent[1], parent[2] + 1>>
CheckedOutputsCorrespond ==
    (run.mode = "CHECK" /\ run.status = "done") =>
        \A s \in ReadSteps(run.task) :
            s.name \in DOMAIN RecordedNow(run.task)
                => RecordedNow(run.task)[s.name] = ReadNow(run.task, s)
==============================================================================
