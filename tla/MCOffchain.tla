----------------------------- MODULE MCOffchain -----------------------------
(* The parts of pkg/deployments, which share no state but the chain and the   *)
(* files they work on, each explored on its own from one initial state or     *)
(* another: the tasks, the recorded action ids, the extracted artifacts and   *)
(* the trimmed sources.                                                       *)
EXTENDS MCDeployments, ActionIds, Artifacts, SourceTrimming

VARIABLE explored

allVars == <<explored, vars, idVars, fileVars, trimVars>>

------------------------------------------------------------------------------
\* Two gauges and their factory are called through the adaptor, a pool has a factory.
TheAdaptor == <<"adaptor", "AuthorizerAdaptor">>
TheGauge   == <<"gauges", "Gauge">>
TheGaugeFactory == <<"gauges", "GaugeFactory">>
ThePoolFactory  == <<"weighted", "PoolFactory">>
ThePool    == <<"weighted", "Pool">>
MCOutputs  == <<TheAdaptor, TheGauge, TheGaugeFactory, ThePoolFactory>>
MCPools    == {ThePool}
MCAware    == {TheAdaptor, ThePool}
MCFactoryOf == ThePool :> ThePoolFactory
MCAbi == (TheAdaptor :> <<"performAction">>) @@ (TheGauge :> <<"kill", "set">>)
      @@ (TheGaugeFactory :> <<"set">>) @@ (ThePoolFactory :> <<"create">>)
      @@ (ThePool :> <<"pause", "set">>)

------------------------------------------------------------------------------
\* Two files of one task and one of another, a contract defined twice or without an ABI.
Artifact(a, b) == [abi |-> a, bytecode |-> b]
Compiled(s, c, a) == [source |-> s, contract |-> c, artifact |-> a]
MCTaskNames == <<<<"t1", "A">>, <<"t1", "B">>, <<"t2", "A">>>>
MCBuildsOf == [x \in Range(MCTaskNames) |->
    {<<Compiled("S", x[2], Artifact(<<"f">>, "b1"))>>,
     <<Compiled("S", x[2], Artifact(<<>>, "b1"))>>}
    \cup (IF x # <<"t1", "A">> THEN {} ELSE
    {<<Compiled("R", "C", Artifact(<<"h">>, "b3")), Compiled("S", x[2], Artifact(<<"f", "g">>, "b1"))>>,
     <<Compiled("R", x[2], Artifact(<<"f">>, "b2")), Compiled("S", x[2], Artifact(<<"f">>, "b1"))>>})]

------------------------------------------------------------------------------
Source(d, f) == [dir |-> d, file |-> f]
MCInputs == {<<Source("a", "X"), Source("a", "Y"), Source("b", "Z"), Source("b", "W")>>,
             <<Source("a", "X"), Source("a", "Y"), Source("b", "X"), Source("b", "W")>>}

------------------------------------------------------------------------------
\* Where a task is that cannot be run, while something else is explored.
IdleSite == SiteOn("polygon", <<MCB>>, 0, 0)
NoSources == sources = <<>> /\ imports = <<>>

OffchainInit ==
    /\ Init /\ IdInit /\ ArtifactInit
    /\ explored \in {"tasks", "ids", "artifacts", "trimming"}
    /\ explored # "tasks" => site = IdleSite
    /\ IF explored = "trimming" THEN TrimInit ELSE NoSources

TaskStep     == explored = "tasks" /\ Next /\ UNCHANGED <<explored, idVars, fileVars, trimVars>>
IdStep       == explored = "ids" /\ IdNext /\ UNCHANGED <<explored, vars, fileVars, trimVars>>
ArtifactStep == explored = "artifacts" /\ ArtifactNext /\ UNCHANGED <<explored, vars, idVars, trimVars>>

OffchainSpec == OffchainInit /\ [][TaskStep \/ IdStep \/ ArtifactStep]_allVars /\ Fairness
==============================================================================
