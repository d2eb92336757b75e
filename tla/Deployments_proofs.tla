------------------------- MODULE Deployments_proofs -------------------------
(***************************************************************************)
(* What holds of every run of the deployment tasks, on any network, for    *)
(* any list of tasks and any number of processes that die or are forced.   *)
(*                                                                         *)
(* Everything about a script that matters is read off the repository's     *)
(* scripts first (WellScripted): no two steps give a result the same name, *)
(* and a step passes, reads or saves only what earlier steps deployed or   *)
(* read; no task reads its own outputs (Reader).  The invariant then says  *)
(* what files, chain and run have to do with one another between any two   *)
(* steps: what a run knows of the steps behind it is what is recorded of   *)
(* them (Knows), a contract sent but not yet recorded is the one its step  *)
(* would make now (CreatedOK), and each contract is recorded and traced,   *)
(* in hand, or lost to a death (LossInv, NeedInv).                         *)
(***************************************************************************)
EXTENDS Deployments, SequenceTheorems, FiniteSetTheorems, TLAPS

------------------------------------------------------------------------------
(* The scripts of the repository, all of them.                             *)

Deploys(s) == s.op \in {"deploy", "deployUnforced", "deployAndVerify"}
Holds(s)   == Deploys(s) \/ s.op = "read"

Passes(q, i) ==
    \A k \in DOMAIN q[i].args :
        \/ q[i].args[k][1] = "input"
        \/ /\ q[i].args[k][1] = "instance"
           /\ \E j \in 1..(i - 1) : Deploys(q[j]) /\ q[i].args[k][2] = q[j].name

WellScripted(q) ==
    /\ Len(q) \in Nat \ {0} /\ DOMAIN q = 1..Len(q)
    /\ \A i, j \in DOMAIN q : Holds(q[i]) /\ Holds(q[j]) /\ q[i].name = q[j].name => i = j
    /\ \A i \in DOMAIN q : Deploys(q[i]) => Passes(q, i)
    /\ \A i \in DOMAIN q : q[i].op = "read" =>
          \E j \in 1..(i - 1) : Holds(q[j]) /\ q[i].args = <<At(q[j].name)>>
    /\ \A i \in DOMAIN q : q[i].op = "save" =>
          \E j \in 1..(i - 1) : \E k \in 1..(j - 1) :
              /\ q[j].op = "read" /\ q[j].name = q[i].name
              /\ Deploys(q[k]) /\ q[j].args = <<At(q[k].name)>>

USE DEF In, At, Step, Deploy, DeployUnforced, DeployAndVerify, Read, Verify, Save, OnlyOn, Deploys, Holds, Passes, WellScripted

LEMMA VaultFactoriesWellScripted == \A name : WellScripted(VaultFactory(name))
BY DEF VaultFactory

LEMMA FeeFactoriesWellScripted == \A name : WellScripted(FeeProviderFactory(name))
BY DEF FeeProviderFactory

\* A contract that creates another, which is read, verified and saved.
LEMMA FamilyWellScripted ==
  ASSUME NEW name, NEW child, NEW args, NEW childArgs, name # child,
         \A k \in DOMAIN args : args[k][1] = "input"
  PROVE  WellScripted(<<DeployAndVerify(name, args), Read(child, name), Verify(child, childArgs),
                        Save(child)>>)
<1> DEFINE q == <<DeployAndVerify(name, args), Read(child, name), Verify(child, childArgs), Save(child)>>
<1>1. /\ Len(q) = 4 /\ DOMAIN q = 1..4
      /\ q[1] = DeployAndVerify(name, args) /\ q[2] = Read(child, name)
      /\ q[3] = Verify(child, childArgs) /\ q[4] = Save(child)
  OBVIOUS
<1> HIDE DEF q
<1>2. /\ Deploys(q[1]) /\ q[1].name = name /\ q[1].args = args
      /\ q[2].op = "read" /\ q[2].name = child /\ q[2].args = <<At(q[1].name)>>
      /\ q[3].op = "verify"
      /\ q[4].op = "save" /\ q[4].name = child
  BY <1>1
<1>3. \A i \in DOMAIN q : Holds(q[i]) => i \in {1, 2}  BY <1>1, <1>2
<1>4. \A i \in DOMAIN q : Deploys(q[i]) => i = 1  BY <1>1, <1>2
<1>5. \A i \in DOMAIN q : q[i].op = "read" => i = 2  BY <1>1, <1>2
<1>6. \A i \in DOMAIN q : q[i].op = "save" => i = 4  BY <1>1, <1>2
<1>7. Passes(q, 1)  BY <1>2
<1>8. 1 \in 1..(2 - 1) /\ 2 \in 1..(4 - 1)  OBVIOUS
<1>9. WellScripted(q)
  <2> HIDE DEF Deploys, At, Passes
  <2> QED BY <1>1, <1>2, <1>3, <1>4, <1>5, <1>6, <1>7, <1>8 DEF Holds
<1> QED BY <1>9 DEF q

LEMMA Singles1 ==
  /\ WellScripted(AaveRebalancedScript) /\ WellScripted(AuthorizerAdaptorScript)
  /\ WellScripted(AuthorizerScript) /\ WellScripted(BalMerkleScript)
BY DEF AaveRebalancedScript, AuthorizerAdaptorScript, AuthorizerScript, BalMerkleScript

LEMMA Singles2 ==
  /\ WellScripted(BalancerQueriesScript) /\ WellScripted(BalancerTokenAdminScript)
  /\ WellScripted(CheckerCoordinatorScript) /\ WellScripted(ChildGaugeRewardHelperScript)
BY DEF BalancerQueriesScript, BalancerTokenAdminScript, CheckerCoordinatorScript,
   ChildGaugeRewardHelperScript

LEMMA Singles3 ==
  /\ WellScripted(ChildGaugeTokenAdderScript) /\ WellScripted(DistributionSchedulerScript)
  /\ WellScripted(DoubleEntrypointFixScript) /\ WellScripted(FeeDistributorScript)
BY DEF ChildGaugeTokenAdderScript, DistributionSchedulerScript, DoubleEntrypointFixScript,
   FeeDistributorScript

LEMMA Singles4 ==
  /\ WellScripted(FeeDistributorV2Script) /\ WellScripted(FeeProviderScript)
  /\ WellScripted(GaugeAdderMigrationScript) /\ WellScripted(GaugeAdderScript)
BY SMTT(30) DEF FeeDistributorV2Script, FeeProviderScript, GaugeAdderMigrationScript,
   GaugeAdderScript

LEMMA Singles5 ==
  /\ WellScripted(GaugeAdderV2Script) /\ WellScripted(GaugeFixCoordinatorScript)
  /\ WellScripted(L2SetupCoordinatorScript) /\ WellScripted(LdoMerkleScript)
BY SMTT(30) DEF GaugeAdderV2Script, GaugeFixCoordinatorScript, L2SetupCoordinatorScript,
   LdoMerkleScript

LEMMA Singles6 ==
  /\ WellScripted(LidoRelayerScript) /\ WellScripted(PreseededDelegationScript)
  /\ WellScripted(SNXRecoveryCoordinatorScript) /\ WellScripted(SmartWalletCheckerScript)
BY SMTT(30) DEF LidoRelayerScript, PreseededDelegationScript, SNXRecoveryCoordinatorScript,
   SmartWalletCheckerScript

LEMMA Singles7 ==
  /\ WellScripted(TestBalancerTokenScript) /\ WellScripted(TokenHolderFactoryScript)
  /\ WellScripted(TribeCoordinatorScript) /\ WellScripted(VeBALCoordinatorScript)
BY SMTT(30) DEF TestBalancerTokenScript, TokenHolderFactoryScript, TribeCoordinatorScript,
   VeBALCoordinatorScript

LEMMA Singles8 ==
  /\ WellScripted(WithdrawerScript) /\ WellScripted(WstETHRateProviderScript)
BY DEF WithdrawerScript, WstETHRateProviderScript

LEMMA VaultScriptWellScripted ==
  /\ WellScripted(VaultScript)
BY DEF VaultScript

LEMMA TimelockScriptWellScripted ==
  /\ WellScripted(TimelockScript)
BY SMTT(30) DEF TimelockScript

LEMMA DeploymentsInTurn ==
  /\ WellScripted(GaugeControllerScript) /\ WellScripted(ChildGaugeFactoryScript)
BY DEF GaugeControllerScript, ChildGaugeFactoryScript

LEMMA DelegationInTurn ==
  /\ WellScripted(VeDelegationScript) /\ WellScripted(MetaStablePoolScript)
BY DEF VeDelegationScript, MetaStablePoolScript

LEMMA FactoriesInTurn ==
  /\ WellScripted(WeightedPoolScript) /\ WellScripted(McbMerkleScript)
BY DEF WeightedPoolScript, McbMerkleScript, VaultFactory

LEMMA LiquidityGaugesWellScripted ==
  /\ WellScripted(LiquidityGaugeSteps)
BY DEF LiquidityGaugeSteps

HIDE DEF In, At, Step, Deploy, DeployUnforced, DeployAndVerify, Read, Verify, Save, OnlyOn, Deploys,
         Holds, Passes, WellScripted

LEMMA RelayersWellScripted ==
  ASSUME NEW args, \A k \in DOMAIN args : args[k][1] = "input"
  PROVE  WellScripted(RelayerSteps(args))
BY FamilyWellScripted DEF RelayerSteps

LEMMA RootGaugesWellScripted ==
  ASSUME NEW name, NEW child, NEW args, NEW childArgs, name # child,
         \A k \in DOMAIN args : args[k][1] = "input"
  PROVE  WellScripted(RootGaugeSteps(name, child, args, childArgs))
BY FamilyWellScripted DEF RootGaugeSteps

LEMMA VaultFactories ==
  /\ WellScripted(AaveLinearPoolScript) /\ WellScripted(ERC4626LinearPoolScript)
  /\ WellScripted(ERC4626LinearPoolV2Script) /\ WellScripted(InvestmentPoolScript)
  /\ WellScripted(LBPScript) /\ WellScripted(MerkleOrchardScript)
  /\ WellScripted(NoProtocolFeeLBPScript) /\ WellScripted(StablePhantomPoolScript)
  /\ WellScripted(StablePoolScript) /\ WellScripted(StablePoolV2Script)
  /\ WellScripted(UnbuttonAaveLinearPoolScript)
BY VaultFactoriesWellScripted DEF AaveLinearPoolScript, ERC4626LinearPoolScript, ERC4626LinearPoolV2Script,
   InvestmentPoolScript, LBPScript, MerkleOrchardScript, NoProtocolFeeLBPScript,
   StablePhantomPoolScript, StablePoolScript, StablePoolV2Script,
   UnbuttonAaveLinearPoolScript

LEMMA FeeFactories ==
  /\ WellScripted(ComposableStablePoolScript) /\ WellScripted(PrimaryIssuePoolScript)
  /\ WellScripted(SecondaryIssuePoolScript) /\ WellScripted(WeightedPoolV2Script)
BY FeeFactoriesWellScripted DEF ComposableStablePoolScript, PrimaryIssuePoolScript, SecondaryIssuePoolScript,
   WeightedPoolV2Script

LEMMA LiquidityGauges ==
  /\ WellScripted(MainnetGaugeFactoryScript) /\ WellScripted(MainnetGaugeFactoryV2Script)
BY LiquidityGaugesWellScripted DEF MainnetGaugeFactoryScript, MainnetGaugeFactoryV2Script

LEMMA BatchRelayers ==
  /\ WellScripted(BatchRelayerScript) /\ WellScripted(BatchRelayerV2Script)
  /\ WellScripted(BatchRelayerV3Script)
BY RelayersWellScripted DEF In, BatchRelayerScript, BatchRelayerV2Script, BatchRelayerV3Script

LEMMA RootGauges ==
  /\ WellScripted(ArbitrumGaugesScript) /\ WellScripted(OptimismGaugesScript)
  /\ WellScripted(PolygonGaugesScript)
BY RootGaugesWellScripted DEF In, ArbitrumGaugesScript, OptimismGaugesScript, PolygonGaugesScript

LEMMA SingleRecipientGauges ==
  /\ WellScripted(SingleRecipientScript)
BY FamilyWellScripted DEF In, SingleRecipientScript

\* Scripts and inputs are those of an entry.
LEMMA EveryTask ==
  ASSUME NEW t \in TaskIds
  PROVE  \E e \in Catalogue : e.id = t /\ Script[t] = e.script /\ TaskInput[t] = e.input
BY DEF TaskIds, Script, TaskInput

LEMMA ScriptsWellScripted == \A t \in TaskIds : WellScripted(Script[t])
<1>1. \A e \in Catalogue : WellScripted(e.script)
  BY VaultFactories, FeeFactories, Singles1, Singles2, Singles3, Singles4, Singles5, Singles6,
     Singles7, Singles8, VaultScriptWellScripted, TimelockScriptWellScripted, DeploymentsInTurn,
     DelegationInTurn, FactoriesInTurn, LiquidityGauges, BatchRelayers, RootGauges,
     SingleRecipientGauges
     DEF Catalogue, Entry, ArbitrumGaugesV2Script, OptimismGaugesV2Script, PolygonGaugesV2Script
<1> QED BY <1>1, EveryTask

\* A task has a name, and does not read what it records itself.
NoTask == ""
Reader(t, inputs) == t # NoTask /\ \A i \in inputs : i.kind # "value" => i.task # t

LEMMA Kinds ==
  /\ \A k, t, n : From(k, t, n).task = t
  /\ \A k, t, o, n : Loaded(k, t, o, n).task = t
  /\ \A k, n : Value(k, n).kind = "value"
BY DEF From, Loaded, Value

LEMMA ValuesAreWritten ==
  ASSUME NEW k, NEW n, NEW i \in Values(k, n)
  PROVE  i.kind = "value"
<1>1. PICK x \in k : i = Value(x, n)  BY DEF Values
<1> QED BY <1>1 DEF Value

LEMMA Readers1 ==
  /\ Reader(AUTHORIZER, AuthorizerInput)
  /\ Reader(VAULT, VaultInput)
  /\ Reader("20210812-wsteth-rate-provider", WstETHRateProviderInput)
  /\ Reader("20211202-no-protocol-fee-lbp", NoProtocolFeeLBPInput)
  /\ Reader(ADAPTOR, AuthorizerAdaptorInput)
BY Kinds, ValuesAreWritten
   DEF Reader, NoTask, AuthorizerInput, VaultInput, WstETHRateProviderInput, NoProtocolFeeLBPInput,
       VaultFactoryInput, VaultOn, AuthorizerAdaptorInput, ADAPTOR, AUTHORIZER, VAULT

LEMMA Readers2 ==
  /\ Reader(TOKEN_HOLDER, TokenHolderFactoryInput)
  /\ Reader(ADMIN, BalancerTokenAdminInput)
  /\ Reader(GAUGE_ADDER, GaugeAdderInput)
  /\ Reader(CONTROLLER, GaugeControllerInput)
  /\ Reader(SINGLE_RECIPIENT, SingleRecipientInput)
BY Kinds, ValuesAreWritten
   DEF Reader, NoTask, TokenHolderFactoryInput, VaultOn, TestBALOn, BalancerTokenAdminInput,
       GaugeAdderInput, GaugeControllerInput, SingleRecipientInput, ADAPTOR, ADMIN, CONTROLLER,
       GAUGE_ADDER, SINGLE_RECIPIENT, TEST_BAL, TOKEN_HOLDER, VAULT

LEMMA Readers3 ==
  /\ Reader(TEST_BAL, TestBalancerTokenInput)
  /\ Reader(DELEGATION, VeDelegationInput)
  /\ Reader("20220404-erc4626-linear-pool-v2", ERC4626LinearPoolV2Input)
  /\ Reader(CHILD_GAUGE_FACTORY, ChildGaugeFactoryInput)
  /\ Reader("20220415-primary-issue-pool", PrimaryIssuePoolInput)
BY Kinds, ValuesAreWritten
   DEF Reader, NoTask, TestBalancerTokenInput, VeDelegationInput, VaultOn, ERC4626LinearPoolV2Input,
       VaultFactoryInput, ChildGaugeFactoryInput, TestBALOn, PrimaryIssuePoolInput,
       WithFeeProvider, ADAPTOR, CHILD_GAUGE_FACTORY, CONTROLLER, DELEGATION, FEE_PROVIDER,
       TEST_BAL, VAULT

LEMMA Readers4 ==
  /\ Reader("20220419-secondary-issue-pool", SecondaryIssuePoolInput)
  /\ Reader(CHECKER, SmartWalletCheckerInput)
  /\ Reader("20220425-unbutton-aave-linear-pool", UnbuttonAaveLinearPoolInput)
  /\ Reader("20220513-double-entrypoint-fix-relayer", DoubleEntrypointFixInput)
  /\ Reader(WITHDRAWER, WithdrawerInput)
BY Kinds, ValuesAreWritten
   DEF Reader, NoTask, SecondaryIssuePoolInput, WithFeeProvider, VaultOn, SmartWalletCheckerInput,
       UnbuttonAaveLinearPoolInput, VaultFactoryInput, DoubleEntrypointFixInput,
       WithdrawerInput, CHECKER, FEE_PROVIDER, VAULT, WITHDRAWER

LEMMA Readers5 ==
  /\ Reader("20220527-child-chain-gauge-token-adder", ChildGaugeTokenAdderInput)
  /\ Reader("20220530-preseeded-voting-escrow-delegation", PreseededDelegationInput)
  /\ Reader("20220609-stable-pool-v2", StablePoolV2Input)
  /\ Reader(GAUGE_ADDER_V2, GaugeAdderV2Input)
  /\ Reader(TIMELOCK, TimelockInput)
BY Kinds, ValuesAreWritten
   DEF Reader, NoTask, ChildGaugeTokenAdderInput, PreseededDelegationInput, StablePoolV2Input,
       VaultFactoryInput, VaultOn, GaugeAdderV2Input, TimelockInput, TimelockLoads, ADAPTOR,
       ADMIN, ARBITRUM_GAUGES, AUTHORIZER, CHECKER, CHILD_GAUGE_FACTORY, CONTROLLER,
       GAUGE_ADDER, GAUGE_ADDER_V2, LIDO_RELAYER, OPTIMISM_GAUGES, RELAYER, RELAYER_V3,
       TIMELOCK, VAULT, WITHDRAWER

LEMMA Readers6 ==
  /\ Reader("20220707-distribution-scheduler", {})
  /\ Reader("20220714-fee-distributor-v2", FeeDistributorV2Input)
  /\ Reader(RELAYER_V3, BatchRelayerV3Input)
  /\ Reader(QUERIES, BalancerQueriesInput)
  /\ Reader(FEE_PROVIDER, FeeProviderInput)
BY Kinds, ValuesAreWritten
   DEF Reader, NoTask, FeeDistributorV2Input, BatchRelayerV3Input, VaultOn, BalancerQueriesInput,
       FeeProviderInput, CONTROLLER, FEE_PROVIDER, QUERIES, RELAYER_V3, VAULT

LEMMA Readers7 ==
  /\ Reader("20220812-child-chain-reward-helper", {})
  /\ Reader("20220817-aave-rebalanced-linear-pool", AaveRebalancedInput)
  /\ Reader("20220822-mainnet-gauge-factory-v2", MainnetGaugeFactoryV2Input)
  /\ Reader("20220823-arbitrum-root-gauge-factory-v2", ArbitrumGaugesV2Input)
  /\ Reader("20220823-optimism-root-gauge-factory-v2", OptimismGaugesV2Input)
BY Kinds, ValuesAreWritten
   DEF Reader, NoTask, AaveRebalancedInput, VaultOn, MainnetGaugeFactoryV2Input, LiquidityGaugeInputs,
       ArbitrumGaugesV2Input, ArbitrumGaugesInput, OptimismGaugesV2Input, OptimismGaugesInput,
       ADAPTOR, CONTROLLER, DELEGATION, QUERIES, VAULT

LEMMA Readers8 ==
  /\ Reader("20220823-polygon-root-gauge-factory-v2", PolygonGaugesV2Input)
  /\ Reader("20220906-composable-stable-pool", ComposableStablePoolInput)
  /\ Reader("20220908-weighted-pool-v2", WeightedPoolV2Input)
  /\ Reader("20210418-weighted-pool", WeightedPoolInput)
  /\ Reader("20210624-stable-pool", StablePoolInput)
BY Kinds, ValuesAreWritten
   DEF Reader, NoTask, PolygonGaugesV2Input, PolygonGaugesInput, ComposableStablePoolInput,
       WithFeeProvider, VaultOn, WeightedPoolV2Input, WeightedPoolInput, VaultFactoryInput,
       StablePoolInput, CONTROLLER, FEE_PROVIDER, VAULT

LEMMA Readers9 ==
  /\ Reader("20210721-liquidity-bootstrapping-pool", LBPInput)
  /\ Reader("20210727-meta-stable-pool", MetaStablePoolInput)
  /\ Reader("20210811-ldo-merkle", LdoMerkleInput)
  /\ Reader(LIDO_RELAYER, LidoRelayerInput)
  /\ Reader("20210907-investment-pool", InvestmentPoolInput)
BY Kinds, ValuesAreWritten
   DEF Reader, NoTask, LBPInput, VaultFactoryInput, VaultOn, MetaStablePoolInput, LdoMerkleInput,
       LidoRelayerInput, InvestmentPoolInput, LIDO_RELAYER, VAULT

LEMMA Readers10 ==
  /\ Reader("20210913-bal-arbitrum-merkle", BalMerkleInput)
  /\ Reader("20210928-mcb-arbitrum-merkle", McbMerkleInput)
  /\ Reader("20211012-merkle-orchard", MerkleOrchardInput)
  /\ Reader(RELAYER, BatchRelayerInput)
  /\ Reader("20211208-aave-linear-pool", AaveLinearPoolInput)
BY Kinds, ValuesAreWritten
   DEF Reader, NoTask, BalMerkleInput, VaultOn, McbMerkleInput, MerkleOrchardInput, VaultFactoryInput,
       BatchRelayerInput, AaveLinearPoolInput, RELAYER, VAULT

LEMMA Readers11 ==
  /\ Reader("20211208-stable-phantom-pool", StablePhantomPoolInput)
  /\ Reader("20220304-erc4626-linear-pool", ERC4626LinearPoolInput)
  /\ Reader("20220318-batch-relayer-v2", BatchRelayerV2Input)
  /\ Reader(GAUGE_FACTORY, MainnetGaugeFactoryInput)
  /\ Reader(ARBITRUM_GAUGES, ArbitrumGaugesInput)
BY Kinds, ValuesAreWritten
   DEF Reader, NoTask, StablePhantomPoolInput, VaultFactoryInput, VaultOn, ERC4626LinearPoolInput,
       BatchRelayerV2Input, MainnetGaugeFactoryInput, LiquidityGaugeInputs, ArbitrumGaugesInput,
       ADAPTOR, ARBITRUM_GAUGES, CONTROLLER, DELEGATION, GAUGE_FACTORY, VAULT

LEMMA Readers12 ==
  /\ Reader(POLYGON_GAUGES, PolygonGaugesInput)
  /\ Reader("20220420-fee-distributor", FeeDistributorInput)
  /\ Reader(OPTIMISM_GAUGES, OptimismGaugesInput)
  /\ Reader("20220325-veBAL-deployment-coordinator", VeBALCoordinatorInput)
  /\ Reader("20220415-veBAL-L2-gauge-setup-coordinator", L2SetupCoordinatorInput)
BY Kinds, ValuesAreWritten
   DEF Reader, NoTask, PolygonGaugesInput, FeeDistributorInput, OptimismGaugesInput, VaultOn,
       VeBALCoordinatorInput, L2SetupCoordinatorInput, ADAPTOR, ARBITRUM_GAUGES, CONTROLLER,
       GAUGE_ADDER, GAUGE_FACTORY, OPTIMISM_GAUGES, POLYGON_GAUGES, SINGLE_RECIPIENT,
       TOKEN_HOLDER, VAULT

LEMMA Readers13 ==
  /\ Reader("20220418-veBAL-gauge-fix-coordinator", GaugeFixCoordinatorInput)
  /\ Reader("20220421-smart-wallet-checker-coordinator", CheckerCoordinatorInput)
  /\ Reader("20220606-tribe-bal-minter-coordinator", TribeCoordinatorInput)
  /\ Reader("20220610-snx-recovery-coordinator", SNXRecoveryCoordinatorInput)
  /\ Reader("20220721-gauge-adder-migration-coordinator", GaugeAdderMigrationInput)
BY Kinds, ValuesAreWritten
   DEF Reader, NoTask, GaugeFixCoordinatorInput, CheckerCoordinatorInput, TribeCoordinatorInput,
       SNXRecoveryCoordinatorInput, GaugeAdderMigrationInput, ADAPTOR, ADMIN, ARBITRUM_GAUGES,
       CHECKER, CONTROLLER, GAUGE_ADDER, GAUGE_ADDER_V2, OPTIMISM_GAUGES, WITHDRAWER

LEMMA NoTaskReadsItself == \A t \in TaskIds : Reader(t, TaskInput[t])
<1>1. \A e \in Catalogue : Reader(e.id, e.input)
  BY Readers1, Readers2, Readers3, Readers4, Readers5, Readers6, Readers7, Readers8,
     Readers9, Readers10, Readers11, Readers12, Readers13
     DEF Catalogue, Entry
<1> QED BY <1>1, EveryTask

------------------------------------------------------------------------------
(* The invariant.                                                          *)

Net(t)    == out[t]["network"]
Steps(t)  == DOMAIN Script[t]
IsLive(a) == a \in Deployed
Below(a)  == <<a[1], a[2] + 1>>

\* Files and chain.
FilesOK ==
    /\ site \in Sites
    /\ out = [t \in DOMAIN out |-> [f \in Files |-> out[t][f]]]
    /\ Focus \subseteq DOMAIN out
    /\ \A t \in Focus : \A e \in EntriesOn(t, site.network) : e.kind # "value" => e.task \in DOMAIN out
    /\ chain \in Seq(Range(chain))
    /\ \A t \in Focus : \A n \in DOMAIN Net(t) : IsLive(Net(t)[n])
    /\ Undefined \notin txs
    /\ crashes \in Nat /\ forced \in Nat

\* The run in progress.
RunOK ==
    /\ run = [task |-> run.task, mode |-> run.mode, force |-> run.force, status |-> run.status,
              pc |-> run.pc, phase |-> run.phase, input |-> run.input, env |-> run.env,
              address |-> run.address, fork |-> run.fork]
    /\ run.task \in Focus /\ run.mode \in {"LIVE", "TEST", "CHECK"} /\ run.force \in BOOLEAN
    /\ run.force => forced > 0
    /\ run.pc \in Steps(run.task)
    /\ \A t \in Focus : t = run.task => run.input = ParsedInput(t)

\* The phases of a deployment.
PhaseOK ==
    /\ run.phase \in {"call", "deployed", "saved", "verify"}
    /\ run.phase = "call" => run.address = Undefined
    /\ run.phase # "call" => Deploying /\ run.mode \in {"LIVE", "TEST"}
    /\ run.phase \in {"saved", "verify"} => run.mode = "LIVE"
    /\ (run.phase = "deployed" /\ run.mode = "TEST") => run.address[1] = "fork"
    /\ run.phase = "saved" =>
          /\ Current.name \in DOMAIN Net(run.task) /\ run.address = Net(run.task)[Current.name]
          /\ run.address \in saved

Supplied(args) == \A i \in DOMAIN args : args[i] # Undefined

\* What is created but not recorded yet.
Made(t, s, a) ==
    /\ Contract(a) = deploymentTxData(t, s.name, ArgumentsNow(t, s))
    /\ Supplied(ArgumentsNow(t, s))
CreatedOK ==
    (run.phase = "deployed" /\ run.mode = "LIVE") =>
        /\ IsLive(run.address)
        /\ \A t \in Focus : \A j \in Steps(t) : \A a \in Deployed :
              (t = run.task /\ j = run.pc /\ a = run.address) =>
                  /\ Made(t, Script[t][j], a)
                  /\ ~run.force => Script[t][j].name \notin DOMAIN Net(t)

\* The steps whose result is known to the run, and what it knows of them.
Reached == IF run.phase \in {"saved", "verify"} THEN run.pc + 1 ELSE run.pc

Reads1(q, j, k) == q[j].op = "read" /\ k < j /\ q[j].args = <<At(q[k].name)>>

Knows(q, env, c, net, live) ==
    /\ \A n \in DOMAIN env : env[n] \in live
    /\ \A j \in DOMAIN q : j < c /\ Holds(q[j]) => q[j].name \in DOMAIN env
    /\ \A j \in DOMAIN q : j < c /\ Deploys(q[j]) =>
          q[j].name \in DOMAIN net /\ net[q[j].name] = env[q[j].name]
    /\ \A j, k \in DOMAIN q : j < c /\ Reads1(q, j, k) /\ Holds(q[k]) =>
          env[q[j].name] = Below(env[q[k].name])

EnvOK == run.mode # "TEST" => Knows(Script[run.task], run.env, Reached, Net(run.task), Deployed)

RunningOK == Running => RunOK /\ PhaseOK /\ CreatedOK /\ EnvOK

\* Unless forced, what is recorded stays, and agrees.
UnforcedInv ==
    forced = 0 =>
        \A t \in Focus :
            /\ \A j \in Steps(t) : Deploys(Script[t][j]) /\ Script[t][j].name \in DOMAIN Net(t) =>
                  Agrees(t, Script[t][j]) /\ Supplied(ArgumentsNow(t, Script[t][j]))
            /\ \A j, k \in Steps(t) :
                  Reads1(Script[t], j, k) /\ Deploys(Script[t][k]) /\ Script[t][j].name \in DOMAIN Net(t) =>
                      /\ Script[t][k].name \in DOMAIN Net(t)
                      /\ Net(t)[Script[t][j].name] = Below(Net(t)[Script[t][k].name])

AtWork(mode) == run.mode = mode /\ run.status \in {"running", "done"}
Behind(j) == Running => j < Reached
Traced(j) == Running => (j < Reached /\ ~(j = run.pc /\ run.phase = "saved"))

Vouched(t, s) == s.name \in DOMAIN Net(t) /\ Agrees(t, s)
VouchInv ==
    /\ AtWork("CHECK") \/ (AtWork("LIVE") /\ run.force) => run.task \in Focus
    /\ AtWork("CHECK") => \A t \in Focus : \A j \in Steps(t) :
         t = run.task /\ Deploys(Script[t][j]) /\ Behind(j) =>
            Vouched(t, Script[t][j]) /\ Traceable(Net(t)[Script[t][j].name])
    /\ (AtWork("LIVE") /\ run.force) => \A t \in Focus : \A j \in Steps(t) :
         t = run.task /\ Deploys(Script[t][j]) /\ Script[t][j].op # "deployUnforced" =>
            /\ Behind(j) => Vouched(t, Script[t][j])
            /\ Traced(j) /\ site.network \in VERIFIED_NETWORKS => Traceable(Net(t)[Script[t][j].name])

Unsettled == IF Running /\ run.phase \in {"deployed", "saved"} THEN {run.address} ELSE {}
LossInv == Cardinality(Lost \ Unsettled) <= crashes

Had(t, j) ==
    IF \/ Script[t][j].name \in DOMAIN Net(t)
       \/ Running /\ run.mode = "LIVE" /\ run.task = t /\ run.phase = "deployed" /\ run.pc = j
    THEN 1 ELSE 0
Pending(t, j) ==
    IF /\ Running /\ run.mode = "LIVE" /\ run.force /\ run.task = t
       /\ run.pc < j \/ (run.pc = j /\ run.phase = "call")
    THEN 1 ELSE 0
NeedInv ==
    \A t \in Focus : \A j \in Steps(t) : Deploys(Script[t][j]) =>
        Cardinality(CreatedAs(t, Script[t][j].name)) + Pending(t, j) <= crashes + forced + Had(t, j)

DeploymentsInv == FilesOK /\ RunningOK /\ UnforcedInv /\ VouchInv /\ LossInv /\ NeedInv

------------------------------------------------------------------------------
(* What every action does to the run.                                      *)

RunWith(pc, phase, env, address, fork) ==
    [task |-> run.task, mode |-> run.mode, force |-> run.force, status |-> "running", pc |-> pc,
     phase |-> phase, input |-> run.input, env |-> env, address |-> address, fork |-> fork]

MovesOn(env) ==
    IF run.pc < Len(Script[run.task])
    THEN run' = RunWith(run.pc + 1, "call", env, Undefined, run.fork)
    ELSE run' = Finish("done")
Stays(phase, env, address, fork) == run' = RunWith(run.pc, phase, env, address, fork)
Ends == run' = Finish("failed")

Same == UNCHANGED <<site, chain, out, txs, saved, crashes, forced>>

LEMMA RunForms ==
  ASSUME RunOK, Running, NEW e
  PROVE  /\ run = RunWith(run.pc, run.phase, run.env, run.address, run.fork)
         /\ [run EXCEPT !.env = e] = RunWith(run.pc, run.phase, e, run.address, run.fork)
<1>1. run = RunWith(run.pc, run.phase, run.env, run.address, run.fork)
  BY DEF RunOK, RunWith, Running
<1>2. [RunWith(run.pc, run.phase, run.env, run.address, run.fork) EXCEPT !.env = e]
        = RunWith(run.pc, run.phase, e, run.address, run.fork)
  BY DEF RunWith
<1> QED BY <1>1, <1>2

LEMMA RunFields ==
  ASSUME NEW c, NEW p, NEW e, NEW a, NEW f
  PROVE  /\ RunWith(c, p, e, a, f).task = run.task
         /\ RunWith(c, p, e, a, f).mode = run.mode
         /\ RunWith(c, p, e, a, f).force = run.force
         /\ RunWith(c, p, e, a, f).status = "running"
         /\ RunWith(c, p, e, a, f).pc = c
         /\ RunWith(c, p, e, a, f).phase = p
         /\ RunWith(c, p, e, a, f).input = run.input
         /\ RunWith(c, p, e, a, f).env = e
         /\ RunWith(c, p, e, a, f).address = a
         /\ RunWith(c, p, e, a, f).fork = f
BY DEF RunWith

LEMMA AdvanceForm ==
  ASSUME NEW c, NEW p, NEW e, NEW a, NEW f
  PROVE  Advance(RunWith(c, p, e, a, f)) =
           IF c < Len(Script[run.task]) THEN RunWith(c + 1, "call", e, Undefined, f)
           ELSE Finish("done")
<1> DEFINE r == RunWith(c, p, e, a, f)
<1>1. r.pc = c /\ r.task = run.task  BY RunFields
<1>2. [r EXCEPT !.pc = @ + 1, !.phase = "call", !.address = Undefined]
        = RunWith(c + 1, "call", e, Undefined, f)
  <2>1. [r EXCEPT !.pc = @ + 1] = RunWith(c + 1, p, e, a, f)  BY DEF RunWith
  <2>2. [RunWith(c + 1, p, e, a, f) EXCEPT !.phase = "call"] = RunWith(c + 1, "call", e, a, f)
    BY DEF RunWith
  <2>3. [RunWith(c + 1, "call", e, a, f) EXCEPT !.address = Undefined]
          = RunWith(c + 1, "call", e, Undefined, f)
    BY DEF RunWith
  <2> QED BY <2>1, <2>2, <2>3
<1> HIDE DEF r
<1>3. Advance(r) = IF c < Len(Script[run.task]) THEN RunWith(c + 1, "call", e, Undefined, f)
                   ELSE Finish("done")
  BY <1>1, <1>2 DEF Advance
<1> QED BY <1>3 DEF r

LEMMA AfterDeployForm ==
  ASSUME NEW c, NEW p, NEW e, NEW a, NEW f
  PROVE  AfterDeploy(RunWith(c, p, e, a, f)) =
           IF Current.op = "deployAndVerify" /\ run.mode = "LIVE" THEN RunWith(c, "verify", e, a, f)
           ELSE Advance(RunWith(c, p, e, a, f))
<1> DEFINE r == RunWith(c, p, e, a, f)
<1>1. r.mode = run.mode  BY RunFields
<1>2. [r EXCEPT !.phase = "verify"] = RunWith(c, "verify", e, a, f)  BY DEF RunWith
<1> HIDE DEF r
<1>3. AfterDeploy(r) = IF Current.op = "deployAndVerify" /\ run.mode = "LIVE"
                       THEN RunWith(c, "verify", e, a, f) ELSE Advance(r)
  BY <1>1, <1>2 DEF AfterDeploy
<1> QED BY <1>3 DEF r

LEMMA UseRecordedForm ==
  ASSUME RunOK, UseRecorded
  PROVE  /\ Same /\ Running /\ run.phase = "call" /\ Deploying /\ run.mode \in {"LIVE", "TEST"} /\ MayKeep
         /\ LET a == out[run.task][ReadFile][Current.name]
                e == With(run.env, Current.name, a)
            IN  (run.mode = "LIVE" /\ Stays("verify", e, a, run.fork)) \/ MovesOn(e)
<1> DEFINE a == out[run.task][ReadFile][Current.name]
           e == With(run.env, Current.name, a)
           r == RunWith(run.pc, run.phase, e, a, run.fork)
<1>1. Running /\ run' = AfterDeploy([Learn(run, Current.name, a) EXCEPT !.address = a])
  BY DEF UseRecorded, OnCall
<1>2. Learn(run, Current.name, a) = RunWith(run.pc, run.phase, e, run.address, run.fork)
  BY <1>1, RunForms DEF Learn
<1>3. [RunWith(run.pc, run.phase, e, run.address, run.fork) EXCEPT !.address = a] = r
  BY DEF RunWith
<1>4. run' = AfterDeploy(r)  BY <1>1, <1>2, <1>3
<1>5. AfterDeploy(r) = IF Current.op = "deployAndVerify" /\ run.mode = "LIVE"
                       THEN RunWith(run.pc, "verify", e, a, run.fork) ELSE Advance(r)
  BY AfterDeployForm
<1>6. Advance(r) = IF run.pc < Len(Script[run.task]) THEN RunWith(run.pc + 1, "call", e, Undefined, run.fork)
                   ELSE Finish("done")
  BY AdvanceForm
<1>7. (run.mode = "LIVE" /\ Stays("verify", e, a, run.fork)) \/ MovesOn(e)
  <2> HIDE DEF e, a, r
  <2> QED BY <1>4, <1>5, <1>6 DEF Stays, MovesOn
<1> QED BY <1>7 DEF UseRecorded, OnCall, Kept, Same

LEMMA SendDeploymentForm ==
  ASSUME RunOK, SendDeployment
  PROVE  /\ UNCHANGED <<site, out, txs, saved, crashes, forced>>
         /\ Running /\ run.phase = "call" /\ Deploying /\ run.mode \in {"LIVE", "TEST"} /\ ~MayKeep
         /\ \/ Ends /\ UNCHANGED chain
            \/ /\ run.mode = "LIVE" /\ Supplied(Args)
               /\ chain' = chain \o Created("live", run.task, Current.name, Args)
               /\ Stays("deployed", run.env, <<"live", Len(chain) + 1>>, run.fork)
            \/ /\ run.mode = "TEST" /\ UNCHANGED chain
               /\ \E i, f : Stays("deployed", run.env, <<"fork", i>>, f)
<1>1. /\ UNCHANGED <<site, out, txs, saved, crashes, forced>>
      /\ Running /\ run.phase = "call" /\ Deploying /\ run.mode \in {"LIVE", "TEST"} /\ ~MayKeep
  BY DEF SendDeployment, OnCall, Kept, Fail
<1>2. CASE \E i \in DOMAIN Args : Args[i] = Undefined
  BY <1>1, <1>2 DEF SendDeployment, Fail, Ends
<1>3. CASE ~ \E i \in DOMAIN Args : Args[i] = Undefined
  <2> DEFINE new == Created(Place, run.task, Current.name, Args)
             a == <<Place, Len(On(Place)) + 1>>
             r == [run EXCEPT !.phase = "deployed", !.address = a]
  <2>1. /\ chain' = IF Place = "live" THEN chain \o new ELSE chain
        /\ run' = IF Place = "fork" THEN [r EXCEPT !.fork = @ \o new] ELSE r
    BY <1>3 DEF SendDeployment
  <2>2. r = RunWith(run.pc, "deployed", run.env, a, run.fork)
    <3>1. run = RunWith(run.pc, run.phase, run.env, run.address, run.fork)  BY <1>1, RunForms
    <3>2. [RunWith(run.pc, run.phase, run.env, run.address, run.fork) EXCEPT !.phase = "deployed"]
            = RunWith(run.pc, "deployed", run.env, run.address, run.fork)
      BY DEF RunWith
    <3>3. [RunWith(run.pc, "deployed", run.env, run.address, run.fork) EXCEPT !.address = a]
            = RunWith(run.pc, "deployed", run.env, a, run.fork)
      BY DEF RunWith
    <3> QED BY <3>1, <3>2, <3>3
  <2>3. CASE run.mode = "LIVE"
    <3>1. Place = "live" /\ On("live") = chain  BY <2>3 DEF Place, On
    <3>2. run' = r /\ chain' = chain \o new
      <4> HIDE DEF r, new
      <4> QED BY <2>1, <3>1
    <3>3. Supplied(Args)  BY <1>3 DEF Supplied
    <3> QED BY <1>1, <2>2, <2>3, <3>1, <3>2, <3>3 DEF Stays
  <2>4. CASE run.mode = "TEST"
    <3>1. Place = "fork"  BY <2>4 DEF Place
    <3>2. run' = [r EXCEPT !.fork = @ \o new] /\ chain' = chain
      <4> HIDE DEF r, new
      <4> QED BY <2>1, <3>1
    <3>3. PICK f : f = r.fork \o new  OBVIOUS
    <3>4. run' = [RunWith(run.pc, "deployed", run.env, a, run.fork) EXCEPT !.fork = f]
      BY <2>2, <3>2, <3>3
    <3>5. run' = RunWith(run.pc, "deployed", run.env, a, f)
      BY <3>4 DEF RunWith
    <3>6. PICK i : i = Len(On(Place)) + 1  OBVIOUS
    <3>7. Stays("deployed", run.env, <<"fork", i>>, f)  BY <3>1, <3>5, <3>6 DEF Stays
    <3> QED BY <1>1, <2>4, <3>2, <3>7
  <2> QED BY <1>1, <2>3, <2>4
<1> QED BY <1>2, <1>3

LEMMA RecordAddressForm ==
  ASSUME RunOK, RecordAddress
  PROVE  /\ UNCHANGED <<site, chain, txs, crashes, forced>>
         /\ Running /\ run.phase = "deployed"
         /\ out' = [out EXCEPT ![run.task][SaveFile] = With(@, Current.name, run.address)]
         /\ LET e == With(run.env, Current.name, run.address)
            IN  IF run.mode = "LIVE"
                THEN saved' = saved \cup {run.address} /\ Stays("saved", e, run.address, run.fork)
                ELSE UNCHANGED saved /\ MovesOn(e)
<1> DEFINE e == With(run.env, Current.name, run.address)
           r == RunWith(run.pc, run.phase, e, run.address, run.fork)
<1>1. /\ UNCHANGED <<site, chain, txs, crashes, forced>>
      /\ Running /\ run.phase = "deployed"
      /\ out' = [out EXCEPT ![run.task][SaveFile] = With(@, Current.name, run.address)]
      /\ saved' = IF run.mode = "LIVE" THEN saved \cup {run.address} ELSE saved
  BY DEF RecordAddress, Kept, Save1
<1>2. Learn(run, Current.name, run.address) = r  BY <1>1, RunForms DEF Learn
<1>3. run' = IF run.mode = "LIVE" THEN [r EXCEPT !.phase = "saved"] ELSE AfterDeploy(r)
  BY <1>2 DEF RecordAddress
<1>4. [r EXCEPT !.phase = "saved"] = RunWith(run.pc, "saved", e, run.address, run.fork)
  BY DEF RunWith
<1>5. AfterDeploy(r) = IF Current.op = "deployAndVerify" /\ run.mode = "LIVE"
                       THEN RunWith(run.pc, "verify", e, run.address, run.fork) ELSE Advance(r)
  BY AfterDeployForm
<1>6. Advance(r) = IF run.pc < Len(Script[run.task]) THEN RunWith(run.pc + 1, "call", e, Undefined, run.fork)
                   ELSE Finish("done")
  BY AdvanceForm
<1>7. IF run.mode = "LIVE" THEN Stays("saved", e, run.address, run.fork) ELSE MovesOn(e)
  <2> HIDE DEF e, r
  <2> QED BY <1>3, <1>4, <1>5, <1>6 DEF Stays, MovesOn
<1> QED BY <1>1, <1>7

LEMMA SaveHashForm ==
  ASSUME RunOK, saveContractDeploymentTransactionHash
  PROVE  /\ UNCHANGED <<site, chain, out, saved, crashes, forced>>
         /\ Running /\ run.phase = "saved"
         /\ txs' = IF site.network \in VERIFIED_NETWORKS THEN txs \cup {run.address} ELSE txs
         /\ (run.mode = "LIVE" /\ Stays("verify", run.env, run.address, run.fork)) \/ MovesOn(run.env)
<1> DEFINE r == RunWith(run.pc, run.phase, run.env, run.address, run.fork)
<1>1. /\ UNCHANGED <<site, chain, out, saved, crashes, forced>>
      /\ Running /\ run.phase = "saved" /\ run' = AfterDeploy(run)
      /\ txs' = IF site.network \in VERIFIED_NETWORKS THEN txs \cup {run.address} ELSE txs
  BY DEF saveContractDeploymentTransactionHash, Kept
<1>2. run' = AfterDeploy(r)  BY <1>1, RunForms
<1>3. AfterDeploy(r) = IF Current.op = "deployAndVerify" /\ run.mode = "LIVE"
                       THEN RunWith(run.pc, "verify", run.env, run.address, run.fork) ELSE Advance(r)
  BY AfterDeployForm
<1>4. Advance(r) = IF run.pc < Len(Script[run.task])
                   THEN RunWith(run.pc + 1, "call", run.env, Undefined, run.fork) ELSE Finish("done")
  BY AdvanceForm
<1>5. (run.mode = "LIVE" /\ Stays("verify", run.env, run.address, run.fork)) \/ MovesOn(run.env)
  <2> HIDE DEF r
  <2> QED BY <1>2, <1>3, <1>4 DEF Stays, MovesOn
<1> QED BY <1>1, <1>5

\* A step that is over.
LEMMA AdvanceRun ==
  ASSUME RunOK, Running, run' = Advance(run)
  PROVE  MovesOn(run.env)
<1>1. run' = Advance(RunWith(run.pc, run.phase, run.env, run.address, run.fork))  BY RunForms
<1> QED BY <1>1, AdvanceForm DEF MovesOn

LEMMA AdvanceLearning ==
  ASSUME RunOK, Running, NEW name, NEW a, run' = Advance(Learn(run, name, a))
  PROVE  MovesOn(With(run.env, name, a))
<1>1. Learn(run, name, a)
        = RunWith(run.pc, run.phase, With(run.env, name, a), run.address, run.fork)
  BY RunForms DEF Learn
<1> QED BY <1>1, AdvanceForm DEF MovesOn

LEMMA VerifyForm ==
  ASSUME RunOK, VerifyContract
  PROVE  /\ Same /\ Running /\ MovesOn(run.env)
         /\ run.phase = "verify" \/ (run.phase = "call" /\ Current.op = "verify")
<1>1. Running /\ run' = Advance(run)  BY DEF VerifyContract
<1> QED BY <1>1, AdvanceRun DEF VerifyContract, OnCall, Kept, Same

LEMMA CheckForm ==
  ASSUME RunOK, CheckDeployment
  PROVE  /\ Same /\ Running /\ run.phase = "call" /\ Deploying /\ run.mode = "CHECK"
         /\ LET a == Recorded(run.task, Current.name)
            IN  \/ Ends
                \/ /\ a \in txs /\ Contract(a) = deploymentTxData(run.task, Current.name, Args)
                   /\ MovesOn(With(run.env, Current.name, a))
<1> DEFINE a == Recorded(run.task, Current.name)
<1>1. Same /\ Running /\ run.phase = "call" /\ Deploying /\ run.mode = "CHECK"
  BY DEF CheckDeployment, OnCall, Kept, Same, Fail
<1>2. \/ Ends
      \/ /\ a \in txs /\ Contract(a) = deploymentTxData(run.task, Current.name, Args)
         /\ run' = Advance(Learn(run, Current.name, a))
  BY DEF CheckDeployment, Fail, Ends
<1> HIDE DEF a
<1>3. run' = Advance(Learn(run, Current.name, a)) => MovesOn(With(run.env, Current.name, a))
  BY <1>1, AdvanceLearning
<1> QED BY <1>1, <1>2, <1>3 DEF a

LEMMA ReadForm ==
  ASSUME RunOK, ReadContract
  PROVE  /\ Same /\ Running /\ run.phase = "call" /\ Current.op = "read"
         /\ \/ Ends
            \/ /\ Exists(Args[1]) /\ Exists(Below(Args[1]))
               /\ MovesOn(With(run.env, Current.name, Below(Args[1])))
<1> DEFINE a == Below(Args[1])
<1>1. Same /\ Running /\ run.phase = "call" /\ Current.op = "read"
  BY DEF ReadContract, OnCall, Kept, Same, Fail
<1>2. \/ Ends
      \/ Exists(Args[1]) /\ Exists(a) /\ run' = Advance(Learn(run, Current.name, a))
  BY DEF ReadContract, Fail, Ends, Below
<1> HIDE DEF a
<1>3. run' = Advance(Learn(run, Current.name, a)) => MovesOn(With(run.env, Current.name, a))
  BY <1>1, AdvanceLearning
<1> QED BY <1>1, <1>2, <1>3 DEF a

LEMMA SaveForm ==
  ASSUME RunOK, SaveContract
  PROVE  /\ UNCHANGED <<site, chain, txs, saved, crashes, forced>>
         /\ Running /\ run.phase = "call" /\ Current.op = "save" /\ MovesOn(run.env)
         /\ out' = [out EXCEPT ![run.task][SaveFile] = With(@, Current.name, run.env[Current.name])]
<1>1. Running /\ run' = Advance(run)  BY DEF SaveContract, OnCall
<1> QED BY <1>1, AdvanceRun DEF SaveContract, OnCall, Kept, Save1

LEMMA RequireForm ==
  ASSUME RunOK, RequireNetwork
  PROVE  /\ Same /\ Running /\ run.phase = "call" /\ Current.op = "onlyOn"
         /\ Ends \/ MovesOn(run.env)
<1>1. /\ Same /\ Running /\ run.phase = "call" /\ Current.op = "onlyOn"
      /\ Ends \/ run' = Advance(run)
  BY DEF RequireNetwork, OnCall, Kept, Same, Fail, Ends
<1> QED BY <1>1, AdvanceRun

------------------------------------------------------------------------------
(* What is recorded, and the arguments that follow from it.                *)

SameNet == DOMAIN out' = DOMAIN out /\ \A u \in DOMAIN out : Net(u)' = Net(u)
Written(t, m, a) ==
    /\ DOMAIN out' = DOMAIN out /\ Net(t)' = With(Net(t), m, a)
    /\ \A u \in DOMAIN out : u # t => Net(u)' = Net(u)
Grows ==
    /\ DOMAIN out' = DOMAIN out
    /\ \A u \in DOMAIN out : \A n \in DOMAIN Net(u) : n \in DOMAIN Net(u)' /\ Net(u)'[n] = Net(u)[n]

Shaped == out = [t \in DOMAIN out |-> [f \in Files |-> out[t][f]]]

LEMMA WithIs ==
  ASSUME NEW output, NEW n, NEW a
  PROVE  /\ DOMAIN With(output, n, a) = DOMAIN output \cup {n}
         /\ With(output, n, a)[n] = a
         /\ \A m \in DOMAIN output : m # n => With(output, n, a)[m] = output[m]
BY DEF With

LEMMA WriteOut ==
  ASSUME Shaped, NEW t \in DOMAIN out, NEW f \in Files, NEW n, NEW a,
         out' = [out EXCEPT ![t][f] = With(@, n, a)]
  PROVE  /\ Shaped'
         /\ f = "network" => Written(t, n, a)
         /\ f = "test" => SameNet
<1> DEFINE new == With(out[t][f], n, a)
           o == [u \in DOMAIN out |-> [g \in Files |-> IF u = t /\ g = f THEN new ELSE out[u][g]]]
<1>1. out' = o
  <2>1. [out EXCEPT ![t][f] = With(@, n, a)] = [out EXCEPT ![t] = [out[t] EXCEPT ![f] = new]]
    OBVIOUS
  <2> HIDE DEF new
  <2>2. out[t] = [g \in Files |-> out[t][g]]  BY DEF Shaped
  <2>3. [out[t] EXCEPT ![f] = new] = [g \in Files |-> IF g = f THEN new ELSE out[t][g]]
    BY <2>2
  <2>4. [out EXCEPT ![t] = [out[t] EXCEPT ![f] = new]] = o
    <3>1. PICK x : x = [g \in Files |-> IF g = f THEN new ELSE out[t][g]]  OBVIOUS
    <3>2. [out EXCEPT ![t] = x] = [u \in DOMAIN out |-> IF u = t THEN x ELSE out[u]]
      BY DEF Shaped
    <3>3. \A u \in DOMAIN out : out[u] = [g \in Files |-> out[u][g]]  BY DEF Shaped
    <3>4. \A u \in DOMAIN out :
            (IF u = t THEN x ELSE out[u]) = [g \in Files |-> IF u = t /\ g = f THEN new ELSE out[u][g]]
      BY <3>1, <3>3
    <3> QED BY <2>3, <3>1, <3>2, <3>4
  <2> QED BY <2>1, <2>4
<1> HIDE DEF new
<1>2. DOMAIN out' = DOMAIN out  BY <1>1
<1>3. \A u \in DOMAIN out : \A g \in Files :
        out'[u][g] = IF u = t /\ g = f THEN new ELSE out[u][g]
  BY <1>1
<1>4. Shaped'
  BY <1>1 DEF Shaped
<1>5. "network" \in Files /\ "test" \in Files  BY DEF Files
<1>6. f = "network" => Written(t, n, a)
  BY <1>2, <1>3, <1>5 DEF Written, Net, new
<1>7. f = "test" => SameNet
  BY <1>2, <1>3, <1>5 DEF SameNet, Net
<1> QED BY <1>4, <1>6, <1>7

LEMMA WrittenGrows ==
  ASSUME NEW t \in DOMAIN out, NEW m, NEW a, Written(t, m, a),
         m \in DOMAIN Net(t) => Net(t)[m] = a
  PROVE  Grows
<1>1. ASSUME NEW u \in DOMAIN out, NEW n \in DOMAIN Net(u)
      PROVE  n \in DOMAIN Net(u)' /\ Net(u)'[n] = Net(u)[n]
  <2>1. CASE u = t
    <3>1. Net(u)' = With(Net(t), m, a)  BY <2>1 DEF Written
    <3>2. n \in DOMAIN Net(t)  BY <2>1
    <3>3. n \in DOMAIN With(Net(t), m, a) /\ With(Net(t), m, a)[n] = Net(t)[n]
      BY <3>2 DEF With
    <3> QED BY <2>1, <3>1, <3>3
  <2>2. CASE u # t  BY <2>2 DEF Written
  <2> QED BY <2>1, <2>2
<1> QED BY <1>1 DEF Written, Grows

\* Sites and their tasks.
LEMMA FocusTasks ==
  ASSUME FilesOK, NEW t \in Focus
  PROVE  /\ t \in TaskIds /\ t \in DOMAIN out
         /\ WellScripted(Script[t]) /\ Reader(t, TaskInput[t])
<1>1. site.focus \in Seq(TaskIds)  BY SitesAssumption DEF FilesOK
<1>2. t \in TaskIds  BY <1>1 DEF Focus, Range
<1> QED BY <1>2, ScriptsWellScripted, NoTaskReadsItself DEF FilesOK

\* The entry that an input comes from.
EntryOf(t, k) == CHOOSE e \in EntriesOn(t, site.network) : e.key = k
InputOf(t, k) ==
    IF EntryOf(t, k).kind = "value" THEN <<"value", k>>
    ELSE Recorded(EntryOf(t, k).task, EntryOf(t, k).output)
Keys(t) == {e.key : e \in EntriesOn(t, site.network)}

LEMMA ParsedIs == \A t : ParsedInput(t) = [k \in Keys(t) |-> InputOf(t, k)]
BY DEF ParsedInput, Keys, InputOf, EntryOf

LEMMA EntryIs ==
  ASSUME FilesOK, NEW t \in Focus, NEW k \in Keys(t)
  PROVE  /\ EntryOf(t, k) \in TaskInput[t]
         /\ EntryOf(t, k).kind # "value" => EntryOf(t, k).task \in DOMAIN out /\ EntryOf(t, k).task # t
<1>1. \E e \in EntriesOn(t, site.network) : e.key = k  BY DEF Keys
<1>2. EntryOf(t, k) \in EntriesOn(t, site.network)  BY <1>1 DEF EntryOf
<1>3. EntryOf(t, k) \in TaskInput[t]  BY <1>2 DEF EntriesOn
<1> QED BY <1>2, <1>3, FocusTasks DEF FilesOK, Reader

\* Nothing but other tasks' outputs matters to the inputs.
LEMMA ParsedKept ==
  ASSUME FilesOK, site' = site, NEW t \in Focus,
         \A u \in DOMAIN out : u # t => Net(u)' = Net(u)
  PROVE  ParsedInput(t)' = ParsedInput(t)
<1>1. Keys(t)' = Keys(t)  BY DEF Keys, EntriesOn
<1>2. \A k : EntryOf(t, k)' = EntryOf(t, k)  BY DEF EntryOf, EntriesOn
<1>3. ASSUME NEW k \in Keys(t) PROVE InputOf(t, k)' = InputOf(t, k)
  BY <1>2, <1>3, EntryIs DEF InputOf, Recorded, Net
<1>4. ParsedInput(t)' = [k \in Keys(t)' |-> InputOf(t, k)']
  BY DEF ParsedInput, Keys, InputOf, EntryOf
<1> QED BY <1>1, <1>3, <1>4, ParsedIs

\* The arguments of a step that no change of its own task's outputs concerns.
Names(t, s, m) == \E i \in DOMAIN s.args : s.args[i][1] # "input" /\ s.args[i][2] = m

LEMMA ArgumentsAre ==
  \A t, s : /\ DOMAIN ArgumentsNow(t, s) = DOMAIN s.args
            /\ \A i \in DOMAIN s.args :
                  ArgumentsNow(t, s)[i] = Argument(s.args[i], ParsedInput(t), Net(t))
BY DEF ArgumentsNow, Arguments, RecordedNow, Net

LEMMA ArgumentsKept ==
  ASSUME NEW t, NEW s, ParsedInput(t)' = ParsedInput(t),
         \A i \in DOMAIN s.args : s.args[i][1] # "input" =>
            /\ s.args[i][2] \in DOMAIN Net(t)' <=> s.args[i][2] \in DOMAIN Net(t)
            /\ s.args[i][2] \in DOMAIN Net(t) => Net(t)'[s.args[i][2]] = Net(t)[s.args[i][2]]
  PROVE  ArgumentsNow(t, s)' = ArgumentsNow(t, s)
<1>1. ArgumentsNow(t, s)' = [i \in DOMAIN s.args |-> Argument(s.args[i], ParsedInput(t)', Net(t)')]
  BY DEF ArgumentsNow, Arguments, RecordedNow, Net
<1>2. ArgumentsNow(t, s) = [i \in DOMAIN s.args |-> Argument(s.args[i], ParsedInput(t), Net(t))]
  BY DEF ArgumentsNow, Arguments, RecordedNow, Net
<1>3. ASSUME NEW i \in DOMAIN s.args
      PROVE  Argument(s.args[i], ParsedInput(t)', Net(t)') = Argument(s.args[i], ParsedInput(t), Net(t))
  <2>1. CASE s.args[i][1] = "input"  BY <2>1 DEF Argument
  <2>2. CASE s.args[i][1] # "input"  BY <2>2 DEF Argument
  <2> QED BY <2>1, <2>2
<1> QED BY <1>1, <1>2, <1>3

LEMMA ArgumentsSame ==
  ASSUME FilesOK, site' = site, SameNet, NEW t \in Focus, NEW s
  PROVE  ParsedInput(t)' = ParsedInput(t) /\ ArgumentsNow(t, s)' = ArgumentsNow(t, s)
<1>1. ParsedInput(t)' = ParsedInput(t)  BY ParsedKept DEF SameNet
<1>2. Net(t)' = Net(t)  BY FocusTasks DEF SameNet
<1> QED BY <1>1, <1>2, ArgumentsKept

LEMMA ArgumentsWritten ==
  ASSUME FilesOK, site' = site, NEW t \in Focus, NEW m, NEW a, Written(t, m, a), NEW s, ~Names(t, s, m)
  PROVE  ParsedInput(t)' = ParsedInput(t) /\ ArgumentsNow(t, s)' = ArgumentsNow(t, s)
<1>1. ParsedInput(t)' = ParsedInput(t)  BY ParsedKept DEF Written
<1>2. ASSUME NEW i \in DOMAIN s.args, s.args[i][1] # "input"
      PROVE  /\ s.args[i][2] \in DOMAIN Net(t)' <=> s.args[i][2] \in DOMAIN Net(t)
             /\ s.args[i][2] \in DOMAIN Net(t) => Net(t)'[s.args[i][2]] = Net(t)[s.args[i][2]]
  <2>1. s.args[i][2] # m  BY <1>2 DEF Names
  <2>2. Net(t)' = With(Net(t), m, a)  BY DEF Written
  <2> QED BY <2>1, <2>2 DEF With
<1> QED BY <1>1, <1>2, ArgumentsKept

\* Arguments that were all there stay as long as nothing recorded is replaced.
LEMMA ArgumentsStay ==
  ASSUME FilesOK, site' = site, Grows, NEW t \in Focus, NEW s, Supplied(ArgumentsNow(t, s))
  PROVE  ArgumentsNow(t, s)' = ArgumentsNow(t, s)
<1>1. ArgumentsNow(t, s)' = [i \in DOMAIN s.args |-> Argument(s.args[i], ParsedInput(t)', Net(t)')]
  BY DEF ArgumentsNow, Arguments, RecordedNow, Net
<1>2. ArgumentsNow(t, s) = [i \in DOMAIN s.args |-> Argument(s.args[i], ParsedInput(t), Net(t))]
  BY DEF ArgumentsNow, Arguments, RecordedNow, Net
<1>3. ASSUME NEW k \in Keys(t), InputOf(t, k) # Undefined PROVE InputOf(t, k)' = InputOf(t, k)
  <2>1. EntryOf(t, k)' = EntryOf(t, k)  BY DEF EntryOf, EntriesOn
  <2>2. CASE EntryOf(t, k).kind = "value"  BY <2>1, <2>2 DEF InputOf
  <2>3. CASE EntryOf(t, k).kind # "value"
    <3>1. PICK e : e = EntryOf(t, k)  OBVIOUS
    <3>2. e.task \in DOMAIN out  BY <2>3, <3>1, EntryIs
    <3>3. Recorded(e.task, e.output) # Undefined  BY <1>3, <2>3, <3>1 DEF InputOf
    <3>4. e.output \in DOMAIN Net(e.task) /\ Recorded(e.task, e.output) = Net(e.task)[e.output]
      BY <3>3 DEF Recorded, Net
    <3>5. e.output \in DOMAIN Net(e.task)' /\ Net(e.task)'[e.output] = Net(e.task)[e.output]
      BY <3>2, <3>4 DEF Grows
    <3>6. Recorded(e.task, e.output)' = Recorded(e.task, e.output)
      BY <3>4, <3>5 DEF Recorded, Net
    <3> QED BY <2>1, <2>3, <3>1, <3>6 DEF InputOf
  <2> QED BY <2>2, <2>3
<1>4. Keys(t)' = Keys(t)  BY DEF Keys, EntriesOn
<1>5. ParsedInput(t)' = [k \in Keys(t)' |-> InputOf(t, k)']  BY DEF ParsedInput, Keys, InputOf, EntryOf
<1>6. ASSUME NEW i \in DOMAIN s.args
      PROVE  Argument(s.args[i], ParsedInput(t)', Net(t)') = Argument(s.args[i], ParsedInput(t), Net(t))
  <2>1. Argument(s.args[i], ParsedInput(t), Net(t)) # Undefined
    BY <1>2 DEF Supplied
  <2>2. CASE s.args[i][1] = "input"
    <3>1. s.args[i][2] \in DOMAIN ParsedInput(t) /\ ParsedInput(t)[s.args[i][2]] # Undefined
      BY <2>1, <2>2 DEF Argument
    <3>2. PICK k : k = s.args[i][2]  OBVIOUS
    <3>3. k \in Keys(t) /\ InputOf(t, k) # Undefined /\ ParsedInput(t)[k] = InputOf(t, k)
      BY <3>1, <3>2, ParsedIs
    <3>4. k \in DOMAIN ParsedInput(t)' /\ ParsedInput(t)'[k] = InputOf(t, k)'
      BY <1>4, <1>5, <3>3
    <3> QED BY <1>3, <2>2, <3>1, <3>2, <3>3, <3>4 DEF Argument
  <2>3. CASE s.args[i][1] # "input"
    <3>1. s.args[i][2] \in DOMAIN Net(t)  BY <2>1, <2>3 DEF Argument
    <3>2. t \in DOMAIN out  BY FocusTasks
    <3>3. s.args[i][2] \in DOMAIN Net(t)' /\ Net(t)'[s.args[i][2]] = Net(t)[s.args[i][2]]
      BY <3>1, <3>2 DEF Grows
    <3> QED BY <2>3, <3>1, <3>3 DEF Argument
  <2> QED BY <2>2, <2>3
<1> QED BY <1>1, <1>2, <1>6

------------------------------------------------------------------------------
(* The chain.                                                              *)

Extends ==
    /\ chain' \in Seq(Range(chain')) /\ Len(chain) <= Len(chain')
    /\ \A i \in DOMAIN chain : chain'[i] = chain[i]

LEMMA ContractAt ==
  ASSUME NEW i PROVE Contract(<<"live", i>>) = chain[i]
BY DEF Contract, On

LEMMA ContractThen ==
  ASSUME NEW i PROVE Contract(<<"live", i>>)' = chain'[i]
BY DEF Contract, On

LEMMA ChainIs ==
  ASSUME chain \in Seq(Range(chain))
  PROVE  Len(chain) \in Nat /\ DOMAIN chain = 1..Len(chain)
BY LenProperties

LEMMA ExtendsKeeps ==
  ASSUME chain \in Seq(Range(chain)), Extends, NEW a, IsLive(a)
  PROVE  IsLive(a)' /\ Contract(a)' = Contract(a)
<1>1. PICK i \in DOMAIN chain : a = <<"live", i>>  BY DEF IsLive, Deployed
<1>2. i \in DOMAIN chain'
  <2>1. Len(chain) \in Nat /\ DOMAIN chain = 1..Len(chain)  BY ChainIs
  <2>2. Len(chain') \in Nat /\ DOMAIN chain' = 1..Len(chain')  BY LenProperties DEF Extends
  <2> QED BY <1>1, <2>1, <2>2 DEF Extends
<1>3. IsLive(a)'  BY <1>1, <1>2 DEF IsLive, Deployed
<1>4. Contract(a) = chain[i] /\ Contract(a)' = chain'[i]  BY <1>1, ContractAt, ContractThen
<1> QED BY <1>1, <1>3, <1>4 DEF Extends

LEMMA ChainKept ==
  ASSUME chain \in Seq(Range(chain)), UNCHANGED chain
  PROVE  Extends
BY ChainIs DEF Extends, Range

LEMMA InOwnRange ==
  ASSUME NEW S, NEW s \in Seq(S)
  PROVE  s \in Seq(Range(s)) /\ Len(s) \in Nat /\ DOMAIN s = 1..Len(s)
<1>1. Len(s) \in Nat /\ DOMAIN s = 1..Len(s) /\ s \in [1..Len(s) -> S]  BY LenProperties
<1>2. s \in [1..Len(s) -> Range(s)]  BY <1>1 DEF Range
<1> QED BY <1>1, <1>2, SeqDef

\* The first of the contracts created together is the one deployed; no task deployed the others.
LEMMA CreatedIs ==
  ASSUME NEW place, NEW t, NEW n, NEW args
  PROVE  LET new == Created(place, t, n, args)
         IN  /\ new \in Seq(Range(new)) /\ Len(new) >= 1
             /\ new[1] = deploymentTxData(t, n, args)
             /\ \A i \in 2..Len(new) : new[i].task = NoTask
<1> DEFINE And(s, c) == IF c = NoChild THEN s ELSE Append(s, deploymentTxData(NoTask, c.name, c.args))
           Family(s) == /\ s \in Seq(Range(s)) /\ Len(s) >= 1
                        /\ s[1] = deploymentTxData(t, n, args)
                        /\ \A i \in 2..Len(s) : s[i].task = NoTask
<1>1. ASSUME NEW s, Family(s), NEW c PROVE Family(And(s, c))
  <2>1. CASE c = NoChild  BY <1>1, <2>1
  <2>2. CASE c # NoChild
    <3>1. PICK d : d = deploymentTxData(NoTask, c.name, c.args)  OBVIOUS
    <3>2. d.task = NoTask  BY <3>1 DEF deploymentTxData
    <3>3. PICK S : S = Range(s) \cup {d}  OBVIOUS
    <3>4. s \in Seq(S) /\ d \in S  BY <1>1, <3>3, SeqMonotonic
    <3>5. Append(s, d) \in Seq(S) /\ Len(Append(s, d)) = Len(s) + 1
          /\ (\A i \in 1..Len(s) : Append(s, d)[i] = s[i]) /\ Append(s, d)[Len(s) + 1] = d
      BY <3>4, AppendProperties
    <3>6. Len(s) \in Nat  BY <3>4, LenProperties
    <3>7. Append(s, d) \in Seq(Range(Append(s, d)))  BY <3>5, InOwnRange
    <3>8. Append(s, d)[1] = deploymentTxData(t, n, args)  BY <1>1, <3>5, <3>6
    <3>9. \A i \in 2..Len(Append(s, d)) : Append(s, d)[i].task = NoTask
      BY <1>1, <3>2, <3>5, <3>6
    <3>10. And(s, c) = Append(s, d)  BY <2>2, <3>1
    <3>11. Len(Append(s, d)) >= 1  BY <3>5, <3>6
    <3> QED BY <3>7, <3>8, <3>9, <3>10, <3>11
  <2> QED BY <2>1, <2>2
<1>2. PICK one : one = Append(<<>>, deploymentTxData(t, n, args))  OBVIOUS
<1>3. Family(one)
  <2>1. PICK d : d = deploymentTxData(t, n, args)  OBVIOUS
  <2>2. one = <<d>>  BY <1>2, <2>1
  <2>3. <<d>> \in Seq({d}) /\ Len(<<d>>) = 1 /\ <<d>>[1] = d  OBVIOUS
  <2>4. one \in Seq(Range(one))  BY <2>2, <2>3, InOwnRange
  <2> QED BY <2>1, <2>2, <2>3, <2>4
<1>4. \E c, d : Created(place, t, n, args) = And(And(one, c), d)
  BY <1>2 DEF Created, NoTask
<1> HIDE DEF And, Family
<1>5. Family(Created(place, t, n, args))  BY <1>1, <1>3, <1>4
<1> QED BY <1>5 DEF Family

\* A deployment on the live network adds one contract of a task.
Adds(contract) ==
    /\ Extends
    /\ Len(chain) + 1 \in DOMAIN chain' /\ chain'[Len(chain) + 1] = contract
    /\ \A i \in DOMAIN chain' : i \in DOMAIN chain \/ i = Len(chain) + 1 \/ chain'[i].task = NoTask

LEMMA Deployment ==
  ASSUME chain \in Seq(Range(chain)), NEW t, NEW n, NEW args,
         chain' = chain \o Created("live", t, n, args)
  PROVE  Adds(deploymentTxData(t, n, args))
<1>1. PICK new : new = Created("live", t, n, args)  OBVIOUS
<1>2. /\ new \in Seq(Range(new)) /\ Len(new) >= 1
      /\ new[1] = deploymentTxData(t, n, args)
      /\ \A i \in 2..Len(new) : new[i].task = NoTask
  BY <1>1, CreatedIs
<1>3. PICK S : S = Range(chain) \cup Range(new)  OBVIOUS
<1>4. chain \in Seq(S) /\ new \in Seq(S)  BY <1>2, <1>3, SeqMonotonic
<1>5. /\ Len(chain) \in Nat /\ DOMAIN chain = 1..Len(chain)
      /\ Len(new) \in Nat /\ DOMAIN new = 1..Len(new)
  BY <1>4, LenProperties
<1>6. /\ chain' \in Seq(S) /\ Len(chain') = Len(chain) + Len(new)
      /\ \A i \in 1..(Len(chain) + Len(new)) :
            chain'[i] = IF i <= Len(chain) THEN chain[i] ELSE new[i - Len(chain)]
  BY <1>1, <1>4, ConcatProperties
<1>7. chain' \in Seq(Range(chain')) /\ DOMAIN chain' = 1..Len(chain')  BY <1>6, InOwnRange
<1>8. Extends  BY <1>2, <1>5, <1>6, <1>7 DEF Extends
<1>9. Len(chain) + 1 \in DOMAIN chain' /\ chain'[Len(chain) + 1] = new[1]
  BY <1>2, <1>5, <1>6, <1>7
<1>10. ASSUME NEW i \in DOMAIN chain', i \notin DOMAIN chain, i # Len(chain) + 1
       PROVE  chain'[i].task = NoTask
  <2>1. i - Len(chain) \in 2..Len(new) /\ chain'[i] = new[i - Len(chain)]
    BY <1>5, <1>6, <1>7, <1>10
  <2> QED BY <1>2, <2>1
<1> QED BY <1>2, <1>8, <1>9, <1>10 DEF Adds

LEMMA DeployedFinite ==
  ASSUME chain \in Seq(Range(chain))
  PROVE  IsFiniteSet(Deployed)
<1>1. PICK f : f = [i \in DOMAIN chain |-> <<"live", i>>]  OBVIOUS
<1>2. f \in Surjection(DOMAIN chain, Deployed)  BY <1>1 DEF Surjection, Deployed
<1>3. IsFiniteSet(DOMAIN chain)  BY ChainIs, FS_Interval
<1> QED BY <1>2, <1>3, FS_Surjection

------------------------------------------------------------------------------
(* What a run knows, step by step.                                         *)

LEMMA KnowsDeployed ==
  ASSUME NEW q, WellScripted(q), NEW env, NEW c \in DOMAIN q, NEW net, NEW live,
         Knows(q, env, c, net, live), Deploys(q[c]),
         NEW a \in live, q[c].name \in DOMAIN net, net[q[c].name] = a
  PROVE  Knows(q, With(env, q[c].name, a), c + 1, net, live)
<1> HIDE DEF Deploys
<1>0. PICK e : e = With(env, q[c].name, a)  OBVIOUS
<1>1. /\ DOMAIN e = DOMAIN env \cup {q[c].name} /\ e[q[c].name] = a
      /\ \A m \in DOMAIN env : m # q[c].name => e[m] = env[m]
  BY <1>0 DEF With
<1>2. DOMAIN q \subseteq Nat /\ c \in Nat  BY DEF WellScripted
<1>3. \A j \in DOMAIN q : j < c + 1 => j < c \/ j = c  BY <1>2
<1>4. \A j \in DOMAIN q : j < c /\ Holds(q[j]) => q[j].name # q[c].name /\ e[q[j].name] = env[q[j].name]
  <2>1. Holds(q[c])  BY DEF Holds
  <2> QED BY <1>1, <1>2, <2>1 DEF WellScripted, Knows
<1>5. \A j \in DOMAIN q : Deploys(q[j]) => Holds(q[j]) /\ q[j].op # "read"  BY DEF Deploys, Holds
<1>6. \A j \in DOMAIN q : q[j].op = "read" => Holds(q[j])  BY DEF Holds
<1> HIDE DEF Holds, WellScripted
<1>7. \A n \in DOMAIN e : e[n] \in live  BY <1>1 DEF Knows
<1>8. \A j \in DOMAIN q : j < c + 1 /\ Holds(q[j]) => q[j].name \in DOMAIN e
  BY <1>1, <1>3 DEF Knows
<1>9. \A j \in DOMAIN q : j < c + 1 /\ Deploys(q[j]) =>
          q[j].name \in DOMAIN net /\ net[q[j].name] = e[q[j].name]
  BY <1>1, <1>3, <1>4, <1>5 DEF Knows
<1>10. \A j, k \in DOMAIN q : j < c + 1 /\ Reads1(q, j, k) /\ Holds(q[k]) =>
          e[q[j].name] = Below(e[q[k].name])
  <2> SUFFICES ASSUME NEW j \in DOMAIN q, NEW k \in DOMAIN q, j < c + 1, Reads1(q, j, k), Holds(q[k])
               PROVE  e[q[j].name] = Below(e[q[k].name])
    OBVIOUS
  <2>1. j # c /\ j < c /\ k < j /\ k < c  BY <1>2, <1>3, <1>5 DEF Reads1
  <2>2. Holds(q[j])  BY <1>6 DEF Reads1
  <2>3. e[q[j].name] = env[q[j].name] /\ e[q[k].name] = env[q[k].name]  BY <1>4, <2>1, <2>2
  <2>4. env[q[j].name] = Below(env[q[k].name])  BY <2>1 DEF Knows
  <2> QED BY <2>3, <2>4
<1>11. Knows(q, e, c + 1, net, live)  BY <1>7, <1>8, <1>9, <1>10 DEF Knows
<1> QED BY <1>0, <1>11

LEMMA KnowsRead ==
  ASSUME NEW q, WellScripted(q), NEW env, NEW c \in DOMAIN q, NEW net, NEW live,
         Knows(q, env, c, net, live), q[c].op = "read",
         NEW k \in DOMAIN q, k < c, Holds(q[k]), q[c].args = <<At(q[k].name)>>,
         NEW a \in live, a = Below(env[q[k].name])
  PROVE  Knows(q, With(env, q[c].name, a), c + 1, net, live)
<1> HIDE DEF Deploys
<1>0. PICK e : e = With(env, q[c].name, a)  OBVIOUS
<1>1. /\ DOMAIN e = DOMAIN env \cup {q[c].name} /\ e[q[c].name] = a
      /\ \A m \in DOMAIN env : m # q[c].name => e[m] = env[m]
  BY <1>0 DEF With
<1>2. DOMAIN q \subseteq Nat /\ c \in Nat  BY DEF WellScripted
<1>3. \A j \in DOMAIN q : j < c + 1 => j < c \/ j = c  BY <1>2
<1>a. Holds(q[c])  BY DEF Holds
<1>4. \A j \in DOMAIN q : j < c /\ Holds(q[j]) => q[j].name # q[c].name /\ e[q[j].name] = env[q[j].name]
  BY <1>1, <1>2, <1>a DEF WellScripted, Knows
<1>5. \A j \in DOMAIN q : Deploys(q[j]) => Holds(q[j]) /\ q[j].op # "read"  BY DEF Deploys, Holds
<1>6. \A j \in DOMAIN q : q[j].op = "read" => Holds(q[j])  BY DEF Holds
<1>b. \A i, j \in DOMAIN q : Holds(q[i]) /\ Holds(q[j]) /\ q[i].name = q[j].name => i = j
  BY DEF WellScripted
<1> HIDE DEF Holds, WellScripted
<1>7. \A n \in DOMAIN e : e[n] \in live  BY <1>1 DEF Knows
<1>8. \A j \in DOMAIN q : j < c + 1 /\ Holds(q[j]) => q[j].name \in DOMAIN e
  BY <1>1, <1>3 DEF Knows
<1>9. \A j \in DOMAIN q : j < c + 1 /\ Deploys(q[j]) =>
          q[j].name \in DOMAIN net /\ net[q[j].name] = e[q[j].name]
  BY <1>1, <1>3, <1>4, <1>5 DEF Knows
<1>10. \A j, i \in DOMAIN q : j < c + 1 /\ Reads1(q, j, i) /\ Holds(q[i]) =>
          e[q[j].name] = Below(e[q[i].name])
  <2> SUFFICES ASSUME NEW j \in DOMAIN q, NEW i \in DOMAIN q, j < c + 1, Reads1(q, j, i), Holds(q[i])
               PROVE  e[q[j].name] = Below(e[q[i].name])
    OBVIOUS
  <2>1. i < j /\ i < c  BY <1>2, <1>3 DEF Reads1
  <2>2. Holds(q[j])  BY <1>6 DEF Reads1
  <2>3. e[q[i].name] = env[q[i].name]  BY <1>4, <2>1
  <2>4. CASE j < c
    <3>1. e[q[j].name] = env[q[j].name]  BY <1>4, <2>2, <2>4
    <3>2. env[q[j].name] = Below(env[q[i].name])  BY <2>4 DEF Knows
    <3> QED BY <2>3, <3>1, <3>2
  <2>5. CASE j = c
    <3>1. q[i].name = q[k].name  BY <2>5 DEF Reads1, At
    <3>2. e[q[j].name] = a  BY <1>1, <2>5
    <3> QED BY <2>3, <3>1, <3>2
  <2> QED BY <1>3, <2>4, <2>5
<1>11. Knows(q, e, c + 1, net, live)  BY <1>7, <1>8, <1>9, <1>10 DEF Knows
<1> QED BY <1>0, <1>11

LEMMA KnowsOn ==
  ASSUME NEW q, WellScripted(q), NEW env, NEW c \in DOMAIN q, NEW net, NEW live,
         Knows(q, env, c, net, live), ~Holds(q[c])
  PROVE  Knows(q, env, c + 1, net, live)
<1> HIDE DEF Deploys
<1>1. DOMAIN q \subseteq Nat /\ c \in Nat  BY DEF WellScripted
<1>2. \A j \in DOMAIN q : j < c + 1 => j < c \/ j = c  BY <1>1
<1>3. ~Deploys(q[c]) /\ q[c].op # "read"  BY DEF Holds
<1> HIDE DEF Holds
<1> QED BY <1>2, <1>3 DEF Knows, Reads1

\* It stays true while what is recorded of the contracts deployed, and the chain, are kept.
LEMMA KnowsKept ==
  ASSUME NEW q, NEW env, NEW c, NEW net, NEW live, NEW net2, NEW live2,
         Knows(q, env, c, net, live), live \subseteq live2,
         \A j \in DOMAIN q : j < c /\ Deploys(q[j]) /\ q[j].name \in DOMAIN net =>
             q[j].name \in DOMAIN net2 /\ net2[q[j].name] = net[q[j].name]
  PROVE  Knows(q, env, c, net2, live2)
<1> HIDE DEF Deploys, Holds
<1> QED BY DEF Knows

------------------------------------------------------------------------------
(* The run after a step.                                                   *)

LEMMA HeldOnce ==
  ASSUME NEW q, WellScripted(q), NEW i \in DOMAIN q, NEW j \in DOMAIN q,
         Holds(q[i]), Holds(q[j]), q[i].name = q[j].name
  PROVE  i = j
<1> HIDE DEF Holds
<1> QED BY DEF WellScripted

LEMMA ArgumentPassed ==
  ASSUME NEW q, WellScripted(q), NEW c \in DOMAIN q, Deploys(q[c]), NEW i \in DOMAIN q[c].args
  PROVE  \/ q[c].args[i][1] = "input"
         \/ q[c].args[i][1] = "instance" /\ \E j \in 1..(c - 1) : Deploys(q[j]) /\ q[c].args[i][2] = q[j].name
<1> HIDE DEF Deploys, Holds
<1> QED BY DEF WellScripted, Passes

LEMMA ScriptLength ==
  ASSUME FilesOK, RunOK
  PROVE  /\ WellScripted(Script[run.task]) /\ run.task \in DOMAIN out
         /\ Len(Script[run.task]) \in Nat /\ Steps(run.task) = 1..Len(Script[run.task])
         /\ run.pc \in 1..Len(Script[run.task])
BY FocusTasks DEF RunOK, WellScripted, Steps

LEMMA AfterMovesOn ==
  ASSUME FilesOK, RunOK, NEW env, MovesOn(env)
  PROVE  /\ run'.task = run.task /\ run'.mode = run.mode /\ run'.force = run.force
         /\ \/ /\ run' = RunWith(run.pc + 1, "call", env, Undefined, run.fork)
               /\ Running' /\ run'.pc = run.pc + 1 /\ run'.pc \in Steps(run.task) /\ run'.phase = "call"
               /\ run'.input = run.input /\ run'.env = env /\ run'.address = Undefined
            \/ ~Running' /\ run'.status = "done" /\ run.pc = Len(Script[run.task])
         /\ \A j \in Steps(run.task) : (Behind(j)' <=> j <= run.pc) /\ (Traced(j)' <=> j <= run.pc)
         /\ Unsettled' = {}
<1>0. Len(Script[run.task]) \in Nat /\ Steps(run.task) = 1..Len(Script[run.task])
      /\ run.pc \in 1..Len(Script[run.task])
  BY ScriptLength
<1>1. CASE run.pc < Len(Script[run.task])
  <2>1. run' = RunWith(run.pc + 1, "call", env, Undefined, run.fork)  BY <1>1 DEF MovesOn
  <2>2. /\ run'.task = run.task /\ run'.mode = run.mode /\ run'.force = run.force
        /\ run'.status = "running" /\ run'.pc = run.pc + 1 /\ run'.phase = "call"
        /\ run'.input = run.input /\ run'.env = env /\ run'.address = Undefined
    BY <2>1 DEF RunWith
  <2>3. Running' /\ run'.pc \in Steps(run.task)  BY <1>0, <1>1, <2>2 DEF Running
  <2>4. Reached' = run.pc + 1  BY <2>2 DEF Reached
  <2>5. \A j \in Steps(run.task) : (Behind(j)' <=> j <= run.pc) /\ (Traced(j)' <=> j <= run.pc)
    BY <1>0, <2>2, <2>3, <2>4 DEF Behind, Traced
  <2>6. Unsettled' = {}  BY <2>2 DEF Unsettled
  <2> QED BY <2>1, <2>2, <2>3, <2>5, <2>6
<1>2. CASE ~(run.pc < Len(Script[run.task]))
  <2>1. run' = Finish("done")  BY <1>2 DEF MovesOn
  <2>2. /\ run'.task = run.task /\ run'.mode = run.mode /\ run'.force = run.force
        /\ run'.status = "done"
    BY <2>1 DEF Finish, Ended
  <2>3. ~Running' /\ run.pc = Len(Script[run.task])  BY <1>0, <1>2, <2>2 DEF Running
  <2>4. \A j \in Steps(run.task) : (Behind(j)' <=> j <= run.pc) /\ (Traced(j)' <=> j <= run.pc)
    BY <1>0, <2>3 DEF Behind, Traced
  <2>5. Unsettled' = {}  BY <2>3 DEF Unsettled
  <2> QED BY <2>2, <2>3, <2>4, <2>5
<1> QED BY <1>1, <1>2

LEMMA AfterStays ==
  ASSUME NEW phase, NEW env, NEW a, NEW f, Stays(phase, env, a, f)
  PROVE  /\ run' = RunWith(run.pc, phase, env, a, f)
         /\ run'.task = run.task /\ run'.mode = run.mode /\ run'.force = run.force /\ Running'
         /\ run'.pc = run.pc /\ run'.phase = phase /\ run'.input = run.input /\ run'.env = env
         /\ run'.address = a /\ Current' = Current
<1>1. run' = RunWith(run.pc, phase, env, a, f)  BY DEF Stays
<1>2. /\ run'.task = run.task /\ run'.mode = run.mode /\ run'.force = run.force
      /\ run'.status = "running" /\ run'.pc = run.pc /\ run'.phase = phase
      /\ run'.input = run.input /\ run'.env = env /\ run'.address = a
  BY <1>1 DEF RunWith
<1> QED BY <1>1, <1>2 DEF Running, Current

LEMMA AfterEnds ==
  ASSUME Ends
  PROVE  ~Running' /\ run'.status = "failed" /\ Unsettled' = {}
<1>1. run'.status = "failed"  BY DEF Ends, Finish, Ended
<1> QED BY <1>1 DEF Running, Unsettled

\* The run is well formed as long as its task's inputs are.
LEMMA RunStaysOK ==
  ASSUME FilesOK, RunOK, site' = site, forced' = forced,
         NEW t \in Focus, t = run.task, ParsedInput(t)' = ParsedInput(t),
         NEW c \in Steps(t), NEW p, NEW e, NEW a, NEW f, run' = RunWith(c, p, e, a, f)
  PROVE  RunOK'
<1>1. /\ run'.task = t /\ run'.mode = run.mode /\ run'.force = run.force
      /\ run'.status = "running" /\ run'.pc = c /\ run'.phase = p
      /\ run'.input = run.input /\ run'.env = e /\ run'.address = a /\ run'.fork = f
  BY RunFields
<1>2. run' = [task |-> run'.task, mode |-> run'.mode, force |-> run'.force, status |-> run'.status,
              pc |-> run'.pc, phase |-> run'.phase, input |-> run'.input, env |-> run'.env,
              address |-> run'.address, fork |-> run'.fork]
  BY <1>1 DEF RunWith
<1>3. Focus' = Focus  BY DEF Focus
<1>4. run.input = ParsedInput(t)  BY DEF RunOK
<1>5. \A u \in Focus' : u = run'.task => run'.input = ParsedInput(u)'  BY <1>1, <1>4
<1>6. /\ run'.task \in Focus' /\ run'.mode \in {"LIVE", "TEST", "CHECK"} /\ run'.force \in BOOLEAN
      /\ run'.force => forced' > 0
      /\ run'.pc \in DOMAIN Script[run'.task]
  BY <1>1, <1>3 DEF RunOK, Steps
<1> QED BY <1>2, <1>5, <1>6 DEF RunOK, Steps

\* A step that is over leaves a run in order, if what it learnt is so.
LEMMA MovesOnOK ==
  ASSUME FilesOK, RunOK, site' = site, forced' = forced,
         NEW t \in Focus, t = run.task, ParsedInput(t)' = ParsedInput(t),
         NEW env, MovesOn(env),
         run.mode # "TEST" => Knows(Script[t], env, run.pc + 1, Net(t)', Deployed')
  PROVE  RunningOK'
<1>1. CASE ~Running'  BY <1>1 DEF RunningOK
<1>2. CASE Running'
  <2>1. /\ run' = RunWith(run.pc + 1, "call", env, Undefined, run.fork)
        /\ run'.pc = run.pc + 1 /\ run'.pc \in Steps(run.task) /\ run'.phase = "call"
        /\ run'.env = env /\ run'.address = Undefined /\ run'.task = run.task /\ run'.mode = run.mode
    BY <1>2, AfterMovesOn
  <2>2. RunOK'
    <3>1. PICK c \in Steps(t) : c = run.pc + 1  BY <2>1
    <3>2. run' = RunWith(c, "call", env, Undefined, run.fork)  BY <2>1, <3>1
    <3> QED BY <3>2, RunStaysOK
  <2>3. PhaseOK' /\ CreatedOK'  BY <2>1 DEF PhaseOK, CreatedOK
  <2>4. Reached' = run.pc + 1  BY <2>1 DEF Reached
  <2>5. Net(run.task)' = Net(t)'  BY <2>1 DEF Net
  <2>6. EnvOK'  BY <2>1, <2>4, <2>5 DEF EnvOK
  <2> QED BY <2>2, <2>3, <2>6 DEF RunningOK
<1> QED BY <1>1, <1>2

------------------------------------------------------------------------------
(* What a step leaves alone.                                               *)

LEMMA AgreesNow ==
  ASSUME NEW t, NEW s, Agrees(t, s), s.name \in DOMAIN Net(t)
  PROVE  Contract(Net(t)[s.name]) = deploymentTxData(t, s.name, ArgumentsNow(t, s))
BY DEF Agrees, RecordedNow, Net

LEMMA AgreesThen ==
  ASSUME NEW t, NEW s, NEW a, Net(t)'[s.name] = a,
         Contract(a)' = deploymentTxData(t, s.name, ArgumentsNow(t, s)')
  PROVE  Agrees(t, s)'
<1>1. Contract(a)' = Contract(Net(t)[s.name])'  BY DEF Contract, On, Net
<1> QED BY <1>1 DEF Agrees, RecordedNow, Net

LEMMA AgreesKept ==
  ASSUME FilesOK, Extends, NEW t \in Focus, NEW s, s.name \in DOMAIN Net(t), Agrees(t, s),
         Net(t)'[s.name] = Net(t)[s.name], ArgumentsNow(t, s)' = ArgumentsNow(t, s)
  PROVE  Agrees(t, s)'
<1>1. PICK a : a = Net(t)[s.name]  OBVIOUS
<1>2. IsLive(a)  BY <1>1 DEF FilesOK
<1>3. Contract(a)' = Contract(a)  BY <1>2, ExtendsKeeps DEF FilesOK
<1>4. Contract(a) = deploymentTxData(t, s.name, ArgumentsNow(t, s))  BY <1>1, AgreesNow
<1> QED BY <1>1, <1>3, <1>4, AgreesThen

LEMMA AgreesSame ==
  ASSUME FilesOK, site' = site, Extends, SameNet, NEW t \in Focus, NEW s
  PROVE  /\ Net(t)' = Net(t)
         /\ Agrees(t, s) => Agrees(t, s)'
         /\ Vouched(t, s) => Vouched(t, s)'
         /\ Supplied(ArgumentsNow(t, s)) => Supplied(ArgumentsNow(t, s)')
<1>1. t \in DOMAIN out /\ Net(t)' = Net(t)  BY FocusTasks DEF SameNet
<1>2. ArgumentsNow(t, s)' = ArgumentsNow(t, s)  BY ArgumentsSame
<1>3. Agrees(t, s) => Agrees(t, s)'
  <2>1. CASE s.name \in DOMAIN Net(t)  BY <1>1, <1>2, <2>1, AgreesKept
  <2>2. CASE s.name \notin DOMAIN Net(t)  BY <1>1, <2>2 DEF Agrees, RecordedNow, Net
  <2> QED BY <2>1, <2>2
<1> QED BY <1>1, <1>2, <1>3 DEF Vouched

\* The files and the chain.
LEMMA FilesKept ==
  ASSUME FilesOK, site' = site, Extends, Shaped', SameNet,
         Undefined \notin txs', crashes' \in Nat, forced' \in Nat
  PROVE  FilesOK'
<1>1. Focus' = Focus  BY DEF Focus
<1>2. Focus' \subseteq DOMAIN out' /\ \A t \in Focus' : \A e \in EntriesOn(t, site'.network) :
          e.kind # "value" => e.task \in DOMAIN out'
  BY <1>1 DEF FilesOK, SameNet
<1>3. ASSUME NEW t \in Focus', NEW n \in DOMAIN Net(t)' PROVE IsLive(Net(t)[n])'
  <2>1. Net(t)' = Net(t) /\ t \in Focus  BY <1>1, FocusTasks DEF SameNet
  <2>2. PICK a : a = Net(t)[n]  OBVIOUS
  <2>3. IsLive(a)  BY <2>1, <2>2 DEF FilesOK
  <2>4. IsLive(a)'  BY <2>3, ExtendsKeeps DEF FilesOK
  <2> QED BY <2>1, <2>2, <2>4 DEF IsLive
<1> QED BY <1>1, <1>2, <1>3 DEF FilesOK, Extends, Shaped, EntriesOn

LEMMA FilesWritten ==
  ASSUME FilesOK, site' = site, UNCHANGED chain, Shaped', NEW t \in Focus, NEW m, NEW a,
         Written(t, m, a), IsLive(a),
         Undefined \notin txs', crashes' \in Nat, forced' \in Nat
  PROVE  FilesOK'
<1>1. Focus' = Focus  BY DEF Focus
<1>2. Focus' \subseteq DOMAIN out' /\ \A u \in Focus' : \A e \in EntriesOn(u, site'.network) :
          e.kind # "value" => e.task \in DOMAIN out'
  BY <1>1 DEF FilesOK, Written
<1>3. ASSUME NEW u \in Focus', NEW n \in DOMAIN Net(u)' PROVE IsLive(Net(u)[n])'
  <2>1. u \in Focus /\ u \in DOMAIN out  BY <1>1, FocusTasks
  <2>2. Deployed' = Deployed  BY DEF Deployed
  <2>3. CASE u = t
    <3>1. Net(u)' = With(Net(t), m, a)  BY <2>3 DEF Written
    <3>2. CASE n = m  BY <2>2, <3>1, <3>2 DEF With, IsLive
    <3>3. CASE n # m
      <4>1. n \in DOMAIN Net(t) /\ Net(u)'[n] = Net(t)[n]  BY <3>1, <3>3 DEF With
      <4> QED BY <2>2, <4>1 DEF FilesOK, IsLive
    <3> QED BY <3>2, <3>3
  <2>4. CASE u # t
    <3>1. Net(u)' = Net(u)  BY <2>1, <2>4 DEF Written
    <3> QED BY <2>1, <2>2, <3>1 DEF FilesOK, IsLive
  <2> QED BY <2>3, <2>4
<1> QED BY <1>1, <1>2, <1>3, ChainKept DEF FilesOK, Extends, Shaped, EntriesOn

\* Nothing recorded, nothing replaced.
LEMMA UnforcedKept ==
  ASSUME FilesOK, UnforcedInv, site' = site, Extends, SameNet, forced' = 0 => forced = 0
  PROVE  UnforcedInv'
<1> SUFFICES ASSUME forced' = 0, NEW t \in Focus
             PROVE  /\ \A j \in Steps(t) : Deploys(Script[t][j]) /\ Script[t][j].name \in DOMAIN Net(t)' =>
                          Agrees(t, Script[t][j])' /\ Supplied(ArgumentsNow(t, Script[t][j])')
                    /\ \A j, k \in Steps(t) :
                          Reads1(Script[t], j, k) /\ Deploys(Script[t][k]) /\ Script[t][j].name \in DOMAIN Net(t)' =>
                              /\ Script[t][k].name \in DOMAIN Net(t)'
                              /\ Net(t)'[Script[t][j].name] = Below(Net(t)'[Script[t][k].name])
  <2>1. Focus' = Focus  BY DEF Focus
  <2> QED BY <2>1 DEF UnforcedInv, Steps, Supplied
<1>1. Net(t)' = Net(t)  BY FocusTasks DEF SameNet
<1>2. forced = 0  OBVIOUS
<1> HIDE DEF Deploys
<1> QED BY <1>1, <1>2, AgreesSame DEF UnforcedInv

\* Vouching for a step: what was, and what becomes known of the step that is over.
LEMMA VouchStep ==
  ASSUME FilesOK, RunOK, Running, VouchInv, site' = site, Extends, SameNet, txs \subseteq txs',
         NEW t \in Focus, t = run.task,
         run'.task = t, run'.mode = run.mode, run'.force = run.force,
         \A j \in Steps(t) : run.mode = "CHECK" /\ Deploys(Script[t][j]) /\ Behind(j)' =>
             Behind(j) \/ (Vouched(t, Script[t][j]) /\ Traceable(Net(t)[Script[t][j].name])),
         \A j \in Steps(t) :
             run.mode = "LIVE" /\ run.force /\ Deploys(Script[t][j]) /\ Script[t][j].op # "deployUnforced" =>
                 /\ Behind(j)' => Behind(j) \/ Vouched(t, Script[t][j])
                 /\ Traced(j)' => Traced(j) \/ Net(t)[Script[t][j].name] \in txs'
                                  \/ site.network \notin VERIFIED_NETWORKS
  PROVE  VouchInv'
<1> HIDE DEF Deploys
<1>1. Focus' = Focus  BY DEF Focus
<1>2. \A m : AtWork(m)' => AtWork(m)  BY DEF AtWork, Running
<1>3. \A s : Vouched(t, s) => Vouched(t, s)'  BY AgreesSame
<1>4. Net(t)' = Net(t)  BY FocusTasks DEF SameNet
<1>5. \A a : Traceable(a) => a \in txs'  BY DEF Traceable
<1>6. ASSUME AtWork("CHECK")', NEW j \in Steps(t), Deploys(Script[t][j]), Behind(j)'
      PROVE  Vouched(t, Script[t][j])' /\ Net(t)'[Script[t][j].name] \in txs'
  <2>1. run.mode = "CHECK" /\ AtWork("CHECK")  BY <1>2, <1>6 DEF AtWork
  <2>2. Vouched(t, Script[t][j]) /\ Traceable(Net(t)[Script[t][j].name])
    BY <1>6, <2>1 DEF VouchInv
  <2> QED BY <1>3, <1>4, <1>5, <2>2
<1>7. ASSUME AtWork("LIVE")', run'.force, NEW j \in Steps(t), Deploys(Script[t][j]),
             Script[t][j].op # "deployUnforced"
      PROVE  /\ Behind(j)' => Vouched(t, Script[t][j])'
             /\ Traced(j)' /\ site'.network \in VERIFIED_NETWORKS => Net(t)'[Script[t][j].name] \in txs'
  <2>1. run.mode = "LIVE" /\ run.force /\ AtWork("LIVE")  BY <1>2, <1>7 DEF AtWork
  <2>2. /\ Behind(j)' => Vouched(t, Script[t][j])
        /\ Traced(j)' /\ site.network \in VERIFIED_NETWORKS => Net(t)[Script[t][j].name] \in txs'
    BY <1>5, <1>7, <2>1 DEF VouchInv
  <2> QED BY <1>3, <1>4, <2>2
<1>8. run'.task \in Focus'  BY <1>1
<1>9. \A u \in Focus' : u = run'.task => u = t  OBVIOUS
<1> HIDE DEF Behind, Traced, Vouched
<1> QED BY <1>1, <1>6, <1>7, <1>8, <1>9 DEF VouchInv, Steps, Traceable, Net

LEMMA VouchEnds ==
  ASSUME run'.status = "failed"
  PROVE  VouchInv'
BY DEF VouchInv, AtWork

\* Contracts lost.
LEMMA LostIs ==
  /\ Lost = {a \in Deployed : chain[a[2]].task \in Focus
                              /\ (a \notin saved \/ (site.network \in VERIFIED_NETWORKS /\ a \notin txs))}
  /\ Lost' = {a \in Deployed' : chain'[a[2]].task \in Focus'
                                /\ (a \notin saved' \/ (site'.network \in VERIFIED_NETWORKS /\ a \notin txs'))}
BY DEF Lost, TopLevel, Traceable, Contract, On, Deployed

LEMMA LostFinite ==
  ASSUME FilesOK
  PROVE  /\ IsFiniteSet(Lost) /\ Cardinality(Lost) \in Nat
         /\ \A S : S \subseteq Lost => IsFiniteSet(S) /\ Cardinality(S) \in Nat
<1>1. IsFiniteSet(Deployed)  BY DeployedFinite DEF FilesOK
<1>2. Lost \subseteq Deployed  BY DEF Lost
<1>3. IsFiniteSet(Lost)  BY <1>1, <1>2, FS_Subset
<1> QED BY <1>3, FS_Subset, FS_CardinalityType

LEMMA LostShrinks ==
  ASSUME FilesOK, site' = site, Extends, saved \subseteq saved', txs \subseteq txs', NEW a \in Lost'
  PROVE  /\ a \notin saved' \/ (site.network \in VERIFIED_NETWORKS /\ a \notin txs')
         /\ a \in Lost \/ \E i \in DOMAIN chain' \ DOMAIN chain : a = <<"live", i>> /\ chain'[i].task \in Focus
<1>1. PICK i \in DOMAIN chain' : a = <<"live", i>>  BY DEF Lost, Deployed
<1>2. a[2] = i  BY <1>1
<1>3. chain'[i].task \in Focus /\ (a \notin saved' \/ (site.network \in VERIFIED_NETWORKS /\ a \notin txs'))
  BY <1>2, LostIs DEF Focus
<1>4. CASE i \in DOMAIN chain
  <2>1. a \in Deployed /\ chain'[i] = chain[i]  BY <1>1, <1>4 DEF Deployed, Extends
  <2>2. a \in Lost  BY <1>2, <1>3, <2>1, LostIs
  <2> QED BY <1>3, <2>2
<1> QED BY <1>1, <1>3, <1>4

LEMMA LossKept ==
  ASSUME FilesOK, LossInv, crashes' = crashes, Lost' \ Unsettled' \subseteq Lost \ Unsettled
  PROVE  LossInv'
<1>1. IsFiniteSet(Lost \ Unsettled) /\ Cardinality(Lost \ Unsettled) \in Nat  BY LostFinite
<1>2. Cardinality(Lost' \ Unsettled') <= Cardinality(Lost \ Unsettled)
      /\ IsFiniteSet(Lost' \ Unsettled')
  BY <1>1, FS_Subset
<1>3. Cardinality(Lost' \ Unsettled') \in Nat  BY <1>2, FS_CardinalityType
<1>4. Cardinality(Lost' \ Unsettled') <= crashes'  BY <1>1, <1>2, <1>3 DEF LossInv, FilesOK
<1> QED BY <1>4 DEF LossInv

\* Contracts created, and the reasons for them.
LEMMA CreatedAsIs ==
  ASSUME NEW t, NEW n
  PROVE  /\ CreatedAs(t, n) = {a \in Deployed : chain[a[2]].task = t /\ chain[a[2]].name = n}
         /\ CreatedAs(t, n)' = {a \in Deployed' : chain'[a[2]].task = t /\ chain'[a[2]].name = n}
BY DEF CreatedAs, Contract, On, Deployed

LEMMA Numbers ==
  ASSUME FilesOK, NEW t, NEW n, NEW j
  PROVE  /\ IsFiniteSet(CreatedAs(t, n)) /\ Cardinality(CreatedAs(t, n)) \in Nat
         /\ crashes \in Nat /\ forced \in Nat
         /\ Had(t, j) \in {0, 1} /\ Pending(t, j) \in {0, 1} /\ Had(t, j)' \in {0, 1} /\ Pending(t, j)' \in {0, 1}
<1>1. IsFiniteSet(Deployed)  BY DeployedFinite DEF FilesOK
<1>2. CreatedAs(t, n) \subseteq Deployed  BY DEF CreatedAs
<1>3. IsFiniteSet(CreatedAs(t, n))  BY <1>1, <1>2, FS_Subset
<1>4. Had(t, j) \in {0, 1} /\ Pending(t, j) \in {0, 1} /\ Had(t, j)' \in {0, 1} /\ Pending(t, j)' \in {0, 1}
  BY DEF Had, Pending
<1> QED BY <1>3, <1>4, FS_CardinalityType DEF FilesOK

LEMMA NeedKept ==
  ASSUME FilesOK, NeedInv, site' = site, UNCHANGED <<chain, crashes, forced>>,
         \A t \in Focus : \A j \in Steps(t) : Deploys(Script[t][j]) =>
             Pending(t, j)' <= Pending(t, j) /\ Had(t, j) <= Had(t, j)'
  PROVE  NeedInv'
<1> HIDE DEF Deploys
<1> SUFFICES ASSUME NEW t \in Focus, NEW j \in Steps(t), Deploys(Script[t][j])
             PROVE  Cardinality(CreatedAs(t, Script[t][j].name)') + Pending(t, j)' <= crashes' + forced' + Had(t, j)'
  <2>1. Focus' = Focus  BY DEF Focus
  <2> QED BY <2>1 DEF NeedInv, Steps
<1>1. PICK n : n = Script[t][j].name  OBVIOUS
<1>2. CreatedAs(t, n)' = CreatedAs(t, n)
  <2>1. Deployed' = Deployed  BY DEF Deployed
  <2>2. CreatedAs(t, n) = {a \in Deployed : chain[a[2]].task = t /\ chain[a[2]].name = n}  BY CreatedAsIs
  <2>3. CreatedAs(t, n)' = {a \in Deployed' : chain'[a[2]].task = t /\ chain'[a[2]].name = n}  BY CreatedAsIs
  <2> QED BY <2>1, <2>2, <2>3
<1>3. Cardinality(CreatedAs(t, n)) + Pending(t, j) <= crashes + forced + Had(t, j)  BY <1>1 DEF NeedInv
<1>4. Cardinality(CreatedAs(t, n)) + Pending(t, j)' <= crashes + forced + Had(t, j)'
  BY <1>3, Numbers
<1> QED BY <1>1, <1>2, <1>4

LEMMA PendingMoves ==
  ASSUME FilesOK, RunOK, Running, NEW env, MovesOn(env), NEW u, NEW j \in Nat
  PROVE  Pending(u, j)' <= Pending(u, j)
<1>1. CASE Running'
  <2>1. /\ run'.task = run.task /\ run'.mode = run.mode /\ run'.force = run.force /\ run'.pc = run.pc + 1
    BY <1>1, AfterMovesOn
  <2>2. run.pc \in Nat  BY ScriptLength
  <2> QED BY <2>1, <2>2 DEF Pending
<1>2. CASE ~Running'  BY <1>2 DEF Pending
<1> QED BY <1>1, <1>2

LEMMA PendingStays ==
  ASSUME Running, NEW p, NEW e, NEW a, NEW f, Stays(p, e, a, f), p # "call", NEW u, NEW j
  PROVE  Pending(u, j)' <= Pending(u, j)
<1>1. /\ run'.task = run.task /\ run'.mode = run.mode /\ run'.force = run.force /\ run'.pc = run.pc
      /\ run'.phase # "call"
  BY AfterStays
<1> QED BY <1>1 DEF Pending

LEMMA HadStays ==
  ASSUME NEW u, NEW j, ~(Running /\ run.mode = "LIVE" /\ run.phase = "deployed"),
         \A n \in DOMAIN Net(u) : n \in DOMAIN Net(u)'
  PROVE  Had(u, j) <= Had(u, j)'
BY DEF Had

LEMMA SameGrows ==
  ASSUME SameNet
  PROVE  /\ Grows
         /\ \A u \in DOMAIN out : Net(u)' = Net(u) /\ \A n \in DOMAIN Net(u) : n \in DOMAIN Net(u)'
BY DEF SameNet, Grows

\* The files are untouched.
LEMMA FilesQuiet ==
  ASSUME FilesOK, UNCHANGED <<site, chain, out>>
  PROVE  /\ Extends /\ SameNet /\ Shaped' /\ Focus' = Focus /\ Deployed' = Deployed
         /\ \A t : Net(t)' = Net(t)
         /\ Undefined \notin txs' /\ crashes' \in Nat /\ forced' \in Nat => FilesOK'
<1>1. Extends /\ SameNet  BY ChainKept DEF FilesOK, SameNet, Net
<1>2. Shaped'  BY DEF FilesOK, Shaped
<1>3. (\A t : Net(t)' = Net(t)) /\ Deployed' = Deployed /\ Focus' = Focus  BY DEF Net, Deployed, Focus
<1> QED BY <1>1, <1>2, <1>3, FilesKept

LEMMA FilesStill ==
  ASSUME FilesOK, UNCHANGED <<site, chain>>, SameNet, Shaped'
  PROVE  /\ Extends /\ Focus' = Focus /\ Deployed' = Deployed
         /\ \A t \in Focus : Net(t)' = Net(t)
         /\ Undefined \notin txs' /\ crashes' \in Nat /\ forced' \in Nat => FilesOK'
<1>1. Extends  BY ChainKept DEF FilesOK
<1>2. Deployed' = Deployed /\ Focus' = Focus  BY DEF Deployed, Focus
<1>3. \A t \in Focus : Net(t)' = Net(t)  BY FocusTasks DEF SameNet
<1> QED BY <1>1, <1>2, <1>3, FilesKept

LEMMA InputsKept ==
  ASSUME FilesOK, site' = site, SameNet, NEW t \in Focus
  PROVE  ParsedInput(t)' = ParsedInput(t)
BY ArgumentsSame

------------------------------------------------------------------------------
(* Steps that change no file and no chain.                                 *)

\* A step that is over, or a contract that is to be verified.
Over(env) == MovesOn(env) \/ (run.mode = "LIVE" /\ Deploying /\ \E a : Stays("verify", env, a, run.fork))

LEMMA AfterOver ==
  ASSUME FilesOK, RunOK, Running, NEW env, Over(env)
  PROVE  /\ run'.task = run.task /\ run'.mode = run.mode /\ run'.force = run.force
         /\ \A j \in Steps(run.task) : (Behind(j)' <=> j <= run.pc) /\ (Traced(j)' <=> j <= run.pc)
         /\ Unsettled' = {}
         /\ \A u : \A j \in Nat : Pending(u, j)' <= Pending(u, j)
<1>1. CASE MovesOn(env)  BY <1>1, AfterMovesOn, PendingMoves
<1>2. CASE \E a : Stays("verify", env, a, run.fork)
  <2>1. PICK a : Stays("verify", env, a, run.fork)  BY <1>2
  <2>2. /\ run'.task = run.task /\ run'.mode = run.mode /\ run'.force = run.force /\ Running'
        /\ run'.pc = run.pc /\ run'.phase = "verify"
    BY <2>1, AfterStays
  <2>3. Reached' = run.pc + 1  BY <2>2 DEF Reached
  <2>4. run.pc \in Nat /\ \A j \in Steps(run.task) : j \in Nat  BY ScriptLength
  <2>5. \A j \in Steps(run.task) : (Behind(j)' <=> j <= run.pc) /\ (Traced(j)' <=> j <= run.pc)
    BY <2>2, <2>3, <2>4 DEF Behind, Traced
  <2>6. Unsettled' = {}  BY <2>2 DEF Unsettled
  <2>7. \A u : \A j \in Nat : Pending(u, j)' <= Pending(u, j)  BY <2>1, PendingStays
  <2> QED BY <2>2, <2>5, <2>6, <2>7
<1> QED BY <1>1, <1>2 DEF Over

LEMMA OverOK ==
  ASSUME FilesOK, RunOK, Running, site' = site, forced' = forced,
         NEW t \in Focus, t = run.task, ParsedInput(t)' = ParsedInput(t),
         NEW env, Over(env),
         run.mode # "TEST" => Knows(Script[t], env, run.pc + 1, Net(t)', Deployed')
  PROVE  RunningOK'
<1>1. CASE MovesOn(env)  BY <1>1, MovesOnOK
<1>2. CASE run.mode = "LIVE" /\ Deploying /\ \E a : Stays("verify", env, a, run.fork)
  <2>1. PICK a : Stays("verify", env, a, run.fork)  BY <1>2
  <2>2. /\ run'.task = t /\ run'.mode = "LIVE" /\ run'.pc = run.pc /\ run'.phase = "verify"
        /\ run'.env = env /\ Current' = Current /\ run' = RunWith(run.pc, "verify", env, a, run.fork)
    BY <1>2, <2>1, AfterStays
  <2>3. RunOK'
    <3>1. PICK c \in Steps(t) : c = run.pc  BY ScriptLength
    <3>2. run' = RunWith(c, "verify", env, a, run.fork)  BY <2>2, <3>1
    <3> QED BY <3>2, RunStaysOK
  <2>4. Deploying'  BY <1>2, <2>2 DEF Deploying
  <2>5. PhaseOK' /\ CreatedOK'  BY <2>2, <2>4 DEF PhaseOK, CreatedOK
  <2>6. Reached' = run.pc + 1  BY <2>2 DEF Reached
  <2>7. Net(run.task)' = Net(t)'  BY <2>2 DEF Net
  <2>8. EnvOK'  BY <1>2, <2>2, <2>6, <2>7 DEF EnvOK
  <2> QED BY <2>3, <2>5, <2>8 DEF RunningOK
<1> QED BY <1>1, <1>2 DEF Over

LEMMA QuietStep ==
  ASSUME DeploymentsInv, Running, UNCHANGED <<site, chain, saved, crashes, forced>>, SameNet, Shaped',
         txs \subseteq txs', Undefined \notin txs',
         run.phase \in {"call", "verify", "saved"} \/ run.mode = "TEST",
         run.phase = "saved" => run.address \in txs' \/ site.network \notin VERIFIED_NETWORKS,
         NEW t \in Focus, t = run.task, NEW env, Over(env),
         run.mode # "TEST" => Knows(Script[t], env, run.pc + 1, Net(t), Deployed),
         run.mode = "CHECK" /\ Deploys(Script[t][run.pc]) =>
             Vouched(t, Script[t][run.pc]) /\ Traceable(Net(t)[Script[t][run.pc].name]),
         run.mode = "LIVE" /\ run.force /\ Deploys(Script[t][run.pc]) /\ run.phase = "call" =>
             Script[t][run.pc].op = "deployUnforced"
  PROVE  DeploymentsInv'
<1> HIDE DEF Deploys
<1>1. FilesOK /\ RunOK /\ PhaseOK /\ UnforcedInv /\ VouchInv /\ LossInv /\ NeedInv
  BY DEF DeploymentsInv, RunningOK
<1>2. Extends /\ Deployed' = Deployed /\ Net(t)' = Net(t) /\ FilesOK'
  <2>1. Undefined \notin txs' /\ crashes' \in Nat /\ forced' \in Nat  BY <1>1 DEF FilesOK
  <2> QED BY <1>1, <2>1, FilesStill
<1>3. RunningOK'
  <2>1. ParsedInput(t)' = ParsedInput(t)  BY <1>1, <1>2, InputsKept
  <2> QED BY <1>1, <1>2, <2>1, OverOK
<1>4. UnforcedInv'  BY <1>1, <1>2, UnforcedKept
<1>5. /\ run'.task = t /\ run'.mode = run.mode /\ run'.force = run.force
      /\ \A j \in Steps(t) : (Behind(j)' <=> j <= run.pc) /\ (Traced(j)' <=> j <= run.pc)
      /\ Unsettled' = {}
      /\ \A u : \A j \in Nat : Pending(u, j)' <= Pending(u, j)
  BY <1>1, AfterOver
<1>6. run.phase = "saved" => run.address = Net(t)[Script[t][run.pc].name] /\ run.address \in saved
  BY <1>1 DEF PhaseOK, Current
<1>7. VouchInv'
  <2>1. /\ \A j \in Steps(t) : j \in Nat /\ (j < run.pc => Behind(j) /\ Traced(j))
        /\ run.phase \in {"verify", "saved"} => Behind(run.pc)
        /\ run.phase = "verify" => Traced(run.pc)
        /\ run.pc \in Nat
    <3>1. run.pc \in Nat /\ \A j \in Steps(t) : j \in Nat  BY <1>1, ScriptLength
    <3> QED BY <3>1 DEF Behind, Traced, Reached
  <2>2. \A j \in Steps(t) : j <= run.pc => j < run.pc \/ j = run.pc  BY <2>1
  <2>3. \A j \in Steps(t) : run.mode = "CHECK" /\ Deploys(Script[t][j]) /\ Behind(j)' =>
            Behind(j) \/ (Vouched(t, Script[t][j]) /\ Traceable(Net(t)[Script[t][j].name]))
    BY <1>5, <2>1, <2>2
  <2>4. \A j \in Steps(t) :
          run.mode = "LIVE" /\ run.force /\ Deploys(Script[t][j]) /\ Script[t][j].op # "deployUnforced" =>
            /\ Behind(j)' => Behind(j) \/ Vouched(t, Script[t][j])
            /\ Traced(j)' => Traced(j) \/ Net(t)[Script[t][j].name] \in txs'
                                  \/ site.network \notin VERIFIED_NETWORKS
    BY <1>5, <1>6, <2>1, <2>2
  <2> QED BY <1>1, <1>2, <1>5, <2>3, <2>4, VouchStep
<1>8. LossInv'
  <2>1. ASSUME NEW a \in Lost' PROVE a \in Lost \ Unsettled
    <3>1. /\ a \notin saved' \/ (site.network \in VERIFIED_NETWORKS /\ a \notin txs')
          /\ a \in Lost
      <4>1. DOMAIN chain' \ DOMAIN chain = {}  OBVIOUS
      <4> QED BY <1>1, <1>2, <4>1, LostShrinks
    <3>2. run.phase = "saved" => a # run.address  BY <1>6, <3>1
    <3>3. run.phase = "deployed" => a # run.address
      <4>1. a[1] = "live"  BY <3>1 DEF Lost, Deployed
      <4> QED BY <1>1, <4>1 DEF PhaseOK
    <3> QED BY <3>1, <3>2, <3>3 DEF Unsettled
  <2> QED BY <1>1, <1>5, <2>1, LossKept
<1>9. NeedInv'
  <2>1. ASSUME NEW u \in Focus, NEW j \in Steps(u)
        PROVE  Pending(u, j)' <= Pending(u, j) /\ Had(u, j) <= Had(u, j)'
    <3>1. u \in DOMAIN out /\ j \in Nat  BY <1>1, FocusTasks DEF Steps, WellScripted
    <3>2. Had(u, j) <= Had(u, j)'  BY <1>2, <3>1, HadStays, SameGrows
    <3> QED BY <1>5, <3>1, <3>2
  <2> QED BY <1>1, <2>1, NeedKept
<1> QED BY <1>2, <1>3, <1>4, <1>7, <1>8, <1>9 DEF DeploymentsInv

\* A run that fails loses at most what it has in hand.
LEMMA Failing ==
  ASSUME DeploymentsInv, Running, UNCHANGED <<site, chain, out, txs, saved, forced>>, Ends,
         \/ crashes' = crashes /\ run.phase \in {"call", "verify"}
         \/ crashes' = crashes + 1
  PROVE  DeploymentsInv'
<1>1. FilesOK /\ UnforcedInv /\ LossInv /\ NeedInv  BY DEF DeploymentsInv
<1>2. ~Running' /\ run'.status = "failed" /\ Unsettled' = {}  BY AfterEnds
<1>3. Extends /\ SameNet /\ Deployed' = Deployed /\ FilesOK' /\ (\A t : Net(t)' = Net(t))
  <2>1. Undefined \notin txs' /\ crashes' \in Nat /\ forced' \in Nat  BY <1>1 DEF FilesOK
  <2> QED BY <1>1, <2>1, FilesQuiet
<1>4. RunningOK'  BY <1>2 DEF RunningOK
<1>5. UnforcedInv'  BY <1>1, <1>3, UnforcedKept
<1>6. VouchInv'  BY <1>2, VouchEnds
<1>7. LossInv'
  <2>1. Lost' = Lost  BY <1>3 DEF Lost, TopLevel, Traceable, Contract, On, Focus, Deployed
  <2>2. CASE crashes' = crashes /\ run.phase \in {"call", "verify"}
    <3>1. Unsettled = {}  BY <2>2 DEF Unsettled
    <3> QED BY <1>1, <1>2, <2>1, <2>2, <3>1, LossKept
  <2>3. CASE crashes' = crashes + 1
    <3>1. PICK S : S = Lost \ Unsettled  OBVIOUS
    <3>2. PICK x : x = run.address  OBVIOUS
    <3>3. IsFiniteSet(S) /\ Cardinality(S) \in Nat /\ Cardinality(S) <= crashes
      BY <1>1, <3>1, LostFinite DEF LossInv
    <3>4. Lost \subseteq S \cup {x}  BY <3>1, <3>2 DEF Unsettled
    <3>5. IsFiniteSet(S \cup {x}) /\ Cardinality(S \cup {x}) <= Cardinality(S) + 1
          /\ Cardinality(S \cup {x}) \in Nat
      BY <3>3, FS_AddElement, FS_CardinalityType
    <3>6. Cardinality(Lost) <= Cardinality(S \cup {x}) /\ Cardinality(Lost) \in Nat
      BY <1>1, <3>4, <3>5, FS_Subset, LostFinite
    <3>7. crashes \in Nat  BY <1>1 DEF FilesOK
    <3>8. Cardinality(Lost) <= crashes + 1  BY <3>3, <3>5, <3>6, <3>7
    <3>9. Lost' \ Unsettled' = Lost  BY <1>2, <2>1
    <3> QED BY <2>3, <3>8, <3>9 DEF LossInv
  <2> QED BY <2>2, <2>3
<1>8. NeedInv'
  <2>1. \A t, j : Pending(t, j)' = 0  BY <1>2 DEF Pending
  <2>2. CASE crashes' = crashes /\ run.phase \in {"call", "verify"}
    <3>1. ASSUME NEW t \in Focus, NEW j \in Steps(t)
          PROVE  Pending(t, j)' <= Pending(t, j) /\ Had(t, j) <= Had(t, j)'
      <4>1. Had(t, j) <= Had(t, j)'  BY <1>3, <2>2, HadStays
      <4> QED BY <1>1, <2>1, <4>1, Numbers
    <3> QED BY <1>1, <2>2, <3>1, NeedKept
  <2>3. CASE crashes' = crashes + 1
    <3> HIDE DEF Deploys
    <3> SUFFICES ASSUME NEW t \in Focus, NEW j \in Steps(t), Deploys(Script[t][j])
                 PROVE  Cardinality(CreatedAs(t, Script[t][j].name)') + Pending(t, j)'
                          <= crashes' + forced' + Had(t, j)'
      <4>1. Focus' = Focus  BY DEF Focus
      <4> QED BY <4>1 DEF NeedInv, Steps
    <3>1. PICK n : n = Script[t][j].name  OBVIOUS
    <3>2. CreatedAs(t, n)' = CreatedAs(t, n)
      <4>1. CreatedAs(t, n) = {a \in Deployed : chain[a[2]].task = t /\ chain[a[2]].name = n}  BY CreatedAsIs
      <4>2. CreatedAs(t, n)' = {a \in Deployed' : chain'[a[2]].task = t /\ chain'[a[2]].name = n}  BY CreatedAsIs
      <4> QED BY <1>3, <4>1, <4>2
    <3>3. Cardinality(CreatedAs(t, n)) + Pending(t, j) <= crashes + forced + Had(t, j)
      BY <1>1, <3>1 DEF NeedInv
    <3>4. Cardinality(CreatedAs(t, n)) + Pending(t, j)' <= crashes' + forced' + Had(t, j)'
      BY <1>1, <2>1, <2>3, <3>3, Numbers
    <3> QED BY <3>1, <3>2, <3>4
  <2> QED BY <2>2, <2>3
<1> QED BY <1>3, <1>4, <1>5, <1>6, <1>7, <1>8 DEF DeploymentsInv

LEMMA CrashKeeps ==
  ASSUME DeploymentsInv, Crash
  PROVE  DeploymentsInv'
BY Failing DEF Crash, Ends

\* A run starts from what its task's inputs say now.
LEMMA StartKeeps ==
  ASSUME DeploymentsInv, NEW t \in Focus, NEW mode \in {"LIVE", "TEST", "CHECK"}, NEW force \in BOOLEAN,
         Start(t, mode, force)
  PROVE  DeploymentsInv'
<1>1. FilesOK /\ UnforcedInv /\ LossInv /\ NeedInv  BY DEF DeploymentsInv
<1>2. /\ ~Running /\ UNCHANGED <<site, chain, out, txs, saved, crashes>>
      /\ forced' = IF force THEN forced + 1 ELSE forced
  BY DEF Start
<1>3. forced' \in Nat /\ (forced' = 0 => forced = 0) /\ forced' >= forced /\ (force => forced' = forced + 1)
  BY <1>1, <1>2 DEF FilesOK
<1>4. Extends /\ SameNet /\ Deployed' = Deployed /\ FilesOK' /\ Focus' = Focus /\ (\A u : Net(u)' = Net(u))
  <2>1. Undefined \notin txs' /\ crashes' \in Nat  BY <1>1, <1>2 DEF FilesOK
  <2> QED BY <1>1, <1>2, <1>3, <2>1, FilesQuiet
<1>5. UnforcedInv'  BY <1>1, <1>2, <1>3, <1>4, UnforcedKept
<1>6. /\ run'.task = t /\ run'.mode = mode /\ run'.force = force /\ run'.phase = "call"
      /\ run'.address = Undefined /\ run'.env = NoOutput
      /\ run'.status = "failed" \/ (run'.status = "running" /\ run'.pc = 1)
      /\ run'.status = "running" =>
           run' = [task |-> t, mode |-> mode, force |-> force, status |-> "running", pc |-> 1, phase |-> "call",
                   input |-> ParsedInput(t), env |-> NoOutput, address |-> Undefined, fork |-> <<>>]
  <2>1. CASE InputReadable(t)
    <3>1. PICK input : input = ParsedInput(t)  OBVIOUS
    <3>2. run' = [Ended(t, mode, force, "running") EXCEPT !.pc = 1, !.input = input]
      BY <2>1, <3>1 DEF Start
    <3>3. [Ended(t, mode, force, "running") EXCEPT !.pc = 1] =
            [task |-> t, mode |-> mode, force |-> force, status |-> "running", pc |-> 1, phase |-> "call",
             input |-> NoOutput, env |-> NoOutput, address |-> Undefined, fork |-> <<>>]
      BY DEF Ended
    <3>4. run' = [task |-> t, mode |-> mode, force |-> force, status |-> "running", pc |-> 1, phase |-> "call",
                  input |-> input, env |-> NoOutput, address |-> Undefined, fork |-> <<>>]
      BY <3>2, <3>3
    <3> QED BY <3>1, <3>4
  <2>2. CASE ~InputReadable(t)
    <3>1. run' = Ended(t, mode, force, "failed")  BY <2>2 DEF Start
    <3> QED BY <3>1 DEF Ended
  <2> QED BY <2>1, <2>2
<1>7. Running' => run'.pc = 1  BY <1>6 DEF Running
<1>8. WellScripted(Script[t]) /\ 1 \in Steps(t) /\ \A j \in Steps(t) : j \in Nat /\ j >= 1
  BY <1>1, FocusTasks DEF WellScripted, Steps
<1>9. RunningOK'
  <2> SUFFICES ASSUME Running' PROVE RunOK' /\ PhaseOK' /\ CreatedOK' /\ EnvOK'
    BY DEF RunningOK
  <2>1. /\ run' = [task |-> t, mode |-> mode, force |-> force, status |-> "running", pc |-> 1, phase |-> "call",
                   input |-> ParsedInput(t), env |-> NoOutput, address |-> Undefined, fork |-> <<>>]
    BY <1>6 DEF Running
  <2>2. RunOK'
    <3>1. PICK input : input = ParsedInput(t)  OBVIOUS
    <3>2. run' = [task |-> t, mode |-> mode, force |-> force, status |-> "running", pc |-> 1, phase |-> "call",
                  input |-> input, env |-> NoOutput, address |-> Undefined, fork |-> <<>>]
      BY <2>1, <3>1
    <3>3. run' = [task |-> run'.task, mode |-> run'.mode, force |-> run'.force, status |-> run'.status,
              pc |-> run'.pc, phase |-> run'.phase, input |-> run'.input, env |-> run'.env,
              address |-> run'.address, fork |-> run'.fork]
          /\ run'.input = input /\ run'.pc = 1
      BY <3>2
    <3>4. ParsedInput(t)' = input  BY <1>1, <1>2, <1>4, <3>1, InputsKept
    <3>5. \A u \in Focus' : u = run'.task => run'.input = ParsedInput(u)'  BY <1>6, <3>3, <3>4
    <3>6. /\ run'.task \in Focus' /\ run'.mode \in {"LIVE", "TEST", "CHECK"} /\ run'.force \in BOOLEAN
          /\ run'.force => forced' > 0
          /\ run'.pc \in DOMAIN Script[run'.task]
      BY <1>1, <1>3, <1>4, <1>6, <1>8, <3>3 DEF Steps, FilesOK
    <3> QED BY <3>3, <3>5, <3>6 DEF RunOK, Steps
  <2>3. PhaseOK' /\ CreatedOK'  BY <1>6 DEF PhaseOK, CreatedOK
  <2>4. EnvOK'
    <3>1. Reached' = 1  BY <1>6, <1>7 DEF Reached
    <3>2. \A net, live : Knows(Script[t], NoOutput, 1, net, live)
      <4> HIDE DEF Deploys, Holds
      <4> QED BY <1>8 DEF Knows, NoOutput, Steps, WellScripted
    <3> QED BY <1>6, <3>1, <3>2 DEF EnvOK
  <2> QED BY <2>2, <2>3, <2>4
<1>10. VouchInv'
  <2>1. \A j \in Steps(t) : AtWork("CHECK")' \/ AtWork("LIVE")' => ~Behind(j)' /\ ~Traced(j)'
    BY <1>6, <1>8 DEF AtWork, Behind, Traced, Running, Reached
  <2>2. run'.task \in Focus' /\ \A u \in Focus' : u = run'.task => u = t  BY <1>4, <1>6
  <2> HIDE DEF Behind, Traced, Deploys
  <2> QED BY <2>1, <2>2 DEF VouchInv, Steps
<1>11. LossInv'
  <2>1. Lost' = Lost  BY <1>2, <1>4 DEF Lost, TopLevel, Traceable, Contract, On, Focus, Deployed
  <2>2. Unsettled = {} /\ Unsettled' = {}  BY <1>2, <1>6 DEF Unsettled
  <2> QED BY <1>1, <1>2, <2>1, <2>2, LossKept
<1>12. NeedInv'
  <2> HIDE DEF Deploys
  <2> SUFFICES ASSUME NEW u \in Focus, NEW j \in Steps(u), Deploys(Script[u][j])
               PROVE  Cardinality(CreatedAs(u, Script[u][j].name)') + Pending(u, j)'
                        <= crashes' + forced' + Had(u, j)'
    BY <1>4 DEF NeedInv, Steps
  <2>1. PICK n : n = Script[u][j].name  OBVIOUS
  <2>2. CreatedAs(u, n)' = CreatedAs(u, n)
    <3>1. CreatedAs(u, n) = {a \in Deployed : chain[a[2]].task = u /\ chain[a[2]].name = n}  BY CreatedAsIs
    <3>2. CreatedAs(u, n)' = {a \in Deployed' : chain'[a[2]].task = u /\ chain'[a[2]].name = n}  BY CreatedAsIs
    <3> QED BY <1>2, <1>4, <3>1, <3>2
  <2>3. Cardinality(CreatedAs(u, n)) + Pending(u, j) <= crashes + forced + Had(u, j)
    BY <1>1, <2>1 DEF NeedInv
  <2>4. Pending(u, j)' <= IF force THEN 1 ELSE 0  BY <1>6 DEF Pending
  <2>5. Pending(u, j) = 0  BY <1>2 DEF Pending
  <2>6. Had(u, j) <= Had(u, j)'  BY <1>2, <1>4, HadStays
  <2>7. Cardinality(CreatedAs(u, n)) + Pending(u, j)' <= crashes' + forced' + Had(u, j)'
    BY <1>1, <1>2, <2>3, <2>4, <2>5, <2>6, Numbers
  <2> QED BY <2>1, <2>2, <2>7
<1> QED BY <1>4, <1>5, <1>9, <1>10, <1>11, <1>12 DEF DeploymentsInv

LEMMA Untouched ==
  ASSUME DeploymentsInv, UNCHANGED out
  PROVE  SameNet /\ Shaped'
BY DEF DeploymentsInv, FilesOK, SameNet, Shaped, Net

\* What every step of a run may use.
LEMMA Here ==
  ASSUME DeploymentsInv, Running
  PROVE  /\ FilesOK /\ RunOK /\ PhaseOK /\ run.task \in Focus /\ run.task \in DOMAIN out
         /\ WellScripted(Script[run.task]) /\ run.pc \in DOMAIN Script[run.task] /\ run.pc \in Nat
         /\ Current = Script[run.task][run.pc] /\ (Deploying <=> Deploys(Current))
         /\ run.mode # "TEST" => Knows(Script[run.task], run.env, Reached, Net(run.task), Deployed)
<1>1. FilesOK /\ RunOK /\ PhaseOK /\ EnvOK  BY DEF DeploymentsInv, RunningOK
<1> QED BY <1>1, ScriptLength DEF EnvOK, RunOK, Steps, Current, Deploying, Deploys

LEMMA UseRecordedKeeps ==
  ASSUME DeploymentsInv, UseRecorded
  PROVE  DeploymentsInv'
<1>0. Running  BY DEF UseRecorded, OnCall
<1>1. /\ FilesOK /\ RunOK /\ run.task \in Focus /\ WellScripted(Script[run.task])
      /\ run.pc \in DOMAIN Script[run.task] /\ Current = Script[run.task][run.pc]
      /\ (Deploying <=> Deploys(Current))
      /\ run.mode # "TEST" => Knows(Script[run.task], run.env, Reached, Net(run.task), Deployed)
  BY <1>0, Here
<1>2. PICK t \in Focus : t = run.task  BY <1>1
<1>3. PICK s : s = Current  OBVIOUS
<1>4. PICK a : a = out[t][ReadFile][s.name]  OBVIOUS
<1>5. PICK env : env = With(run.env, s.name, a)  OBVIOUS
<1>6. /\ Same /\ run.phase = "call" /\ Deploying /\ run.mode \in {"LIVE", "TEST"} /\ MayKeep
      /\ (run.mode = "LIVE" /\ Stays("verify", env, a, run.fork)) \/ MovesOn(env)
  BY <1>1, <1>2, <1>3, <1>4, <1>5, UseRecordedForm
<1>7. Over(env)  BY <1>6 DEF Over
<1>8. run.force => s.op = "deployUnforced"  BY <1>3, <1>6 DEF MayKeep
<1>9. run.mode # "TEST" => Knows(Script[t], env, run.pc + 1, Net(t), Deployed)
  <2> SUFFICES ASSUME run.mode # "TEST" PROVE Knows(Script[t], env, run.pc + 1, Net(t), Deployed)
    OBVIOUS
  <2>1. s.name \in DOMAIN Net(t) /\ Net(t)[s.name] = a
    BY <1>2, <1>3, <1>4, <1>6 DEF MayKeep, ReadFile, Net
  <2>2. a \in Deployed  BY <1>1, <2>1 DEF FilesOK, IsLive
  <2>3. Knows(Script[t], run.env, run.pc, Net(t), Deployed)  BY <1>1, <1>2, <1>6 DEF Reached
  <2>4. PICK c \in DOMAIN Script[t] : c = run.pc  BY <1>1, <1>2
  <2>5. s = Script[t][c] /\ Deploys(Script[t][c])  BY <1>1, <1>2, <1>3, <1>6, <2>4
  <2> HIDE DEF Deploys, WellScripted
  <2>6. Knows(Script[t], With(run.env, Script[t][c].name, a), c + 1, Net(t), Deployed)
    BY <1>1, <1>2, <2>1, <2>2, <2>3, <2>4, <2>5, KnowsDeployed
  <2> QED BY <1>5, <2>4, <2>5, <2>6
<1>10. txs \subseteq txs' /\ Undefined \notin txs'  BY <1>1, <1>6 DEF Same, FilesOK
<1> QED BY <1>0, <1>1, <1>2, <1>3, <1>6, <1>7, <1>8, <1>9, <1>10, Untouched, QuietStep DEF Same

LEMMA SaveHashKeeps ==
  ASSUME DeploymentsInv, saveContractDeploymentTransactionHash
  PROVE  DeploymentsInv'
<1>0. Running /\ run.phase = "saved"  BY DEF saveContractDeploymentTransactionHash
<1>1. /\ FilesOK /\ RunOK /\ PhaseOK /\ run.task \in Focus /\ run.pc \in DOMAIN Script[run.task] /\ Current = Script[run.task][run.pc]
      /\ run.mode # "TEST" => Knows(Script[run.task], run.env, Reached, Net(run.task), Deployed)
  BY <1>0, Here
<1>2. PICK t \in Focus : t = run.task  BY <1>1
<1>3. /\ UNCHANGED <<site, chain, out, saved, crashes, forced>>
      /\ txs' = IF site.network \in VERIFIED_NETWORKS THEN txs \cup {run.address} ELSE txs
      /\ (run.mode = "LIVE" /\ Stays("verify", run.env, run.address, run.fork)) \/ MovesOn(run.env)
  BY <1>1, SaveHashForm
<1>4. run.mode = "LIVE" /\ Deploying /\ run.address = Net(t)[Current.name] /\ Current.name \in DOMAIN Net(t)
  BY <1>0, <1>1, <1>2 DEF PhaseOK
<1>5. Over(run.env)  BY <1>3, <1>4 DEF Over
<1>6. Knows(Script[t], run.env, run.pc + 1, Net(t), Deployed)  BY <1>0, <1>1, <1>2, <1>4 DEF Reached
<1>7. run.address # Undefined
  <2>1. run.address \in Deployed  BY <1>1, <1>4 DEF FilesOK, IsLive
  <2> QED BY <2>1 DEF Deployed, Undefined
<1>8. txs \subseteq txs' /\ Undefined \notin txs'
      /\ (run.address \in txs' \/ site.network \notin VERIFIED_NETWORKS)
  BY <1>1, <1>3, <1>7 DEF FilesOK
<1> QED BY <1>0, <1>2, <1>3, <1>4, <1>5, <1>6, <1>8, Untouched, QuietStep

LEMMA VerifyKeeps ==
  ASSUME DeploymentsInv, VerifyContract
  PROVE  DeploymentsInv'
<1>0. Running  BY DEF VerifyContract
<1>1. /\ FilesOK /\ RunOK /\ PhaseOK /\ run.task \in Focus /\ WellScripted(Script[run.task])
      /\ run.pc \in DOMAIN Script[run.task] /\ Current = Script[run.task][run.pc]
      /\ run.mode # "TEST" => Knows(Script[run.task], run.env, Reached, Net(run.task), Deployed)
  BY <1>0, Here
<1>2. PICK t \in Focus : t = run.task  BY <1>1
<1>3. /\ Same /\ MovesOn(run.env)
      /\ run.phase = "verify" \/ (run.phase = "call" /\ Current.op = "verify")
  BY <1>1, VerifyForm
<1>4. run.phase = "call" => ~Deploys(Script[t][run.pc]) /\ ~Holds(Script[t][run.pc])
  BY <1>1, <1>2, <1>3 DEF Deploys, Holds
<1>5. run.phase = "verify" => run.mode = "LIVE"  BY <1>1 DEF PhaseOK
<1> HIDE DEF Deploys, Holds, WellScripted
<1>6. run.mode # "TEST" => Knows(Script[t], run.env, run.pc + 1, Net(t), Deployed)
  <2>1. CASE run.phase = "verify"  BY <1>1, <1>2, <2>1 DEF Reached
  <2>2. CASE run.phase = "call"
    <3>1. PICK c \in DOMAIN Script[t] : c = run.pc  BY <1>1, <1>2
    <3>2. Reached = c  BY <2>2, <3>1 DEF Reached
    <3> QED BY <1>1, <1>2, <1>4, <2>2, <3>1, <3>2, KnowsOn
  <2> QED BY <1>3, <2>1, <2>2
<1>7. txs \subseteq txs' /\ Undefined \notin txs'  BY <1>1, <1>3 DEF Same, FilesOK
<1>8. Over(run.env)  BY <1>3 DEF Over
<1> QED BY <1>0, <1>2, <1>3, <1>4, <1>5, <1>6, <1>7, <1>8, Untouched, QuietStep DEF Same

\* The arguments a run passes are those its script would pass now.
LEMMA ArgsAreThose ==
  ASSUME DeploymentsInv, Running, run.phase = "call", Deploying, run.mode # "TEST",
         NEW t \in Focus, t = run.task, NEW s, s = Current
  PROVE  Args = ArgumentsNow(t, s)
<1>1. /\ FilesOK /\ RunOK /\ WellScripted(Script[t]) /\ run.pc \in DOMAIN Script[t] /\ run.pc \in Nat
      /\ s = Script[t][run.pc] /\ Deploys(s)
      /\ Knows(Script[t], run.env, Reached, Net(t), Deployed)
  BY Here
<1>2. Reached = run.pc  BY DEF Reached
<1>3. PICK c \in DOMAIN Script[t] : c = run.pc  BY <1>1
<1>4. run.input = ParsedInput(t)  BY <1>1 DEF RunOK
<1>5. ASSUME NEW i \in DOMAIN s.args
      PROVE  Argument(s.args[i], run.input, run.env) = Argument(s.args[i], ParsedInput(t), Net(t))
  <2>1. \/ s.args[i][1] = "input"
        \/ s.args[i][1] = "instance" /\ \E j \in 1..(c - 1) : Deploys(Script[t][j]) /\ s.args[i][2] = Script[t][j].name
    BY <1>1, <1>3, ArgumentPassed
  <2>2. CASE s.args[i][1] = "input"  BY <1>4, <2>2 DEF Argument
  <2>3. CASE s.args[i][1] = "instance" /\ \E j \in 1..(c - 1) : Deploys(Script[t][j]) /\ s.args[i][2] = Script[t][j].name
    <3>1. PICK j \in 1..(c - 1) : Deploys(Script[t][j]) /\ s.args[i][2] = Script[t][j].name  BY <2>3
    <3>2. j \in DOMAIN Script[t] /\ j < run.pc  BY <1>1, <1>3 DEF WellScripted
    <3>3. PICK n : n = s.args[i][2]  OBVIOUS
    <3>4. Holds(Script[t][j])  BY <3>1 DEF Holds
    <3> HIDE DEF Deploys, Holds, WellScripted
    <3>5. n \in DOMAIN run.env /\ n \in DOMAIN Net(t) /\ Net(t)[n] = run.env[n]
      BY <1>1, <1>2, <3>1, <3>2, <3>3, <3>4 DEF Knows
    <3>6. s.args[i][1] # "input"  BY <2>3
    <3> QED BY <3>3, <3>5, <3>6 DEF Argument
  <2> QED BY <2>1, <2>2, <2>3
<1>6. Args = [i \in DOMAIN s.args |-> Argument(s.args[i], run.input, run.env)]
  BY DEF Args, Arguments
<1>7. ArgumentsNow(t, s) = [i \in DOMAIN s.args |-> Argument(s.args[i], ParsedInput(t), Net(t))]
  BY DEF ArgumentsNow, Arguments, RecordedNow, Net
<1> QED BY <1>5, <1>6, <1>7

LEMMA CheckKeeps ==
  ASSUME DeploymentsInv, CheckDeployment
  PROVE  DeploymentsInv'
<1>0. Running  BY DEF CheckDeployment, OnCall
<1>1. /\ FilesOK /\ RunOK /\ PhaseOK /\ run.task \in Focus /\ WellScripted(Script[run.task])
      /\ run.pc \in DOMAIN Script[run.task] /\ Current = Script[run.task][run.pc]
      /\ (Deploying <=> Deploys(Current))
      /\ run.mode # "TEST" => Knows(Script[run.task], run.env, Reached, Net(run.task), Deployed)
  BY <1>0, Here
<1>2. PICK t \in Focus : t = run.task  BY <1>1
<1>3. PICK s : s = Current  OBVIOUS
<1>4. PICK a : a = Recorded(t, s.name)  OBVIOUS
<1>5. PICK env : env = With(run.env, s.name, a)  OBVIOUS
<1>6. /\ Same /\ run.phase = "call" /\ Deploying /\ run.mode = "CHECK"
      /\ Ends \/ (a \in txs /\ Contract(a) = deploymentTxData(t, s.name, Args) /\ MovesOn(env))
  BY <1>1, <1>2, <1>3, <1>4, <1>5, CheckForm
<1>7. CASE Ends  BY <1>0, <1>6, <1>7, Failing DEF Same
<1>8. CASE a \in txs /\ Contract(a) = deploymentTxData(t, s.name, Args) /\ MovesOn(env)
  <2>1. s.name \in DOMAIN Net(t) /\ Net(t)[s.name] = a
    BY <1>1, <1>4, <1>8 DEF FilesOK, Recorded, Net
  <2>2. a \in Deployed  BY <1>1, <2>1 DEF FilesOK, IsLive
  <2>3. Knows(Script[t], run.env, run.pc, Net(t), Deployed)  BY <1>1, <1>2, <1>6 DEF Reached
  <2>4. PICK c \in DOMAIN Script[t] : c = run.pc  BY <1>1, <1>2
  <2>5. s = Script[t][c] /\ Deploys(Script[t][c])  BY <1>1, <1>2, <1>3, <1>6, <2>4
  <2> HIDE DEF Deploys, WellScripted
  <2>6. Knows(Script[t], env, run.pc + 1, Net(t), Deployed)
    BY <1>1, <1>2, <1>5, <2>1, <2>2, <2>3, <2>4, <2>5, KnowsDeployed
  <2>7. Args = ArgumentsNow(t, s)  BY <1>0, <1>2, <1>3, <1>6, ArgsAreThose
  <2>8. Vouched(t, s) /\ Traceable(Net(t)[s.name])
    BY <1>8, <2>1, <2>7 DEF Vouched, Agrees, RecordedNow, Net, Traceable
  <2>9. txs \subseteq txs' /\ Undefined \notin txs'  BY <1>1, <1>6 DEF Same, FilesOK
  <2>10. Over(env)  BY <1>8 DEF Over
  <2>11. s = Script[t][run.pc]  BY <1>1, <1>2, <1>3
  <2> QED BY <1>0, <1>2, <1>6, <2>6, <2>8, <2>9, <2>10, <2>11, Untouched, QuietStep DEF Same
<1> QED BY <1>6, <1>7, <1>8

LEMMA ReadKeeps ==
  ASSUME DeploymentsInv, ReadContract
  PROVE  DeploymentsInv'
<1>0. Running  BY DEF ReadContract, OnCall
<1>1. /\ FilesOK /\ RunOK /\ PhaseOK /\ run.task \in Focus /\ WellScripted(Script[run.task])
      /\ run.pc \in DOMAIN Script[run.task] /\ Current = Script[run.task][run.pc]
      /\ run.mode # "TEST" => Knows(Script[run.task], run.env, Reached, Net(run.task), Deployed)
  BY <1>0, Here
<1>2. PICK t \in Focus : t = run.task  BY <1>1
<1>3. PICK s : s = Current  OBVIOUS
<1>4. PICK a : a = Below(Args[1])  OBVIOUS
<1>5. PICK env : env = With(run.env, s.name, a)  OBVIOUS
<1>6. /\ Same /\ run.phase = "call" /\ s.op = "read"
      /\ Ends \/ (Exists(Args[1]) /\ Exists(a) /\ MovesOn(env))
  BY <1>1, <1>3, <1>4, <1>5, ReadForm
<1>7. CASE Ends  BY <1>0, <1>6, <1>7, Failing DEF Same
<1>8. CASE Exists(Args[1]) /\ Exists(a) /\ MovesOn(env)
  <2>1. run.mode # "TEST" => Knows(Script[t], env, run.pc + 1, Net(t), Deployed)
    <3> SUFFICES ASSUME run.mode # "TEST" PROVE Knows(Script[t], env, run.pc + 1, Net(t), Deployed)
      OBVIOUS
    <3>1. PICK c \in DOMAIN Script[t] : c = run.pc  BY <1>1, <1>2
    <3>2. s = Script[t][c]  BY <1>1, <1>2, <1>3, <3>1
    <3>3. PICK k \in 1..(c - 1) : Holds(Script[t][k]) /\ Script[t][c].args = <<At(Script[t][k].name)>>
      BY <1>1, <1>2, <1>6, <3>2 DEF WellScripted
    <3>4. k \in DOMAIN Script[t] /\ k < c  BY <1>1, <1>2, <3>1 DEF WellScripted
    <3>5. Knows(Script[t], run.env, c, Net(t), Deployed)  BY <1>1, <1>2, <1>6, <3>1 DEF Reached
    <3>6. PICK n : n = Script[t][k].name  OBVIOUS
    <3>7. n \in DOMAIN run.env /\ run.env[n] \in Deployed
      <4> HIDE DEF Holds, Deploys, WellScripted
      <4> QED BY <3>3, <3>4, <3>5, <3>6 DEF Knows
    <3>8. Args[1] = run.env[n]
      <4>1. Current.args = <<<<"instance", n>>>>  BY <1>3, <3>2, <3>3, <3>6 DEF At
      <4> QED BY <3>7, <4>1 DEF Args, Arguments, Argument
    <3>9. a \in Deployed
      <4>1. PICK i \in DOMAIN chain : Args[1] = <<"live", i>>  BY <3>7, <3>8 DEF Deployed
      <4>2. a = <<"live", i + 1>>  BY <1>4, <4>1 DEF Below
      <4>3. i + 1 <= Len(chain)  BY <1>8, <4>2 DEF Exists, On
      <4>4. i + 1 \in DOMAIN chain  BY <1>1, <4>3, ChainIs DEF FilesOK
      <4> QED BY <4>2, <4>4 DEF Deployed
    <3>10. a = Below(run.env[Script[t][k].name])  BY <1>4, <3>6, <3>8
    <3> HIDE DEF Holds, Deploys, WellScripted
    <3>11. Knows(Script[t], With(run.env, Script[t][c].name, a), c + 1, Net(t), Deployed)
      BY <1>1, <1>2, <1>6, <3>2, <3>3, <3>4, <3>5, <3>9, <3>10, KnowsRead
    <3> QED BY <1>5, <3>1, <3>2, <3>11
  <2>2. ~Deploys(Script[t][run.pc])  BY <1>1, <1>2, <1>3, <1>6 DEF Deploys
  <2> HIDE DEF Deploys, WellScripted
  <2>3. txs \subseteq txs' /\ Undefined \notin txs'  BY <1>1, <1>6 DEF Same, FilesOK
  <2>4. Over(env)  BY <1>8 DEF Over
  <2> QED BY <1>0, <1>2, <1>6, <2>1, <2>2, <2>3, <2>4, Untouched, QuietStep DEF Same
<1> QED BY <1>6, <1>7, <1>8

LEMMA RequireKeeps ==
  ASSUME DeploymentsInv, RequireNetwork
  PROVE  DeploymentsInv'
<1>0. Running  BY DEF RequireNetwork, OnCall
<1>1. /\ FilesOK /\ RunOK /\ run.task \in Focus /\ WellScripted(Script[run.task])
      /\ run.pc \in DOMAIN Script[run.task] /\ Current = Script[run.task][run.pc]
      /\ run.mode # "TEST" => Knows(Script[run.task], run.env, Reached, Net(run.task), Deployed)
  BY <1>0, Here
<1>2. PICK t \in Focus : t = run.task  BY <1>1
<1>3. Same /\ run.phase = "call" /\ Current.op = "onlyOn" /\ (Ends \/ MovesOn(run.env))
  BY <1>1, RequireForm
<1>4. CASE Ends  BY <1>0, <1>3, <1>4, Failing DEF Same
<1>5. CASE MovesOn(run.env)
  <2>1. ~Deploys(Script[t][run.pc]) /\ ~Holds(Script[t][run.pc])  BY <1>1, <1>2, <1>3 DEF Deploys, Holds
  <2> HIDE DEF Deploys, Holds, WellScripted
  <2>2. run.mode # "TEST" => Knows(Script[t], run.env, run.pc + 1, Net(t), Deployed)
    <3>1. PICK c \in DOMAIN Script[t] : c = run.pc  BY <1>1, <1>2
    <3>2. Reached = c  BY <1>3, <3>1 DEF Reached
    <3> QED BY <1>1, <1>2, <2>1, <3>1, <3>2, KnowsOn
  <2>3. txs \subseteq txs' /\ Undefined \notin txs'  BY <1>1, <1>3 DEF Same, FilesOK
  <2>4. Over(run.env)  BY <1>5 DEF Over
  <2> QED BY <1>0, <1>2, <1>3, <2>1, <2>2, <2>3, <2>4, Untouched, QuietStep DEF Same
<1> QED BY <1>3, <1>4, <1>5

------------------------------------------------------------------------------
(* Steps that create or record a contract.                                 *)

LEMMA CreatedAsGrows ==
  ASSUME chain \in Seq(Range(chain)), NEW t, NEW s, NEW contract, contract.task = t, contract.name = s,
         Adds(contract), NEW u, u # NoTask, NEW m
  PROVE  CreatedAs(u, m)' = IF u = t /\ m = s THEN CreatedAs(u, m) \cup {<<"live", Len(chain) + 1>>}
                            ELSE CreatedAs(u, m)
<1>1. PICK l : l = Len(chain) + 1  OBVIOUS
<1>2. /\ Extends /\ l \in DOMAIN chain' /\ chain'[l].task = t /\ chain'[l].name = s
      /\ \A i \in DOMAIN chain' : i \in DOMAIN chain \/ i = l \/ chain'[i].task = NoTask
  BY <1>1 DEF Adds
<1>3. CreatedAs(u, m) = {a \in Deployed : chain[a[2]].task = u /\ chain[a[2]].name = m}  BY CreatedAsIs
<1>4. CreatedAs(u, m)' = {a \in Deployed' : chain'[a[2]].task = u /\ chain'[a[2]].name = m}  BY CreatedAsIs
<1>6. \A a \in Deployed : a \in Deployed' /\ chain'[a[2]] = chain[a[2]]
  <2> TAKE a \in Deployed
  <2>1. PICK i \in DOMAIN chain : a = <<"live", i>>  BY DEF Deployed
  <2>2. IsLive(a)' /\ chain'[i] = chain[i]  BY <1>2, ExtendsKeeps DEF Extends, IsLive
  <2> QED BY <2>1, <2>2 DEF IsLive
<1>7. ASSUME NEW a \in Deployed', chain'[a[2]].task = u
      PROVE  a \in Deployed \/ a = <<"live", l>>
  <2>1. PICK i \in DOMAIN chain' : a = <<"live", i>>  BY DEF Deployed
  <2>2. a[2] = i  BY <2>1
  <2>3. i \in DOMAIN chain \/ i = l  BY <1>2, <1>7, <2>2
  <2> QED BY <2>1, <2>3 DEF Deployed
<1>8. PICK b : b = <<"live", l>>  OBVIOUS
<1>9. b \in Deployed' /\ b[2] = l  BY <1>2, <1>8 DEF Deployed
<1> HIDE DEF Deployed
<1>10. CASE u = t /\ m = s
  <2>1. ASSUME NEW a PROVE a \in CreatedAs(u, m)' <=> a \in CreatedAs(u, m) \cup {b}
    BY <1>2, <1>3, <1>4, <1>6, <1>7, <1>8, <1>9, <1>10
  <2>2. CreatedAs(u, m)' = CreatedAs(u, m) \cup {b}  BY <2>1
  <2> QED BY <1>1, <1>8, <1>10, <2>2
<1>11. CASE ~(u = t /\ m = s)
  <2>1. ASSUME NEW a PROVE a \in CreatedAs(u, m)' <=> a \in CreatedAs(u, m)
    BY <1>2, <1>3, <1>4, <1>6, <1>7, <1>8, <1>9, <1>11
  <2>2. CreatedAs(u, m)' = CreatedAs(u, m)  BY <2>1
  <2> QED BY <1>11, <2>2
<1> QED BY <1>10, <1>11

\* A contract created is in hand.
LEMMA LossAdds ==
  ASSUME FilesOK, LossInv, UNCHANGED <<site, txs, saved, crashes>>, NEW contract, Adds(contract),
         Unsettled = {}, Unsettled' = {<<"live", Len(chain) + 1>>}
  PROVE  LossInv'
<1>1. Extends /\ \A i \in DOMAIN chain' : i \in DOMAIN chain \/ i = Len(chain) + 1 \/ chain'[i].task = NoTask
  BY DEF Adds
<1>2. ASSUME NEW b \in Lost', b # <<"live", Len(chain) + 1>> PROVE b \in Lost
  <2>1. b \in Lost \/ \E i \in DOMAIN chain' \ DOMAIN chain : b = <<"live", i>> /\ chain'[i].task \in Focus
    BY <1>1, LostShrinks
  <2>2. ASSUME NEW i \in DOMAIN chain' \ DOMAIN chain, b = <<"live", i>>, chain'[i].task \in Focus
        PROVE  FALSE
    <3>1. chain'[i].task # NoTask  BY <2>2, FocusTasks DEF Reader
    <3>2. i = Len(chain) + 1  BY <1>1, <2>2, <3>1
    <3> QED BY <1>2, <2>2, <3>2
  <2> QED BY <2>1, <2>2
<1> QED BY <1>2, LossKept

\* A contract is created where none is recorded, or for a forced run that had one to come.
LEMMA NeedAdds ==
  ASSUME FilesOK, NeedInv, UNCHANGED <<site, crashes, forced>>,
         NEW t \in Focus, NEW c \in Steps(t), NEW contract, Adds(contract),
         contract.task = t, contract.name = Script[t][c].name, Deploys(Script[t][c]),
         Had(t, c)' = 1, Pending(t, c)' = 0, Had(t, c) = 0 \/ Pending(t, c) = 1,
         \A u \in Focus : \A j \in Steps(u) : Pending(u, j)' <= Pending(u, j) /\ Had(u, j) <= Had(u, j)'
  PROVE  NeedInv'
<1> HIDE DEF Deploys
<1> SUFFICES ASSUME NEW u \in Focus, NEW j \in Steps(u), Deploys(Script[u][j])
             PROVE  Cardinality(CreatedAs(u, Script[u][j].name)') + Pending(u, j)'
                      <= crashes' + forced' + Had(u, j)'
  <2>1. Focus' = Focus  BY DEF Focus
  <2> QED BY <2>1 DEF NeedInv, Steps
<1>1. PICK m : m = Script[u][j].name  OBVIOUS
<1>2. PICK S : S = CreatedAs(u, m)  OBVIOUS
<1>3. IsFiniteSet(S) /\ Cardinality(S) \in Nat  BY <1>2, Numbers
<1>4. Cardinality(S) + Pending(u, j) <= crashes + forced + Had(u, j)  BY <1>1, <1>2 DEF NeedInv
<1>5. PICK a : a = <<"live", Len(chain) + 1>>  OBVIOUS
<1>6. PICK n : n = Script[t][c].name  OBVIOUS
<1>7. CreatedAs(u, m)' = IF u = t /\ m = n THEN S \cup {a} ELSE S
  <2>1. u # NoTask /\ chain \in Seq(Range(chain))  BY FocusTasks DEF Reader, FilesOK
  <2>2. CreatedAs(u, m)' = IF u = t /\ m = n THEN CreatedAs(u, m) \cup {<<"live", Len(chain) + 1>>}
                           ELSE CreatedAs(u, m)
    BY <1>6, <2>1, CreatedAsGrows
  <2> QED BY <1>2, <1>5, <2>2
<1>8. crashes \in Nat /\ forced \in Nat /\ Had(u, j) \in {0, 1} /\ Pending(u, j) \in {0, 1}
      /\ Had(u, j)' \in {0, 1} /\ Pending(u, j)' \in {0, 1}
  BY Numbers
<1>9. CASE u = t /\ j = c
  <2>1. m = n  BY <1>1, <1>6, <1>9
  <2>2. Cardinality(S \cup {a}) = (IF a \in S THEN Cardinality(S) ELSE Cardinality(S) + 1)
    BY <1>3, FS_AddElement
  <2>3. Had(u, j)' = 1 /\ Pending(u, j)' = 0 /\ (Had(u, j) = 0 \/ Pending(u, j) = 1)  BY <1>9
  <2>4. Cardinality(CreatedAs(u, m)') = Cardinality(S \cup {a})  BY <1>7, <1>9, <2>1
  <2>5. Cardinality(CreatedAs(u, m)') <= Cardinality(S) + 1 /\ Cardinality(CreatedAs(u, m)') \in Nat
    BY <1>3, <2>2, <2>4
  <2>6. Cardinality(CreatedAs(u, m)') + Pending(u, j)' <= crashes + forced + Had(u, j)'
    BY <1>3, <1>4, <1>8, <2>3, <2>5
  <2> QED BY <1>1, <2>6
<1>10. CASE ~(u = t /\ j = c)
  <2>1. ~(u = t /\ m = n)
    <3>1. Holds(Script[u][j]) /\ Holds(Script[t][c])  BY DEF Holds
    <3>2. WellScripted(Script[t])  BY FocusTasks
    <3> HIDE DEF Holds
    <3> QED BY <1>1, <1>6, <1>10, <3>1, <3>2 DEF WellScripted, Steps
  <2>2. CreatedAs(u, m)' = S  BY <1>7, <2>1
  <2>3. Pending(u, j)' <= Pending(u, j) /\ Had(u, j) <= Had(u, j)'  OBVIOUS
  <2>4. Cardinality(CreatedAs(u, m)') + Pending(u, j)' <= crashes + forced + Had(u, j)'
    BY <1>3, <1>4, <1>8, <2>2, <2>3
  <2> QED BY <1>1, <2>4
<1> QED BY <1>9, <1>10

LEMMA SendLive ==
  ASSUME DeploymentsInv, Running, run.phase = "call", Deploying, run.mode = "LIVE",
         UNCHANGED <<site, out, txs, saved, crashes, forced>>,
         NEW t \in Focus, t = run.task, NEW s, s = Current, NEW a, a = <<"live", Len(chain) + 1>>,
         NEW contract, contract = deploymentTxData(t, s.name, Args), Adds(contract), Supplied(Args),
         Stays("deployed", run.env, a, run.fork),
         ~run.force => s.name \notin DOMAIN Net(t)
  PROVE  DeploymentsInv'
<1>1. /\ FilesOK /\ RunOK /\ WellScripted(Script[t])
      /\ run.pc \in DOMAIN Script[t] /\ run.pc \in Nat /\ s = Script[t][run.pc] /\ Deploys(s)
      /\ Knows(Script[t], run.env, Reached, Net(t), Deployed)
      /\ UnforcedInv /\ VouchInv /\ LossInv /\ NeedInv
  BY Here DEF DeploymentsInv
<1>2. PICK c \in Steps(t) : c = run.pc  BY <1>1 DEF Steps
<1>3. s = Script[t][c]  BY <1>1, <1>2
<1>4. Extends  BY DEF Adds
<1>5. SameNet /\ Shaped' /\ Net(t)' = Net(t)  BY <1>1 DEF SameNet, Net, Shaped, FilesOK
<1>6. FilesOK'
  <2>1. Undefined \notin txs' /\ crashes' \in Nat /\ forced' \in Nat  BY <1>1 DEF FilesOK
  <2> QED BY <1>1, <1>4, <1>5, <2>1, FilesKept
<1>7. a \in Deployed' /\ Contract(a)' = contract
  <2>1. PICK l : l = Len(chain) + 1  OBVIOUS
  <2>2. l \in DOMAIN chain' /\ chain'[l] = contract  BY <2>1 DEF Adds
  <2>3. a = <<"live", l>>  BY <2>1
  <2> QED BY <2>2, <2>3, ContractThen DEF Deployed
<1>8. Args = ArgumentsNow(t, s) /\ ArgumentsNow(t, s)' = Args /\ ParsedInput(t)' = ParsedInput(t)
  <2>1. Args = ArgumentsNow(t, s)  BY ArgsAreThose
  <2> QED BY <1>1, <1>5, <2>1, ArgumentsSame
<1>9. /\ run' = RunWith(c, "deployed", run.env, a, run.fork)
      /\ run'.task = t /\ run'.mode = "LIVE" /\ run'.force = run.force /\ Running' /\ run'.pc = c
      /\ run'.phase = "deployed" /\ run'.env = run.env /\ run'.address = a /\ Current' = Current
  BY <1>2, AfterStays
<1>10. RunningOK'
  <2>1. RunOK'  BY <1>1, <1>8, <1>9, RunStaysOK
  <2>2. Deploying'  BY <1>9 DEF Deploying
  <2>3. PhaseOK'  BY <1>9, <2>2 DEF PhaseOK
  <2>4. Made(t, s, a)'  BY <1>7, <1>8 DEF Made, Supplied
  <2>5. CreatedOK'
    <3>1. IsLive(run.address)'  BY <1>7, <1>9 DEF IsLive
    <3>2. ASSUME NEW u \in Focus', NEW j \in Steps(u), NEW b \in Deployed',
                 u = run'.task, j = run'.pc, b = run'.address
          PROVE  /\ Made(u, Script[u][j], b)'
                 /\ ~run'.force => Script[u][j].name \notin DOMAIN Net(u)'
      <4>1. u = t /\ j = c /\ b = a /\ Script[u][j] = s  BY <1>3, <1>9, <3>2
      <4> QED BY <1>5, <1>9, <2>4, <4>1
    <3> QED BY <3>1, <3>2 DEF CreatedOK, Steps
  <2>6. EnvOK'
    <3>1. \A b : IsLive(b) => IsLive(b)'  BY <1>1, <1>4, ExtendsKeeps DEF FilesOK
    <3>2. Deployed \subseteq Deployed'  BY <3>1 DEF IsLive
    <3>3. Reached = c /\ Reached' = c  BY <1>2, <1>9 DEF Reached
    <3>4. Knows(Script[t], run.env, c, Net(t), Deployed')  BY <1>1, <3>2, <3>3, KnowsKept
    <3>5. Net(run.task)' = Net(t)'  BY <1>9 DEF Net
    <3> QED BY <1>5, <1>9, <3>3, <3>4, <3>5 DEF EnvOK
  <2> QED BY <2>1, <2>3, <2>5, <2>6 DEF RunningOK
<1>11. UnforcedInv'  BY <1>1, <1>4, <1>5, UnforcedKept
<1>12. VouchInv'
  <2>1. Reached' = Reached  BY <1>2, <1>9 DEF Reached
  <2>2. \A j : (Behind(j)' <=> Behind(j)) /\ (Traced(j)' <=> Traced(j))
    BY <1>9, <2>1 DEF Behind, Traced
  <2>3. txs \subseteq txs'  OBVIOUS
  <2> HIDE DEF Deploys
  <2> QED BY <1>1, <1>4, <1>5, <1>9, <2>2, <2>3, VouchStep
<1>13. LossInv'
  <2>1. Unsettled = {} /\ Unsettled' = {<<"live", Len(chain) + 1>>}  BY <1>9 DEF Unsettled
  <2> QED BY <1>1, <2>1, LossAdds
<1>14. NeedInv'
  <2>1. contract.task = t /\ contract.name = Script[t][c].name  BY <1>3 DEF deploymentTxData
  <2>2. Had(t, c)' = 1
    BY <1>9 DEF Had
  <2>3. Pending(t, c)' = 0
    <3>1. run.pc' = c /\ run.phase' = "deployed"  BY <1>9
    <3> QED BY <1>1, <1>2, <3>1 DEF Pending
  <2>4. Had(t, c) = 0 \/ Pending(t, c) = 1
    <3>1. CASE run.force  BY <1>2, <3>1 DEF Pending
    <3>2. CASE ~run.force  BY <1>3, <3>2 DEF Had
    <3> QED BY <3>1, <3>2
  <2>5. ASSUME NEW u \in Focus, NEW j \in Steps(u)
        PROVE  Pending(u, j)' <= Pending(u, j) /\ Had(u, j) <= Had(u, j)'
    <3>1. Net(u)' = Net(u)  BY <1>1, <1>5, FocusTasks DEF SameNet
    <3>2. Had(u, j) <= Had(u, j)'  BY <3>1, HadStays
    <3> QED BY <3>2, PendingStays
  <2>6. Deploys(Script[t][c])  BY <1>1, <1>3
  <2> HIDE DEF Deploys
  <2> QED BY <1>1, <2>1, <2>2, <2>3, <2>4, <2>5, <2>6, NeedAdds
<1> QED BY <1>6, <1>10, <1>11, <1>12, <1>13, <1>14 DEF DeploymentsInv

\* A deployment on the fork of a test run is nothing to the network.
LEMMA SendTest ==
  ASSUME DeploymentsInv, Running, run.phase = "call", Deploying, run.mode = "TEST",
         UNCHANGED <<site, chain, out, txs, saved, crashes, forced>>,
         NEW t \in Focus, t = run.task, NEW i, NEW f, Stays("deployed", run.env, <<"fork", i>>, f)
  PROVE  DeploymentsInv'
<1>1. /\ FilesOK /\ RunOK /\ run.pc \in DOMAIN Script[t] /\ run.pc \in Nat
      /\ UnforcedInv /\ VouchInv /\ LossInv /\ NeedInv
  BY Here DEF DeploymentsInv
<1>2. PICK c \in Steps(t) : c = run.pc  BY <1>1 DEF Steps
<1>3. PICK a : a = <<"fork", i>>  OBVIOUS
<1>4. Extends /\ SameNet /\ Deployed' = Deployed /\ FilesOK' /\ \A u : Net(u)' = Net(u)
  <2>1. Undefined \notin txs' /\ crashes' \in Nat /\ forced' \in Nat  BY <1>1 DEF FilesOK
  <2> QED BY <1>1, <2>1, FilesQuiet
<1>5. /\ run' = RunWith(c, "deployed", run.env, a, f)
      /\ run'.task = t /\ run'.mode = "TEST" /\ run'.force = run.force /\ Running' /\ run'.pc = c
      /\ run'.phase = "deployed" /\ run'.address = a /\ Current' = Current
  BY <1>2, <1>3, AfterStays
<1>6. RunningOK'
  <2>1. ParsedInput(t)' = ParsedInput(t)  BY <1>1, <1>4, InputsKept
  <2>2. RunOK'  BY <1>1, <1>5, <2>1, RunStaysOK
  <2>3. Deploying'  BY <1>5 DEF Deploying
  <2>4. run'.address[1] = "fork"  BY <1>3, <1>5
  <2>5. PhaseOK' /\ CreatedOK' /\ EnvOK'  BY <1>5, <2>3, <2>4 DEF PhaseOK, CreatedOK, EnvOK
  <2> QED BY <2>2, <2>5 DEF RunningOK
<1>7. UnforcedInv'  BY <1>1, <1>4, UnforcedKept
<1>8. VouchInv'  BY <1>5 DEF VouchInv, AtWork
<1>9. LossInv'
  <2>1. Lost' = Lost  BY <1>4 DEF Lost, TopLevel, Traceable, Contract, On, Focus, Deployed
  <2>2. Unsettled = {}  BY DEF Unsettled
  <2> QED BY <1>1, <2>1, <2>2, LossKept
<1>10. NeedInv'
  <2>1. ASSUME NEW u \in Focus, NEW j \in Steps(u)
        PROVE  Pending(u, j)' <= Pending(u, j) /\ Had(u, j) <= Had(u, j)'
    <3>1. Had(u, j) <= Had(u, j)'  BY <1>4, HadStays
    <3> QED BY <3>1, PendingStays
  <2> QED BY <1>1, <2>1, NeedKept
<1> QED BY <1>4, <1>6, <1>7, <1>8, <1>9, <1>10 DEF DeploymentsInv

LEMMA SendKeeps ==
  ASSUME DeploymentsInv, SendDeployment
  PROVE  DeploymentsInv'
<1>1. Running /\ FilesOK /\ RunOK /\ run.task \in Focus
  BY Here DEF SendDeployment, OnCall
<1>2. /\ UNCHANGED <<site, out, txs, saved, crashes, forced>>
      /\ run.phase = "call" /\ Deploying /\ ~MayKeep
      /\ \/ Ends /\ UNCHANGED chain
         \/ /\ run.mode = "LIVE" /\ Supplied(Args)
            /\ chain' = chain \o Created("live", run.task, Current.name, Args)
            /\ Stays("deployed", run.env, <<"live", Len(chain) + 1>>, run.fork)
         \/ /\ run.mode = "TEST" /\ UNCHANGED chain
            /\ \E i, f : Stays("deployed", run.env, <<"fork", i>>, f)
  BY <1>1, SendDeploymentForm
<1>3. CASE Ends /\ UNCHANGED chain  BY <1>1, <1>2, <1>3, Failing
<1>4. CASE /\ run.mode = "LIVE" /\ Supplied(Args)
           /\ chain' = chain \o Created("live", run.task, Current.name, Args)
           /\ Stays("deployed", run.env, <<"live", Len(chain) + 1>>, run.fork)
  <2>1. PICK t \in Focus : t = run.task  BY <1>1
  <2>2. PICK s : s = Current  OBVIOUS
  <2>3. PICK args : args = Args  OBVIOUS
  <2>4. PICK contract : contract = deploymentTxData(t, s.name, args)  OBVIOUS
  <2>5. PICK n : n = s.name  OBVIOUS
  <2>6. chain' = chain \o Created("live", t, n, args)  BY <1>4, <2>1, <2>2, <2>3, <2>5
  <2>7. chain \in Seq(Range(chain))  BY <1>1 DEF FilesOK
  <2>8. Adds(contract)
    <3>1. Adds(deploymentTxData(t, n, args))  BY <2>6, <2>7, Deployment
    <3> QED BY <2>4, <2>5, <3>1
  <2>9. PICK a : a = <<"live", Len(chain) + 1>>  OBVIOUS
  <2>10. Stays("deployed", run.env, a, run.fork)  BY <1>4, <2>9
  <2>11. ~run.force => s.name \notin DOMAIN Net(t)
    BY <1>2, <1>4, <2>1, <2>2 DEF MayKeep, ReadFile, Net
  <2>12. contract = deploymentTxData(t, s.name, Args) /\ Supplied(Args) /\ run.mode = "LIVE"
    BY <1>4, <2>3, <2>4
  <2> HIDE <1>4
  <2> QED BY <1>1, <1>2, <2>1, <2>2, <2>8, <2>9, <2>10, <2>11, <2>12, SendLive
<1>5. CASE /\ run.mode = "TEST" /\ UNCHANGED chain
           /\ \E i, f : Stays("deployed", run.env, <<"fork", i>>, f)
  <2>1. PICK i, f : Stays("deployed", run.env, <<"fork", i>>, f)  BY <1>5
  <2> QED BY <1>1, <1>2, <1>5, <2>1, SendTest
<1> QED BY <1>2, <1>3, <1>4, <1>5

\* The contracts a step passes are those of earlier steps.
LEMMA NamesEarlier ==
  ASSUME NEW t, WellScripted(Script[t]), NEW j \in DOMAIN Script[t], Deploys(Script[t][j]), NEW m,
         \A i \in DOMAIN Script[t] : i < j /\ Deploys(Script[t][i]) => Script[t][i].name # m
  PROVE  ~Names(t, Script[t][j], m)
<1> SUFFICES ASSUME NEW k \in DOMAIN Script[t][j].args, Script[t][j].args[k][1] # "input",
                    Script[t][j].args[k][2] = m
             PROVE  FALSE
  BY DEF Names
<1>1. PICK i \in 1..(j - 1) : Deploys(Script[t][i]) /\ Script[t][j].args[k][2] = Script[t][i].name
  BY DEF WellScripted, Passes
<1>2. i \in DOMAIN Script[t] /\ i < j  BY DEF WellScripted
<1> HIDE DEF Deploys, WellScripted
<1> QED BY <1>1, <1>2

\* What is recorded anew is to agree; what was recorded does.
LEMMA UnforcedGrows ==
  ASSUME FilesOK, UnforcedInv, UNCHANGED <<site, chain>>, forced = 0, Grows,
         \A u \in Focus : \A j \in Steps(u) :
             Deploys(Script[u][j]) /\ Script[u][j].name \in DOMAIN Net(u)' =>
                 \/ Script[u][j].name \in DOMAIN Net(u)
                 \/ Agrees(u, Script[u][j])' /\ Supplied(ArgumentsNow(u, Script[u][j])'),
         \A u \in Focus : \A j, k \in Steps(u) :
             Reads1(Script[u], j, k) /\ Deploys(Script[u][k]) /\ Script[u][j].name \in DOMAIN Net(u)' =>
                 \/ Script[u][j].name \in DOMAIN Net(u)
                 \/ /\ Script[u][k].name \in DOMAIN Net(u)'
                    /\ Net(u)'[Script[u][j].name] = Below(Net(u)'[Script[u][k].name])
  PROVE  UnforcedInv'
<1> HIDE DEF Deploys
<1> SUFFICES ASSUME NEW t \in Focus
             PROVE  /\ \A j \in Steps(t) : Deploys(Script[t][j]) /\ Script[t][j].name \in DOMAIN Net(t)' =>
                          Agrees(t, Script[t][j])' /\ Supplied(ArgumentsNow(t, Script[t][j])')
                    /\ \A j, k \in Steps(t) :
                          Reads1(Script[t], j, k) /\ Deploys(Script[t][k]) /\ Script[t][j].name \in DOMAIN Net(t)' =>
                              /\ Script[t][k].name \in DOMAIN Net(t)'
                              /\ Net(t)'[Script[t][j].name] = Below(Net(t)'[Script[t][k].name])
  <2>1. Focus' = Focus  BY DEF Focus
  <2> QED BY <2>1 DEF UnforcedInv, Steps, Supplied
<1>1. Extends  BY ChainKept DEF FilesOK
<1>2. \A n \in DOMAIN Net(t) : n \in DOMAIN Net(t)' /\ Net(t)'[n] = Net(t)[n]
  <2>1. t \in DOMAIN out  BY FocusTasks
  <2> QED BY <2>1 DEF Grows
<1>3. ASSUME NEW s, s.name \in DOMAIN Net(t), Agrees(t, s), Supplied(ArgumentsNow(t, s))
      PROVE  Agrees(t, s)' /\ Supplied(ArgumentsNow(t, s)')
  <2>1. ArgumentsNow(t, s)' = ArgumentsNow(t, s)  BY <1>3, ArgumentsStay
  <2>2. Net(t)'[s.name] = Net(t)[s.name]  BY <1>2, <1>3
  <2> QED BY <1>1, <1>3, <2>1, <2>2, AgreesKept
<1>4. ASSUME NEW j \in Steps(t), Deploys(Script[t][j]), Script[t][j].name \in DOMAIN Net(t)'
      PROVE  Agrees(t, Script[t][j])' /\ Supplied(ArgumentsNow(t, Script[t][j])')
  <2>1. CASE Script[t][j].name \in DOMAIN Net(t)
    <3>1. Agrees(t, Script[t][j]) /\ Supplied(ArgumentsNow(t, Script[t][j]))
      BY <1>4, <2>1 DEF UnforcedInv
    <3> QED BY <1>3, <2>1, <3>1
  <2>2. CASE Script[t][j].name \notin DOMAIN Net(t)  BY <1>4, <2>2
  <2> QED BY <2>1, <2>2
<1>5. ASSUME NEW j \in Steps(t), NEW k \in Steps(t), Reads1(Script[t], j, k), Deploys(Script[t][k]),
             Script[t][j].name \in DOMAIN Net(t)'
      PROVE  /\ Script[t][k].name \in DOMAIN Net(t)'
             /\ Net(t)'[Script[t][j].name] = Below(Net(t)'[Script[t][k].name])
  <2>1. CASE Script[t][j].name \in DOMAIN Net(t)
    <3>1. /\ Script[t][k].name \in DOMAIN Net(t)
          /\ Net(t)[Script[t][j].name] = Below(Net(t)[Script[t][k].name])
      BY <1>5, <2>1 DEF UnforcedInv
    <3> QED BY <1>2, <2>1, <3>1
  <2>2. CASE Script[t][j].name \notin DOMAIN Net(t)  BY <1>5, <2>2
  <2> QED BY <2>1, <2>2
<1> QED BY <1>4, <1>5

\* Vouching for the steps of a live run that records something.
LEMMA VouchWritten ==
  ASSUME FilesOK, RunOK, Running, VouchInv, UNCHANGED <<site, chain, txs>>,
         NEW t \in Focus, t = run.task, run.mode = "LIVE", NEW m, NEW a, Written(t, m, a),
         run'.task = t, run'.mode = run.mode, run'.force = run.force,
         \A j \in Steps(t) :
             run.force /\ Deploys(Script[t][j]) /\ Script[t][j].op # "deployUnforced" =>
                 /\ Behind(j)' => \/ Behind(j) /\ Script[t][j].name # m /\ ~Names(t, Script[t][j], m)
                                  \/ Vouched(t, Script[t][j])'
                 /\ Traced(j)' => Traced(j) /\ Script[t][j].name # m
  PROVE  VouchInv'
<1> HIDE DEF Deploys
<1>1. Focus' = Focus /\ Extends  BY ChainKept DEF Focus, FilesOK
<1>2. ~AtWork("CHECK")'  BY DEF AtWork
<1>3. Net(t)' = With(Net(t), m, a)  BY DEF Written
<1>4. \A n \in DOMAIN Net(t) : n # m => n \in DOMAIN Net(t)' /\ Net(t)'[n] = Net(t)[n]
  BY <1>3 DEF With
<1>5. ASSUME NEW s, Vouched(t, s), s.name # m
      PROVE  /\ ~Names(t, s, m) => Vouched(t, s)'
             /\ Net(t)'[s.name] = Net(t)[s.name]
  <2>1. s.name \in DOMAIN Net(t) /\ s.name \in DOMAIN Net(t)' /\ Net(t)'[s.name] = Net(t)[s.name] /\ Agrees(t, s)
    BY <1>4, <1>5 DEF Vouched
  <2>2. ASSUME ~Names(t, s, m) PROVE Vouched(t, s)'
    <3>1. ArgumentsNow(t, s)' = ArgumentsNow(t, s)  BY <2>2, ArgumentsWritten
    <3>2. Agrees(t, s)'  BY <1>1, <2>1, <3>1, AgreesKept
    <3> QED BY <2>1, <3>2 DEF Vouched
  <2> QED BY <2>1, <2>2
<1>6. ASSUME run'.force, NEW j \in Steps(t), Deploys(Script[t][j]), Script[t][j].op # "deployUnforced"
      PROVE  /\ Behind(j)' => Vouched(t, Script[t][j])'
             /\ Traced(j)' /\ site'.network \in VERIFIED_NETWORKS => Net(t)'[Script[t][j].name] \in txs'
  <2>1. run.force /\ AtWork("LIVE")  BY <1>6 DEF AtWork, Running
  <2>2. Behind(j) => Vouched(t, Script[t][j])  BY <1>6, <2>1 DEF VouchInv
  <2>3. Traced(j) /\ site.network \in VERIFIED_NETWORKS => Net(t)[Script[t][j].name] \in txs
    BY <1>6, <2>1 DEF VouchInv, Traceable
  <2>4. Behind(j)' => Vouched(t, Script[t][j])'  BY <1>5, <1>6, <2>1, <2>2
  <2>5. Traced(j) => Behind(j)  BY DEF Traced, Behind
  <2> QED BY <1>5, <1>6, <2>1, <2>2, <2>3, <2>4, <2>5
<1>7. run'.task \in Focus' /\ \A u \in Focus' : u = run'.task => u = t  BY <1>1
<1> HIDE DEF Behind, Traced, Vouched
<1> QED BY <1>2, <1>6, <1>7 DEF VouchInv, Steps, Traceable, Net

\* An address recorded, its deployment transaction not yet.
LEMMA RecordLive ==
  ASSUME DeploymentsInv, Running, run.phase = "deployed", run.mode = "LIVE",
         UNCHANGED <<site, chain, txs, crashes, forced>>, Shaped',
         NEW t \in Focus, t = run.task, NEW s, s = Current, NEW a, a = run.address,
         Written(t, s.name, a), saved' = saved \cup {a},
         NEW env, env = With(run.env, s.name, a), Stays("saved", env, a, run.fork)
  PROVE  DeploymentsInv'
<1>1. /\ FilesOK /\ RunOK /\ PhaseOK /\ CreatedOK /\ WellScripted(Script[t]) /\ t \in DOMAIN out
      /\ run.pc \in DOMAIN Script[t] /\ run.pc \in Nat /\ s = Script[t][run.pc] /\ Deploys(s)
      /\ Knows(Script[t], run.env, Reached, Net(t), Deployed)
      /\ UnforcedInv /\ VouchInv /\ LossInv /\ NeedInv
  BY Here DEF DeploymentsInv, RunningOK, PhaseOK
<1>2. PICK c \in Steps(t) : c = run.pc  BY <1>1 DEF Steps
<1>3. s = Script[t][c] /\ \A j \in Steps(t) : j \in Nat
  <2>1. s = Script[t][c]  BY <1>1, <1>2
  <2>2. Steps(t) = 1..Len(Script[t]) /\ Len(Script[t]) \in Nat  BY <1>1, ScriptLength
  <2> QED BY <2>1, <2>2
<1>4. Extends /\ Deployed' = Deployed  BY <1>1, ChainKept DEF FilesOK, Deployed
<1>5. /\ s.name \in DOMAIN Net(t)' /\ Net(t)'[s.name] = a
      /\ \A n \in DOMAIN Net(t) : n # s.name => n \in DOMAIN Net(t)' /\ Net(t)'[n] = Net(t)[n]
  <2>1. Net(t)' = With(Net(t), s.name, a)  BY DEF Written
  <2> QED BY <2>1 DEF With
<1>6. a \in Deployed /\ Made(t, s, a) /\ (~run.force => s.name \notin DOMAIN Net(t))
  BY <1>1, <1>2, <1>3 DEF CreatedOK, IsLive
<1> HIDE DEF Deploys, WellScripted
<1>7. /\ \A j \in Steps(t) : (Deploys(Script[t][j]) \/ Script[t][j].op = "read") /\ Script[t][j].name = s.name => j = c
      /\ \A j \in Steps(t) : j <= c /\ Deploys(Script[t][j]) => ~Names(t, Script[t][j], s.name)
  <2>1. \A j \in Steps(t) : Holds(Script[t][j]) /\ Script[t][j].name = s.name => j = c
    <3>1. Holds(Script[t][c])  BY <1>1, <1>3 DEF Holds
    <3> HIDE DEF Holds
    <3> QED BY <1>1, <1>3, <3>1, HeldOnce DEF Steps
  <2>2. \A j \in Steps(t) : (Deploys(Script[t][j]) \/ Script[t][j].op = "read") => Holds(Script[t][j])
    BY DEF Holds
  <2> HIDE DEF Holds
  <2>3. ASSUME NEW j \in Steps(t), j <= c, Deploys(Script[t][j]) PROVE ~Names(t, Script[t][j], s.name)
    <3>1. \A i \in DOMAIN Script[t] : i < j /\ Deploys(Script[t][i]) => Script[t][i].name # s.name
      BY <1>3, <2>1, <2>2, <2>3 DEF Steps
    <3> QED BY <1>1, <2>3, <3>1, NamesEarlier DEF Steps
  <2> QED BY <2>1, <2>2, <2>3
<1>8. ~Names(t, s, s.name)  BY <1>1, <1>3, <1>7
<1>9. ParsedInput(t)' = ParsedInput(t) /\ ArgumentsNow(t, s)' = ArgumentsNow(t, s)
  <2>1. PICK m : m = s.name  OBVIOUS
  <2> QED BY <1>1, <1>8, <2>1, ArgumentsWritten
<1>10. Agrees(t, s)' /\ Supplied(ArgumentsNow(t, s)') /\ Vouched(t, s)'
  <2>1. IsLive(a)  BY <1>6 DEF IsLive
  <2>2. Contract(a)' = Contract(a)  BY <1>1, <1>4, <2>1, ExtendsKeeps DEF FilesOK
  <2>3. Contract(a) = deploymentTxData(t, s.name, ArgumentsNow(t, s)) /\ Supplied(ArgumentsNow(t, s))
    BY <1>6 DEF Made
  <2>4. Agrees(t, s)'  BY <1>5, <1>9, <2>2, <2>3, AgreesThen
  <2>5. s.name \in DOMAIN Net(t)'  BY <1>5
  <2> QED BY <1>9, <2>3, <2>4, <2>5 DEF Vouched
<1>11. /\ run' = RunWith(c, "saved", env, a, run.fork)
       /\ run'.task = t /\ run'.mode = "LIVE" /\ run'.force = run.force /\ Running' /\ run'.pc = c
       /\ run'.phase = "saved" /\ run'.env = env /\ run'.address = a /\ Current' = Current
  BY <1>2, AfterStays
<1>12. FilesOK'
  <2>1. Undefined \notin txs' /\ crashes' \in Nat /\ forced' \in Nat  BY <1>1 DEF FilesOK
  <2>2. IsLive(a)  BY <1>6 DEF IsLive
  <2> QED BY <1>1, <2>1, <2>2, FilesWritten
<1>13. RunningOK'
  <2>1. RunOK'  BY <1>1, <1>9, <1>11, RunStaysOK
  <2>2. Deploying'  BY <1>1, <1>11 DEF PhaseOK, Deploying
  <2>3. PhaseOK'
    <3>1. Current' = s /\ a \in saved'  BY <1>11
    <3>2. Net(run.task)' = Net(t)'  BY <1>11 DEF Net
    <3> QED BY <1>5, <1>11, <2>2, <3>1, <3>2 DEF PhaseOK
  <2>4. CreatedOK'  BY <1>11 DEF CreatedOK
  <2>5. EnvOK'
    <3>1. Reached = c /\ Reached' = c + 1  BY <1>2, <1>11 DEF Reached
    <3>2. \A j \in DOMAIN Script[t] : j < c /\ Deploys(Script[t][j]) /\ Script[t][j].name \in DOMAIN Net(t) =>
             Script[t][j].name \in DOMAIN Net(t)' /\ Net(t)'[Script[t][j].name] = Net(t)[Script[t][j].name]
      BY <1>3, <1>5, <1>7 DEF Steps
    <3>3. PICK net : net = Net(t)'  OBVIOUS
    <3>4. Knows(Script[t], run.env, c, net, Deployed)
      BY SMTT(30), <1>1, <3>1, <3>2, <3>3, KnowsKept
    <3>5. Knows(Script[t], With(run.env, Script[t][c].name, a), c + 1, net, Deployed)
      BY <1>1, <1>3, <1>5, <1>6, <3>3, <3>4, KnowsDeployed DEF Steps
    <3>6. Net(run.task)' = Net(t)'  BY <1>11 DEF Net
    <3> QED BY <1>3, <1>4, <1>11, <3>1, <3>3, <3>5, <3>6 DEF EnvOK
  <2> QED BY <2>1, <2>3, <2>4, <2>5 DEF RunningOK
<1>14. UnforcedInv'
  <2>1. CASE forced # 0  BY <2>1 DEF UnforcedInv
  <2>2. CASE forced = 0
    <3>1. s.name \notin DOMAIN Net(t)  BY <1>1, <1>6, <2>2 DEF RunOK, FilesOK
    <3>2. Grows
      <4>1. PICK m : m = s.name  OBVIOUS
      <4> QED BY <1>1, <3>1, <4>1, WrittenGrows
    <3>3. ASSUME NEW u \in Focus, NEW n \in DOMAIN Net(u)' PROVE n \in DOMAIN Net(u) \/ (u = t /\ n = s.name)
      <4>1. u \in DOMAIN out  BY <1>1, FocusTasks
      <4>2. CASE u = t
        <5>1. Net(u)' = With(Net(t), s.name, a)  BY <4>2 DEF Written
        <5>2. n \in DOMAIN Net(t) \cup {s.name}  BY <5>1 DEF With
        <5> QED BY <4>2, <5>2
      <4>3. CASE u # t  BY <4>1, <4>3 DEF Written
      <4> QED BY <4>2, <4>3
    <3>4. ASSUME NEW u \in Focus, NEW j \in Steps(u), Deploys(Script[u][j]), Script[u][j].name \in DOMAIN Net(u)'
          PROVE  \/ Script[u][j].name \in DOMAIN Net(u)
                 \/ Agrees(u, Script[u][j])' /\ Supplied(ArgumentsNow(u, Script[u][j])')
      <4>1. CASE u = t /\ Script[u][j].name = s.name
        <5>1. Script[u][j] = s  BY <1>3, <1>7, <3>4, <4>1
        <5> QED BY <1>10, <4>1, <5>1
      <4> QED BY <3>3, <3>4, <4>1
    <3>5. ASSUME NEW u \in Focus, NEW j \in Steps(u), NEW k \in Steps(u), Reads1(Script[u], j, k),
                 Deploys(Script[u][k]), Script[u][j].name \in DOMAIN Net(u)'
          PROVE  Script[u][j].name \in DOMAIN Net(u)
      <4>1. Script[u][j].op = "read"  BY <3>5 DEF Reads1
      <4>2. ~(u = t /\ Script[u][j].name = s.name)
        <5>1. ~Deploys(Script[u][j])  BY <4>1 DEF Deploys
        <5> QED BY <1>1, <1>3, <1>7, <4>1, <5>1
      <4> QED BY <3>3, <3>5, <4>2
    <3> QED BY <1>1, <2>2, <3>2, <3>4, <3>5, UnforcedGrows
  <2> QED BY <2>1, <2>2
<1>15. VouchInv'
  <2>1. Reached = c /\ Reached' = c + 1  BY <1>2, <1>11 DEF Reached
  <2>2. \A j \in Steps(t) : /\ Behind(j)' => j < c \/ j = c
                            /\ Traced(j)' => j < c
                            /\ j < c => Behind(j) /\ Traced(j) /\ j # c /\ j <= c
    BY <1>2, <1>3, <1>11, <2>1 DEF Behind, Traced
  <2>3. ASSUME NEW j \in Steps(t), Deploys(Script[t][j])
        PROVE  /\ Behind(j)' => \/ Behind(j) /\ Script[t][j].name # s.name /\ ~Names(t, Script[t][j], s.name)
                                \/ Vouched(t, Script[t][j])'
               /\ Traced(j)' => Traced(j) /\ Script[t][j].name # s.name
    <3>1. j = c => Vouched(t, Script[t][j])'  BY <1>3, <1>10
    <3>2. j < c => Script[t][j].name # s.name /\ ~Names(t, Script[t][j], s.name)  BY <1>7, <2>2, <2>3
    <3> QED BY <2>2, <3>1, <3>2
  <2>4. PICK m : m = s.name  OBVIOUS
  <2> HIDE DEF Behind, Traced, Vouched, Names
  <2>5. \A j \in Steps(t) :
          run.force /\ Deploys(Script[t][j]) /\ Script[t][j].op # "deployUnforced" =>
              /\ Behind(j)' => \/ Behind(j) /\ Script[t][j].name # m /\ ~Names(t, Script[t][j], m)
                               \/ Vouched(t, Script[t][j])'
              /\ Traced(j)' => Traced(j) /\ Script[t][j].name # m
    BY <2>3, <2>4
  <2>6. /\ FilesOK /\ RunOK /\ Running /\ VouchInv /\ UNCHANGED <<site, chain, txs>>
        /\ t = run.task /\ run.mode = "LIVE" /\ Written(t, m, a)
        /\ run'.task = t /\ run'.mode = run.mode /\ run'.force = run.force
    BY <1>1, <1>11, <2>4
  <2> QED BY <2>5, <2>6, VouchWritten
<1>16. LossInv'
  <2>1. Unsettled = {a} /\ Unsettled' = {a}  BY <1>11 DEF Unsettled
  <2>2. ASSUME NEW b \in Lost' PROVE b \in Lost
    <3>1. DOMAIN chain' \ DOMAIN chain = {}  OBVIOUS
    <3>2. saved \subseteq saved' /\ txs \subseteq txs'  OBVIOUS
    <3> QED BY <1>1, <1>4, <3>1, <3>2, LostShrinks
  <2> QED BY <1>1, <2>1, <2>2, LossKept
<1>17. NeedInv'
  <2>1. ASSUME NEW u \in Focus, NEW j \in Steps(u)
        PROVE  Pending(u, j)' <= Pending(u, j) /\ Had(u, j) <= Had(u, j)'
    <3>1. Pending(u, j)' <= Pending(u, j)  BY PendingStays
    <3>2. CASE Script[u][j].name \in DOMAIN Net(u)'
      <4>1. Had(u, j)' = 1  BY <3>2 DEF Had
      <4>2. Had(u, j) \in {0, 1}  BY DEF Had
      <4> QED BY <3>1, <4>1, <4>2
    <3>3. CASE Script[u][j].name \notin DOMAIN Net(u)'
      <4>1. u \in DOMAIN out  BY <1>1, FocusTasks
      <4>2. Script[u][j].name \notin DOMAIN Net(u)
        <5>1. CASE u = t  BY <1>5, <3>3, <5>1
        <5>2. CASE u # t  BY <3>3, <4>1, <5>2 DEF Written
        <5> QED BY <5>1, <5>2
      <4>3. ~(u = t /\ j = c)  BY <1>3, <1>5, <3>3
      <4>4. Had(u, j) = 0  BY <1>2, <4>2, <4>3 DEF Had
      <4>5. Had(u, j)' \in {0, 1}  BY DEF Had
      <4> QED BY <3>1, <4>4, <4>5
    <3> QED BY <3>2, <3>3
  <2> QED BY <1>1, <2>1, NeedKept
<1> QED BY <1>12, <1>13, <1>14, <1>15, <1>16, <1>17 DEF DeploymentsInv

LEMMA RecordAddressKeeps ==
  ASSUME DeploymentsInv, RecordAddress
  PROVE  DeploymentsInv'
<1>0. Running /\ run.phase = "deployed"  BY DEF RecordAddress
<1>1. /\ FilesOK /\ RunOK /\ PhaseOK /\ run.task \in Focus /\ run.task \in DOMAIN out
      /\ run.pc \in DOMAIN Script[run.task] /\ Current = Script[run.task][run.pc]
  BY <1>0, Here
<1>2. PICK t \in Focus : t = run.task  BY <1>1
<1>3. PICK s : s = Current  OBVIOUS
<1>4. PICK a : a = run.address  OBVIOUS
<1>5. PICK m : m = s.name  OBVIOUS
<1>6. PICK env : env = With(run.env, m, a)  OBVIOUS
<1>7. PICK f \in Files : f = SaveFile  BY DEF Files, SaveFile
<1>8. /\ UNCHANGED <<site, chain, txs, crashes, forced>>
      /\ out' = [out EXCEPT ![t][f] = With(@, m, a)]
      /\ IF run.mode = "LIVE" THEN saved' = saved \cup {a} /\ Stays("saved", env, a, run.fork)
         ELSE UNCHANGED saved /\ MovesOn(env)
  BY <1>1, <1>2, <1>3, <1>4, <1>5, <1>6, <1>7, RecordAddressForm
<1>9. Shaped' /\ (f = "network" => Written(t, m, a)) /\ (f = "test" => SameNet)
  <2>1. Shaped /\ t \in DOMAIN out  BY <1>1, <1>2 DEF FilesOK, Shaped
  <2> QED BY <1>8, <2>1, WriteOut
<1>10. CASE run.mode = "LIVE"
  <2>1. f = "network"  BY <1>7, <1>10 DEF SaveFile
  <2> QED BY <1>0, <1>2, <1>3, <1>4, <1>5, <1>6, <1>8, <1>9, <1>10, <2>1, RecordLive
<1>11. CASE run.mode # "LIVE"
  <2>1. f = "test" /\ run.mode = "TEST"  BY <1>0, <1>1, <1>7, <1>11 DEF SaveFile, PhaseOK
  <2>2. Over(env)  BY <1>8, <1>11 DEF Over
  <2>3. txs \subseteq txs' /\ Undefined \notin txs'  BY <1>1, <1>8 DEF FilesOK
  <2> QED BY <1>0, <1>2, <1>8, <1>9, <1>11, <2>1, <2>2, <2>3, QuietStep
<1> QED BY <1>10, <1>11

\* What a script saves is what it read of a contract it deployed, by a name of its own.
LEMMA SaveStep ==
  ASSUME NEW q, WellScripted(q), NEW c \in DOMAIN q, q[c].op = "save"
  PROVE  /\ DOMAIN q \subseteq Nat
         /\ \E j, k \in DOMAIN q :
              /\ k < j /\ j < c /\ q[j].op = "read" /\ q[j].name = q[c].name
              /\ Deploys(q[k]) /\ q[j].args = <<At(q[k].name)>>
              /\ \A i \in DOMAIN q : (Deploys(q[i]) \/ q[i].op = "read") /\ q[i].name = q[c].name => i = j
              /\ \A i \in DOMAIN q : Deploys(q[i]) /\ q[i].name = q[k].name => i = k
<1> HIDE DEF Deploys, Holds, Passes
<1>1. DOMAIN q = 1..Len(q) /\ Len(q) \in Nat /\ c \in Nat  BY DEF WellScripted
<1>2. PICK j \in 1..(c - 1) : \E k \in 1..(j - 1) :
         /\ q[j].op = "read" /\ q[j].name = q[c].name
         /\ Deploys(q[k]) /\ q[j].args = <<At(q[k].name)>>
  BY DEF WellScripted
<1>3. PICK k \in 1..(j - 1) :
         /\ q[j].op = "read" /\ q[j].name = q[c].name
         /\ Deploys(q[k]) /\ q[j].args = <<At(q[k].name)>>
  BY <1>2
<1>4. j \in DOMAIN q /\ k \in DOMAIN q /\ k < j /\ j < c  BY <1>1
<1>5. \A i \in DOMAIN q : (Deploys(q[i]) \/ q[i].op = "read") => Holds(q[i])  BY DEF Holds
<1>6. \A i, l \in DOMAIN q : Holds(q[i]) /\ Holds(q[l]) /\ q[i].name = q[l].name => i = l
  BY DEF WellScripted
<1> QED BY <1>1, <1>3, <1>4, <1>5, <1>6

\* A contract that another created, recorded by its name.
LEMMA SaveLive ==
  ASSUME DeploymentsInv, Running, run.phase = "call", run.mode = "LIVE",
         UNCHANGED <<site, chain, txs, saved, crashes, forced>>, Shaped',
         NEW t \in Focus, t = run.task, NEW s, s = Current, s.op = "save",
         NEW m, m = s.name, NEW a, a = run.env[m], Written(t, m, a), MovesOn(run.env)
  PROVE  DeploymentsInv'
<1>1. /\ FilesOK /\ RunOK /\ WellScripted(Script[t]) /\ t \in DOMAIN out
      /\ run.pc \in DOMAIN Script[t] /\ run.pc \in Nat /\ s = Script[t][run.pc]
      /\ Knows(Script[t], run.env, Reached, Net(t), Deployed)
      /\ UnforcedInv /\ VouchInv /\ LossInv /\ NeedInv
  BY Here DEF DeploymentsInv
<1>a. FilesOK  BY <1>1
<1>b. \A u \in Focus : u \in DOMAIN out /\ \A j \in Steps(u) : j \in Nat
  BY <1>a, FocusTasks DEF Steps, WellScripted
<1>2. PICK c \in Steps(t) : c = run.pc  BY <1>1 DEF Steps
<1>3. s = Script[t][c] /\ (\A j \in Steps(t) : j \in Nat) /\ Reached = c
  <2>1. Reached = c  BY <1>2 DEF Reached
  <2> QED BY <1>1, <1>2, <1>b, <2>1
<1>4. Extends /\ Deployed' = Deployed  BY <1>1, ChainKept DEF FilesOK, Deployed
<1>5. ~Deploys(s) /\ ~Holds(s)  BY DEF Deploys, Holds
<1> HIDE DEF Deploys, WellScripted
<1>6. \E j, k \in Steps(t) :
         /\ k < j /\ j < c /\ Script[t][j].op = "read" /\ Script[t][j].name = m
         /\ Deploys(Script[t][k]) /\ Script[t][j].args = <<At(Script[t][k].name)>>
         /\ \A i \in Steps(t) : (Deploys(Script[t][i]) \/ Script[t][i].op = "read") /\ Script[t][i].name = m => i = j
         /\ \A i \in Steps(t) : Deploys(Script[t][i]) /\ Script[t][i].name = Script[t][k].name => i = k
  <2>1. PICK q : q = Script[t]  OBVIOUS
  <2>2. c \in DOMAIN q /\ WellScripted(q) /\ q[c].op = "save" /\ q[c].name = m
    BY <1>1, <1>3, <2>1 DEF Steps
  <2>3. PICK j, k \in DOMAIN q :
          /\ k < j /\ j < c /\ q[j].op = "read" /\ q[j].name = q[c].name
          /\ Deploys(q[k]) /\ q[j].args = <<At(q[k].name)>>
          /\ \A i \in DOMAIN q : (Deploys(q[i]) \/ q[i].op = "read") /\ q[i].name = q[c].name => i = j
          /\ \A i \in DOMAIN q : Deploys(q[i]) /\ q[i].name = q[k].name => i = k
    <3>1. c \in DOMAIN q /\ WellScripted(q) /\ q[c].op = "save"  BY <2>2
    <3> QED BY <3>1, SaveStep
  <2> QED BY <2>1, <2>2, <2>3 DEF Steps
<1>7. PICK j, k \in Steps(t) :
         /\ k < j /\ j < c /\ Script[t][j].op = "read" /\ Script[t][j].name = m
         /\ Deploys(Script[t][k]) /\ Script[t][j].args = <<At(Script[t][k].name)>>
         /\ \A i \in Steps(t) : (Deploys(Script[t][i]) \/ Script[t][i].op = "read") /\ Script[t][i].name = m => i = j
         /\ \A i \in Steps(t) : Deploys(Script[t][i]) /\ Script[t][i].name = Script[t][k].name => i = k
  BY <1>6
<1>8. k < j /\ j < c /\ k < c
  <2>1. j \in Nat /\ k \in Nat /\ c \in Nat  BY <1>3
  <2>2. k < j /\ j < c  BY <1>7
  <2> QED BY <2>1, <2>2
<1>9. \A i \in Steps(t) : (Deploys(Script[t][i]) \/ Script[t][i].op = "read") /\ Script[t][i].name = m => i = j
  BY <1>7
<1>10. \A i \in Steps(t) : Deploys(Script[t][i]) /\ Script[t][i].name = Script[t][k].name => i = k
  BY <1>7
<1>11. \A i \in Steps(t) : Deploys(Script[t][i]) => Script[t][i].name # m
  <2>1. ~Deploys(Script[t][j])  BY <1>7 DEF Deploys
  <2> QED BY <1>9, <2>1
<1>12. \A i \in Steps(t) : Deploys(Script[t][i]) => ~Names(t, Script[t][i], m)
  BY <1>1, <1>11, NamesEarlier DEF Steps
<1>13. /\ a \in Deployed /\ Script[t][k].name \in DOMAIN Net(t)
       /\ a = Below(Net(t)[Script[t][k].name])
  <2>1. Holds(Script[t][j]) /\ Holds(Script[t][k])  BY <1>7 DEF Holds
  <2>2. Reads1(Script[t], j, k)  BY <1>7, <1>8 DEF Reads1
  <2> HIDE DEF Holds
  <2>3. m \in DOMAIN run.env /\ run.env[m] \in Deployed
    BY ZenonT(30), <1>1, <1>3, <1>7, <1>8, <2>1 DEF Knows, Steps
  <2>4. Script[t][k].name \in DOMAIN Net(t) /\ Net(t)[Script[t][k].name] = run.env[Script[t][k].name]
    BY <1>1, <1>3, <1>7, <1>8 DEF Knows, Steps
  <2>5. run.env[m] = Below(run.env[Script[t][k].name])
    <3>1. \A p, q \in Steps(t) : p < c /\ Reads1(Script[t], p, q) /\ Holds(Script[t][q]) =>
             run.env[Script[t][p].name] = Below(run.env[Script[t][q].name])
      BY ZenonT(30), <1>1, <1>3 DEF Knows, Steps
    <3> QED BY SMTT(30), <1>7, <1>8, <2>1, <2>2, <3>1
  <2> QED BY <2>3, <2>4, <2>5
<1>14. /\ m \in DOMAIN Net(t)' /\ Net(t)'[m] = a
       /\ \A n \in DOMAIN Net(t) : n # m => n \in DOMAIN Net(t)' /\ Net(t)'[n] = Net(t)[n]
       /\ \A n \in DOMAIN Net(t)' : n \in DOMAIN Net(t) \/ n = m
  <2>1. Net(t)' = With(Net(t), m, a)  BY DEF Written
  <2> QED BY <2>1 DEF With
<1>15. FilesOK'
  <2>1. Undefined \notin txs' /\ crashes' \in Nat /\ forced' \in Nat  BY <1>1 DEF FilesOK
  <2>2. IsLive(a)  BY <1>13 DEF IsLive
  <2> QED BY <1>1, <2>1, <2>2, FilesWritten
<1>16. RunningOK'
  <2>1. ParsedInput(t)' = ParsedInput(t)  BY <1>1, ParsedKept DEF Written
  <2>2. Knows(Script[t], run.env, c + 1, Net(t), Deployed)
    BY <1>1, <1>3, <1>5, KnowsOn DEF Steps
  <2>3. \A i \in DOMAIN Script[t] : i < c + 1 /\ Deploys(Script[t][i]) /\ Script[t][i].name \in DOMAIN Net(t) =>
             Script[t][i].name \in DOMAIN Net(t)' /\ Net(t)'[Script[t][i].name] = Net(t)[Script[t][i].name]
    BY <1>11, <1>14 DEF Steps
  <2>4. PICK net : net = Net(t)'  OBVIOUS
  <2>5. PICK d : d = c + 1  OBVIOUS
  <2>6. Knows(Script[t], run.env, d, net, Deployed)
    BY <2>2, <2>3, <2>4, <2>5, KnowsKept
  <2> QED BY <1>1, <1>2, <1>4, <2>1, <2>4, <2>5, <2>6, MovesOnOK
<1>17. UnforcedInv'
  <2>1. CASE forced # 0  BY <2>1 DEF UnforcedInv
  <2>2. CASE forced = 0
    <3>1. m \in DOMAIN Net(t) => Net(t)[m] = a
      <4>1. Reads1(Script[t], j, k)  BY <1>7, <1>8 DEF Reads1
      <4>2. Script[t][j].name \in DOMAIN Net(t) => Net(t)[Script[t][j].name] = Below(Net(t)[Script[t][k].name])
        BY <1>1, <1>7, <2>2, <4>1 DEF UnforcedInv
      <4> QED BY <1>7, <1>13, <4>2
    <3>2. Grows  BY <1>1, <3>1, WrittenGrows
    <3>3. ASSUME NEW u \in Focus, NEW n \in DOMAIN Net(u)' PROVE n \in DOMAIN Net(u) \/ (u = t /\ n = m)
      <4>1. u \in DOMAIN out  BY <1>1, FocusTasks
      <4>2. CASE u = t  BY <1>14, <4>2
      <4>3. CASE u # t  BY <4>1, <4>3 DEF Written
      <4> QED BY <4>2, <4>3
    <3>4. ASSUME NEW u \in Focus, NEW i \in Steps(u), Deploys(Script[u][i]), Script[u][i].name \in DOMAIN Net(u)'
          PROVE  Script[u][i].name \in DOMAIN Net(u)
      BY <1>11, <3>3, <3>4
    <3>5. ASSUME NEW u \in Focus, NEW i \in Steps(u), NEW l \in Steps(u), Reads1(Script[u], i, l),
                 Deploys(Script[u][l]), Script[u][i].name \in DOMAIN Net(u)'
          PROVE  \/ Script[u][i].name \in DOMAIN Net(u)
                 \/ /\ Script[u][l].name \in DOMAIN Net(u)'
                    /\ Net(u)'[Script[u][i].name] = Below(Net(u)'[Script[u][l].name])
      <4>1. CASE u = t /\ Script[u][i].name = m
        <5>1. i = j  BY <1>9, <3>5, <4>1 DEF Reads1
        <5>2. Script[t][l].name = Script[t][k].name
          <6>1. <<At(Script[t][l].name)>> = <<At(Script[t][k].name)>>  BY <1>7, <3>5, <4>1, <5>1 DEF Reads1
          <6> QED BY <6>1 DEF At
        <5>3. l = k  BY <1>10, <3>5, <4>1, <5>2
        <5>4. Script[t][k].name # m  BY <1>7, <1>8, <1>11
        <5> QED BY <1>13, <1>14, <4>1, <5>3, <5>4
      <4> QED BY <3>3, <3>5, <4>1
    <3> QED BY ZenonT(30), <1>1, <2>2, <3>2, <3>4, <3>5, UnforcedGrows
  <2> QED BY <2>1, <2>2
<1>18. /\ run'.task = t /\ run'.mode = run.mode /\ run'.force = run.force
       /\ \A i \in Steps(t) : (Behind(i)' <=> i <= c) /\ (Traced(i)' <=> i <= c)
       /\ Unsettled' = {}
  BY <1>1, <1>2, AfterMovesOn
<1>19. VouchInv'
  <2>1. \A i \in Steps(t) : i < c => Behind(i) /\ Traced(i)
    BY <1>2, <1>3 DEF Behind, Traced
  <2>2. \A i \in Steps(t) : Deploys(Script[t][i]) /\ i <= c => i < c
    BY <1>3, <1>5
  <2> HIDE DEF Behind, Traced, Vouched, Names
  <2>3. ASSUME NEW i \in Steps(t), Deploys(Script[t][i])
        PROVE  /\ Behind(i)' => \/ Behind(i) /\ Script[t][i].name # m /\ ~Names(t, Script[t][i], m)
                                \/ Vouched(t, Script[t][i])'
               /\ Traced(i)' => Traced(i) /\ Script[t][i].name # m
    BY <1>11, <1>12, <1>18, <2>1, <2>2, <2>3
  <2> QED BY ZenonT(30), <1>1, <1>18, <2>3, VouchWritten
<1>20. LossInv'
  <2>1. Unsettled = {}  BY DEF Unsettled
  <2>2. ASSUME NEW b \in Lost' PROVE b \in Lost
    <3>1. DOMAIN chain' \ DOMAIN chain = {}  OBVIOUS
    <3>2. saved \subseteq saved' /\ txs \subseteq txs'  OBVIOUS
    <3> QED BY <1>1, <1>4, <3>1, <3>2, LostShrinks
  <2> QED BY <1>1, <1>18, <2>1, <2>2, LossKept
<1>21. NeedInv'
  <2>1. ASSUME NEW u \in Focus, NEW i \in Steps(u)
        PROVE  Pending(u, i)' <= Pending(u, i) /\ Had(u, i) <= Had(u, i)'
    <3>1. u \in DOMAIN out /\ i \in Nat  BY <1>b
    <3>2. \A n \in DOMAIN Net(u) : n \in DOMAIN Net(u)'
      <4>1. CASE u = t  BY <1>14, <4>1
      <4>2. CASE u # t  BY <3>1, <4>2 DEF Written
      <4> QED BY <4>1, <4>2
    <3>3. Had(u, i) <= Had(u, i)'  BY <3>2, HadStays
    <3> QED BY <1>1, <3>1, <3>3, PendingMoves
  <2> QED BY <1>1, <2>1, NeedKept
<1> QED BY <1>15, <1>16, <1>17, <1>19, <1>20, <1>21 DEF DeploymentsInv

LEMMA SaveContractKeeps ==
  ASSUME DeploymentsInv, SaveContract
  PROVE  DeploymentsInv'
<1>0. Running /\ run.phase = "call"  BY DEF SaveContract, OnCall
<1>1. /\ FilesOK /\ RunOK /\ PhaseOK /\ run.task \in Focus /\ run.task \in DOMAIN out
      /\ WellScripted(Script[run.task])
      /\ run.pc \in DOMAIN Script[run.task] /\ Current = Script[run.task][run.pc]
      /\ run.mode # "TEST" => Knows(Script[run.task], run.env, Reached, Net(run.task), Deployed)
  BY <1>0, Here
<1>2. PICK t \in Focus : t = run.task  BY <1>1
<1>3. PICK s : s = Current  OBVIOUS
<1>4. PICK m : m = s.name  OBVIOUS
<1>5. PICK a : a = run.env[m]  OBVIOUS
<1>6. PICK f \in Files : f = SaveFile  BY DEF Files, SaveFile
<1>7. /\ UNCHANGED <<site, chain, txs, saved, crashes, forced>>
      /\ s.op = "save" /\ MovesOn(run.env) /\ out' = [out EXCEPT ![t][f] = With(@, m, a)]
  BY <1>1, <1>2, <1>3, <1>4, <1>5, <1>6, SaveForm
<1>8. Shaped' /\ (f = "network" => Written(t, m, a)) /\ (f = "test" => SameNet)
  <2>1. Shaped /\ t \in DOMAIN out  BY <1>1, <1>2 DEF FilesOK, Shaped
  <2> QED BY <1>7, <2>1, WriteOut
<1>9. CASE run.mode = "LIVE"
  <2>1. f = "network"  BY <1>6, <1>9 DEF SaveFile
  <2> QED BY <1>0, <1>2, <1>3, <1>4, <1>5, <1>7, <1>8, <1>9, <2>1, SaveLive
<1>10. CASE run.mode # "LIVE"
  <2>1. f = "test"  BY <1>6, <1>10 DEF SaveFile
  <2>2. ~Deploys(Script[t][run.pc]) /\ ~Holds(Script[t][run.pc])
    BY <1>1, <1>2, <1>3, <1>7 DEF Deploys, Holds
  <2> HIDE DEF Deploys, Holds, WellScripted
  <2>3. run.mode # "TEST" => Knows(Script[t], run.env, run.pc + 1, Net(t), Deployed)
    <3>1. PICK c \in DOMAIN Script[t] : c = run.pc  BY <1>1, <1>2
    <3>2. Reached = c  BY <1>0, <3>1 DEF Reached
    <3> QED BY <1>1, <1>2, <2>2, <3>1, <3>2, KnowsOn
  <2>4. txs \subseteq txs' /\ Undefined \notin txs'  BY <1>1, <1>7 DEF FilesOK
  <2>5. Over(run.env)  BY <1>7 DEF Over
  <2> QED BY <1>0, <1>2, <1>7, <1>8, <1>10, <2>1, <2>2, <2>3, <2>4, <2>5, QuietStep
<1> QED BY <1>9, <1>10

------------------------------------------------------------------------------
(* The invariant of the specification.                                     *)

LEMMA Initially == Init => DeploymentsInv
<1> SUFFICES ASSUME Init PROVE DeploymentsInv  OBVIOUS
<1>1. /\ site \in Sites /\ chain = <<>> /\ saved = {} /\ crashes = 0 /\ forced = 0
      /\ txs = {Given(d[1], d[2]) : d \in Dependencies(site)}
      /\ run = Ended(site.focus[1], "READ_ONLY", FALSE, "idle")
  BY DEF Init
<1>2. out = [t \in Focus \cup {d[1] : d \in Dependencies(site)} |-> [f \in Files |->
               [n \in {d[2] : d \in {d \in Dependencies(site) : d[1] = t /\ f = "network"}} |-> Given(t, n)]]]
  BY DEF Init
<1>3. ~Running /\ run.status = "idle"  BY <1>1 DEF Ended, Running
<1>4. Deployed = {}  BY <1>1 DEF Deployed
<1>5. DOMAIN out = Focus \cup {d[1] : d \in Dependencies(site)} /\ Focus \subseteq DOMAIN out
  BY <1>2
<1>6. ASSUME NEW t \in Focus, NEW e \in EntriesOn(t, site.network), e.kind # "value"
      PROVE  e.task \in DOMAIN out
  <2>1. CASE e.task \in Focus  BY <1>5, <2>1
  <2>2. CASE e.task \notin Focus
    <3>1. <<e.task, e.output>> \in Dependencies(site)
      BY <1>6, <2>2 DEF Dependencies, Focus
    <3>2. <<e.task, e.output>>[1] = e.task  OBVIOUS
    <3> QED BY <1>5, <3>1, <3>2
  <2> QED BY <2>1, <2>2
<1>7. ASSUME NEW t \in Focus PROVE DOMAIN Net(t) = {}
  <2>1. ASSUME NEW d \in Dependencies(site) PROVE d[1] # t
    <3>1. PICK e \in {e \in UNION {EntriesOn(u, site.network) : u \in Range(site.focus)} :
                        e.kind # "value" /\ e.task \notin Range(site.focus)} : d = <<e.task, e.output>>
      BY DEF Dependencies
    <3> QED BY <3>1 DEF Focus
  <2>2. "network" \in Files  BY DEF Files
  <2>3. Net(t) = [n \in {d[2] : d \in {d \in Dependencies(site) : d[1] = t /\ "network" = "network"}} |-> Given(t, n)]
    BY <1>2, <2>2 DEF Net
  <2> QED BY <2>1, <2>3
<1>8. FilesOK
  <2>1. out = [t \in DOMAIN out |-> [f \in Files |-> out[t][f]]]
    <3>1. ASSUME NEW t \in DOMAIN out PROVE out[t] = [f \in Files |-> out[t][f]]
      BY <1>2
    <3>2. out = [t \in DOMAIN out |-> out[t]]  BY <1>2
    <3> QED BY <3>1, <3>2
  <2>2. chain \in Seq(Range(chain))  BY <1>1
  <2>3. Undefined \notin txs  BY <1>1 DEF Undefined, Given
  <2> QED BY <1>1, <1>5, <1>6, <1>7, <2>1, <2>2, <2>3 DEF FilesOK
<1>9. UnforcedInv
  <2> HIDE DEF Deploys
  <2> QED BY <1>7 DEF UnforcedInv
<1>10. VouchInv  BY <1>3 DEF VouchInv, AtWork
<1>11. LossInv
  <2>1. Lost \ Unsettled = {}  BY <1>4 DEF Lost
  <2>2. Cardinality({}) = 0  BY FS_EmptySet
  <2>3. Cardinality(Lost \ Unsettled) = 0  BY <2>1, <2>2
  <2> QED BY <1>1, <2>3 DEF LossInv
<1>12. NeedInv
  <2>1. ASSUME NEW t, NEW j PROVE /\ Cardinality(CreatedAs(t, Script[t][j].name)) = 0
                                  /\ Pending(t, j) = 0 /\ Had(t, j) \in {0, 1}
    <3>1. CreatedAs(t, Script[t][j].name) = {}  BY <1>4 DEF CreatedAs
    <3> QED BY <1>3, <3>1, FS_EmptySet DEF Pending, Had
  <2> QED BY <1>1, <2>1 DEF NeedInv
<1> QED BY <1>3, <1>8, <1>9, <1>10, <1>11, <1>12 DEF DeploymentsInv, RunningOK

\* The explorer changes nothing of this.
LEMMA ExplorerKeeps ==
  ASSUME DeploymentsInv, UNCHANGED <<site, chain, out, txs, run, saved, crashes, forced>>
  PROVE  DeploymentsInv'
<1>1. /\ Focus' = Focus /\ Deployed' = Deployed /\ (Running' <=> Running) /\ Reached' = Reached
      /\ Current' = Current /\ (Deploying' <=> Deploying) /\ Unsettled' = Unsettled
      /\ \A t : Net(t)' = Net(t)
  BY DEF Focus, Deployed, Running, Reached, Current, Deploying, Unsettled, Net
<1>2. /\ \A a : Contract(a)' = Contract(a)
      /\ \A t, s : ArgumentsNow(t, s)' = ArgumentsNow(t, s)
      /\ \A t : ParsedInput(t)' = ParsedInput(t)
  BY DEF Contract, On, ArgumentsNow, ParsedInput, RecordedNow, Recorded, EntriesOn
<1>3. \A t, s : /\ Agrees(t, s)' <=> Agrees(t, s)
                /\ Vouched(t, s)' <=> Vouched(t, s)
                /\ \A a : Made(t, s, a)' <=> Made(t, s, a)
                /\ Supplied(ArgumentsNow(t, s)') <=> Supplied(ArgumentsNow(t, s))
  BY <1>1, <1>2 DEF Agrees, Vouched, Made, Supplied, RecordedNow, Net
<1>4. /\ \A j : (Behind(j)' <=> Behind(j)) /\ (Traced(j)' <=> Traced(j))
      /\ \A m : AtWork(m)' <=> AtWork(m)
      /\ \A t, j : Had(t, j)' = Had(t, j) /\ Pending(t, j)' = Pending(t, j)
  BY <1>1 DEF Behind, Traced, AtWork, Had, Pending
<1>5. Lost' = Lost /\ \A t, n : CreatedAs(t, n)' = CreatedAs(t, n)
  BY <1>1, <1>2 DEF Lost, CreatedAs, TopLevel, Traceable
<1>6. FilesOK'  BY <1>1 DEF DeploymentsInv, FilesOK, EntriesOn, IsLive, Net
<1>7. RunningOK'
  <2>1. Running => RunOK'  BY <1>1, <1>2 DEF DeploymentsInv, RunningOK, RunOK, Steps
  <2>2. Running => PhaseOK'  BY <1>1 DEF DeploymentsInv, RunningOK, PhaseOK, Net
  <2>3. Running => CreatedOK'  BY <1>1, <1>3 DEF DeploymentsInv, RunningOK, CreatedOK, IsLive, Steps
  <2>4. Running => EnvOK'  BY <1>1 DEF DeploymentsInv, RunningOK, EnvOK, Net
  <2> QED BY <1>1, <2>1, <2>2, <2>3, <2>4 DEF RunningOK
<1>8. UnforcedInv'
  <2> HIDE DEF Deploys
  <2> QED BY <1>1, <1>3 DEF DeploymentsInv, UnforcedInv, Steps, Supplied
<1>9. VouchInv'
  <2> HIDE DEF Deploys, Behind, Traced, AtWork, Vouched
  <2> QED BY <1>1, <1>3, <1>4 DEF DeploymentsInv, VouchInv, Steps, Traceable, Net
<1>10. LossInv'  BY <1>1, <1>5 DEF DeploymentsInv, LossInv
<1>11. NeedInv'
  <2> HIDE DEF Deploys
  <2> QED BY <1>1, <1>4, <1>5 DEF DeploymentsInv, NeedInv, Steps
<1> QED BY <1>6, <1>7, <1>8, <1>9, <1>10, <1>11 DEF DeploymentsInv

LEMMA StepKeeps ==
  ASSUME DeploymentsInv, [Next]_vars
  PROVE  DeploymentsInv'
<1>1. CASE StartAny
  <2>1. PICK t \in Focus : \/ \E force \in BOOLEAN : Start(t, "LIVE", force) \/ Start(t, "TEST", force)
                           \/ Start(t, "CHECK", FALSE)
    BY <1>1 DEF StartAny
  <2>2. \E mode \in {"LIVE", "TEST", "CHECK"} : \E force \in BOOLEAN : Start(t, mode, force)
    BY <2>1
  <2> QED BY <2>2, StartKeeps
<1>2. CASE UseRecorded  BY <1>2, UseRecordedKeeps
<1>3. CASE SendDeployment  BY <1>3, SendKeeps
<1>4. CASE RecordAddress  BY <1>4, RecordAddressKeeps
<1>5. CASE saveContractDeploymentTransactionHash  BY <1>5, SaveHashKeeps
<1>6. CASE VerifyContract  BY <1>6, VerifyKeeps
<1>7. CASE CheckDeployment  BY <1>7, CheckKeeps
<1>8. CASE ReadContract  BY <1>8, ReadKeeps
<1>9. CASE SaveContract  BY <1>9, SaveContractKeeps
<1>10. CASE RequireNetwork  BY <1>10, RequireKeeps
<1>11. CASE Crash  BY <1>11, CrashKeeps
<1>12. CASE FindBytecode  BY <1>12, ExplorerKeeps DEF FindBytecode
<1>13. CASE UNCHANGED vars  BY <1>13, ExplorerKeeps DEF vars
<1> QED BY <1>1, <1>2, <1>3, <1>4, <1>5, <1>6, <1>7, <1>8, <1>9, <1>10, <1>11, <1>12, <1>13
        DEF Next, Progress

\* The invariant holds of every run, on every network, of every set of tasks.
THEOREM Invariance == Spec => []DeploymentsInv
<1>1. Init => DeploymentsInv  BY Initially
<1>2. DeploymentsInv /\ [Next]_vars => DeploymentsInv'  BY StepKeeps
<1> QED BY <1>1, <1>2, PTL DEF Spec

------------------------------------------------------------------------------
(* What follows from it.                                                   *)

LEMMA StepsOf ==
  ASSUME NEW t, NEW s \in DeploySteps(t)
  PROVE  \E j \in Steps(t) : s = Script[t][j] /\ Deploys(s)
BY DEF DeploySteps, Range, Steps, Deploys

\* Without --force, what is recorded of a contract is what the scripts would
\* deploy now: deploy keeps what it finds recorded, and whatever a script passes
\* had been recorded before it.
THEOREM UnforcedRunsAlwaysAgree == Spec => []UnforcedRunsAgree
<1>1. ASSUME DeploymentsInv PROVE UnforcedRunsAgree
  <2> SUFFICES ASSUME forced = 0, NEW t \in Focus, NEW s \in DeploySteps(t) PROVE Agrees(t, s)
    BY DEF UnforcedRunsAgree
  <2>1. PICK j \in Steps(t) : s = Script[t][j] /\ Deploys(s)  BY StepsOf
  <2> HIDE DEF Deploys
  <2>2. CASE s.name \in DOMAIN Net(t)
    BY <1>1, <2>1, <2>2 DEF DeploymentsInv, UnforcedInv
  <2>3. CASE s.name \notin DOMAIN Net(t)  BY <2>3 DEF Agrees, RecordedNow, Net
  <2> QED BY <2>2, <2>3
<1> QED BY <1>1, Invariance, PTL

\* A check run that ends vouches for every contract of its script: the steps it
\* has behind it are recorded, traced and agree, and it writes nothing itself.
THEOREM ChecksVouch == Spec => []CheckVouches
<1>1. ASSUME DeploymentsInv PROVE CheckVouches
  <2> SUFFICES ASSUME run.mode = "CHECK", run.status = "done", NEW s \in DeploySteps(run.task)
               PROVE  /\ s.name \in DOMAIN RecordedNow(run.task)
                      /\ Traceable(RecordedNow(run.task)[s.name])
                      /\ Agrees(run.task, s)
    BY DEF CheckVouches
  <2>1. AtWork("CHECK") /\ VouchInv  BY <1>1 DEF AtWork, DeploymentsInv
  <2>2. PICK t \in Focus : t = run.task  BY <2>1 DEF VouchInv
  <2>3. PICK j \in Steps(t) : s = Script[t][j] /\ Deploys(s)  BY <2>2, StepsOf
  <2>4. Behind(j)  BY DEF Behind, Running
  <2> HIDE DEF Deploys, Behind
  <2>5. Vouched(t, s) /\ Traceable(Net(t)[s.name])  BY <2>1, <2>2, <2>3, <2>4 DEF VouchInv
  <2> QED BY <2>2, <2>5 DEF Vouched, Net, RecordedNow
<1> QED BY <1>1, Invariance, PTL

\* A live run with --force that ends leaves the steps that honour it recorded,
\* in agreement and traced, whatever it found.
THEOREM ForcedRunsAlwaysRepair == Spec => []ForcedRunsRepair
<1>1. ASSUME DeploymentsInv PROVE ForcedRunsRepair
  <2> SUFFICES ASSUME run.mode = "LIVE", run.force, run.status = "done",
                      NEW s \in DeploySteps(run.task), s.op # "deployUnforced"
               PROVE  /\ s.name \in DOMAIN RecordedNow(run.task) /\ Agrees(run.task, s)
                      /\ site.network \in VERIFIED_NETWORKS => Traceable(RecordedNow(run.task)[s.name])
    BY DEF ForcedRunsRepair
  <2>1. AtWork("LIVE") /\ VouchInv  BY <1>1 DEF AtWork, DeploymentsInv
  <2>2. PICK t \in Focus : t = run.task  BY <2>1 DEF VouchInv
  <2>3. PICK j \in Steps(t) : s = Script[t][j] /\ Deploys(s)  BY <2>2, StepsOf
  <2>4. Behind(j) /\ Traced(j)  BY DEF Behind, Traced, Running
  <2> HIDE DEF Deploys, Behind, Traced
  <2>5. /\ Vouched(t, s)
        /\ site.network \in VERIFIED_NETWORKS => Traceable(Net(t)[s.name])
    BY <2>1, <2>2, <2>3, <2>4 DEF VouchInv
  <2> QED BY <2>2, <2>5 DEF Vouched, Net, RecordedNow
<1> QED BY <1>1, Invariance, PTL

\* Of the contracts on the chain, at most one is lost for each process that
\* died, and none was created twice but for a death or a forced run.
THEOREM DeploymentsAlwaysAccountedFor == Spec => []DeploymentsAccountedFor
<1>1. ASSUME DeploymentsInv PROVE NoNeedlessDeployment
  <2> SUFFICES ASSUME NEW t \in Focus, NEW s \in DeploySteps(t)
               PROVE  Cardinality(CreatedAs(t, s.name)) <= 1 + crashes + forced
    BY DEF NoNeedlessDeployment
  <2>1. PICK j \in Steps(t) : s = Script[t][j] /\ Deploys(s)  BY StepsOf
  <2> HIDE DEF Deploys
  <2>2. Cardinality(CreatedAs(t, s.name)) + Pending(t, j) <= crashes + forced + Had(t, j)
    BY <1>1, <2>1 DEF DeploymentsInv, NeedInv
  <2>3. /\ Cardinality(CreatedAs(t, s.name)) \in Nat /\ crashes \in Nat /\ forced \in Nat
        /\ Had(t, j) \in {0, 1} /\ Pending(t, j) \in {0, 1}
    BY <1>1, Numbers DEF DeploymentsInv
  <2> QED BY <2>2, <2>3
<1>2. ASSUME DeploymentsInv PROVE OneLossPerCrash
  <2>1. IsFiniteSet(Lost \ Unsettled) /\ Cardinality(Lost \ Unsettled) \in Nat
    BY <1>2, LostFinite DEF DeploymentsInv
  <2>2. Lost \ InHand \subseteq Lost \ Unsettled  BY DEF InHand, Unsettled
  <2>3. Cardinality(Lost \ InHand) <= Cardinality(Lost \ Unsettled) /\ IsFiniteSet(Lost \ InHand)
    BY <2>1, <2>2, FS_Subset
  <2>4. Cardinality(Lost \ InHand) \in Nat  BY <2>3, FS_CardinalityType
  <2> QED BY <1>2, <2>1, <2>3, <2>4 DEF OneLossPerCrash, DeploymentsInv, LossInv, FilesOK
<1>3. DeploymentsInv => DeploymentsAccountedFor  BY <1>1, <1>2 DEF DeploymentsAccountedFor
<1> QED BY <1>3, Invariance, PTL
==============================================================================
