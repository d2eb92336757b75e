--------------------------- MODULE DeploymentTasks ---------------------------
(***************************************************************************)
(* The deployment tasks of pkg/deployments/tasks: for each, the steps of   *)
(* its index.ts and the inputs of its input.ts.  A step's arguments are    *)
(* the values the script passes to a constructor: an input, In(key), or an *)
(* address the script already holds, At(name); constant texts and numbers  *)
(* written in a script are left out.                                       *)
(***************************************************************************)

EXTENDS Sequences

NETWORKS == {"goerli", "kovan", "mainnet", "rinkeby", "ropsten", "polygon", "arbitrum", "optimism"}

In(key)  == <<"input", key>>
At(name) == <<"instance", name>>

\* Calls a script makes on its task, and the getters it reads contracts from.
Step(op, name, args)        == [op |-> op, name |-> name, args |-> args]
Deploy(name, args)          == Step("deploy", name, args)
DeployUnforced(name, args)  == Step("deployUnforced", name, args)
DeployAndVerify(name, args) == Step("deployAndVerify", name, args)
Read(name, parent)          == Step("read", name, <<At(parent)>>)
Verify(name, args)          == Step("verify", name, args)
Save(name)                  == Step("save", name, <<>>)
OnlyOn(network)             == Step("onlyOn", network, <<>>)

\* Inputs: the address a task recorded under the same key, read when the task
\* runs; one read while input.ts is loaded; or a value written in the file.
From(key, task, networks) ==
    [key |-> key, on |-> networks, kind |-> "task", task |-> task, output |-> key]
Loaded(key, task, output, networks) ==
    [key |-> key, on |-> networks, kind |-> "loaded", task |-> task, output |-> output]
Value(key, networks) ==
    [key |-> key, on |-> networks, kind |-> "value", task |-> "", output |-> key]
Values(keys, networks) == {Value(k, networks) : k \in keys}

AUTHORIZER == "20210418-authorizer"
VAULT      == "20210418-vault"
TEST_BAL   == "20220325-test-balancer-token"
ADAPTOR    == "20220325-authorizer-adaptor"
ADMIN      == "20220325-balancer-token-admin"
CONTROLLER == "20220325-gauge-controller"
GAUGE_ADDER == "20220325-gauge-adder"
GAUGE_ADDER_V2 == "20220628-gauge-adder-v2"
DELEGATION == "20220325-ve-delegation"
FEE_PROVIDER == "20220725-protocol-fee-percentages-provider"
WITHDRAWER == "20220517-protocol-fee-withdrawer"
CHECKER    == "20220420-smart-wallet-checker"
QUERIES    == "20220721-balancer-queries"
CHILD_GAUGE_FACTORY == "20220413-child-chain-gauge-factory"
SINGLE_RECIPIENT == "20220325-single-recipient-gauge-factory"
GAUGE_FACTORY == "20220325-mainnet-gauge-factory"
ARBITRUM_GAUGES == "20220413-arbitrum-root-gauge-factory"
POLYGON_GAUGES == "20220413-polygon-root-gauge-factory"
OPTIMISM_GAUGES == "20220628-optimism-root-gauge-factory"
TOKEN_HOLDER == "20220325-bal-token-holder-factory"
RELAYER    == "20211203-batch-relayer"
RELAYER_V3 == "20220720-batch-relayer-v3"
LIDO_RELAYER == "20210812-lido-relayer"
TIMELOCK   == "20220704-timelock-authorizer"

VaultOn(networks) == From("Vault", VAULT, networks)

------------------------------------------------------------------------------
(* Governance and the Vault.                                               *)

AuthorizerScript == <<DeployAndVerify("Authorizer", <<In("admin")>>)>>
AuthorizerInput  == {Value("admin", NETWORKS \ {"rinkeby", "ropsten"})}

VaultScript ==
    << DeployAndVerify("Vault", <<In("Authorizer"), In("weth"), In("pauseWindowDuration"), In("bufferPeriodDuration")>>),
       Read("ProtocolFeesCollector", "Vault"),
       Verify("ProtocolFeesCollector", <<At("Vault")>>),
       Save("ProtocolFeesCollector"),
       DeployAndVerify("BalancerHelpers", <<At("Vault")>>) >>
VaultInput ==
    LET on == NETWORKS \ {"rinkeby", "ropsten"}
    IN  {From("Authorizer", AUTHORIZER, on)}
        \cup Values({"weth", "pauseWindowDuration", "bufferPeriodDuration"}, on)

WstETHRateProviderScript == <<DeployAndVerify("WstETHRateProvider", <<In("wstETH")>>)>>
WstETHRateProviderInput  == {Value("wstETH", {"mainnet", "kovan", "goerli"})}

AuthorizerAdaptorScript == <<DeployAndVerify("AuthorizerAdaptor", <<In("Vault")>>)>>
AuthorizerAdaptorInput  == {VaultOn(NETWORKS)}

TimelockScript ==
    << DeployAndVerify("TimelockAuthorizerMigrator",
           <<In("Vault"), In("Root"), In("Authorizer"), In("Roles"), In("Granters"), In("Revokers"),
             In("ExecuteDelays"), In("GrantDelays")>>),
       Read("TimelockAuthorizer", "TimelockAuthorizerMigrator"),
       Verify("TimelockAuthorizer", <<At("TimelockAuthorizerMigrator"), In("Vault")>>),
       Save("TimelockAuthorizer"),
       Read("TimelockExecutor", "TimelockAuthorizer"),
       Verify("TimelockExecutor", <<>>) >>

\* The outputs read while input/mainnet.ts is loaded, whatever the network of the run.
TimelockLoads ==
    {Loaded(t, t, t, {"mainnet"}) :
        t \in {VAULT, WITHDRAWER, ADMIN, CONTROLLER, GAUGE_ADDER_V2, CHECKER, ARBITRUM_GAUGES, OPTIMISM_GAUGES,
               RELAYER, RELAYER_V3, LIDO_RELAYER}}
TimelockInput ==
    {VaultOn(NETWORKS), From("Authorizer", AUTHORIZER, NETWORKS)} \cup TimelockLoads
    \cup Values({"Root", "Roles", "Granters", "Revokers", "ExecuteDelays", "GrantDelays"}, {"mainnet", "goerli"})

WithdrawerScript == <<DeployAndVerify("ProtocolFeesWithdrawer", <<In("Vault"), In("InitialDeniedTokens")>>)>>
WithdrawerInput ==
    {VaultOn(NETWORKS), Value("InitialDeniedTokens", {"mainnet", "polygon", "arbitrum", "optimism", "goerli"})}

SmartWalletCheckerScript == <<DeployAndVerify("SmartWalletChecker", <<In("Vault"), In("InitialAllowedAddresses")>>)>>
SmartWalletCheckerInput  == {VaultOn(NETWORKS), Value("InitialAllowedAddresses", {"mainnet", "goerli"})}

FeeProviderScript ==
    <<DeployAndVerify("ProtocolFeePercentagesProvider", <<In("Vault"), In("maxYieldValue"), In("maxAUMValue")>>)>>
FeeProviderInput == {VaultOn(NETWORKS)} \cup Values({"maxYieldValue", "maxAUMValue"}, NETWORKS)

BalancerQueriesScript == <<DeployAndVerify("BalancerQueries", <<In("Vault")>>)>>
BalancerQueriesInput  == {VaultOn(NETWORKS)}

------------------------------------------------------------------------------
(* Relayers and queries.                                                   *)

\* The relayer library deploys its relayer; the relayer is recorded apart.
RelayerSteps(args) ==
    << DeployAndVerify("BatchRelayerLibrary", args),
       Read("BalancerRelayer", "BatchRelayerLibrary"),
       Verify("BalancerRelayer", <<In("Vault"), At("BatchRelayerLibrary")>>),
       Save("BalancerRelayer") >>

BatchRelayerScript == RelayerSteps(<<In("Vault"), In("wstETH")>>)
BatchRelayerInput ==
    LET on == NETWORKS \ {"ropsten", "optimism"} IN {VaultOn(on), Value("wstETH", on)}

BatchRelayerV2Script == RelayerSteps(<<In("Vault"), In("wstETH")>>)
BatchRelayerV2Input ==
    {VaultOn(NETWORKS), Value("wstETH", {"mainnet", "kovan", "polygon", "arbitrum", "goerli"})}

BatchRelayerV3Script == RelayerSteps(<<In("Vault"), In("wstETH"), In("BalancerMinter")>>)
BatchRelayerV3Input ==
    LET noVeBAL == {"polygon", "arbitrum", "optimism"}
        veBAL   == {"mainnet", "kovan", "goerli"}
    IN  {VaultOn(NETWORKS), Value("wstETH", veBAL \cup noVeBAL),
         From("BalancerMinter", CONTROLLER, veBAL), Value("BalancerMinter", noVeBAL)}

LidoRelayerScript == <<DeployAndVerify("LidoRelayer", <<In("Vault"), In("wstETH")>>)>>
LidoRelayerInput ==
    LET on == {"mainnet", "kovan", "goerli"} IN {VaultOn(on), Value("wstETH", on)}

DoubleEntrypointFixScript == <<DeployAndVerify("DoubleEntrypointFixRelayer", <<In("Vault")>>)>>
DoubleEntrypointFixInput  == {VaultOn(NETWORKS)}

------------------------------------------------------------------------------
(* Liquidity mining.                                                       *)

TestBalancerTokenScript == <<DeployAndVerify("TestBalancerToken", <<In("Admin")>>)>>
TestBalancerTokenInput  == {Value("Admin", {"kovan", "goerli"})}

\* BAL itself on mainnet, the test token on the test networks.
TestBALOn == Loaded("BAL", TEST_BAL, "TestBalancerToken", {"kovan", "goerli"})

TokenHolderFactoryScript == <<DeployAndVerify("BALTokenHolderFactory", <<In("BAL"), In("Vault")>>)>>
TokenHolderFactoryInput  == {VaultOn(NETWORKS), Value("BAL", {"mainnet"}), TestBALOn}

BalancerTokenAdminScript == <<DeployAndVerify("BalancerTokenAdmin", <<In("Vault"), In("BAL")>>)>>
BalancerTokenAdminInput  == {VaultOn(NETWORKS), Value("BAL", {"mainnet"}), TestBALOn}

GaugeControllerScript ==
    << Deploy("VotingEscrow", <<In("BPT"), In("AuthorizerAdaptor")>>),
       Deploy("GaugeController", <<At("VotingEscrow"), In("AuthorizerAdaptor")>>),
       Deploy("BalancerMinter", <<In("BalancerTokenAdmin"), At("GaugeController")>>) >>
GaugeControllerInput ==
    {From("AuthorizerAdaptor", ADAPTOR, NETWORKS), From("BalancerTokenAdmin", ADMIN, NETWORKS),
     Value("BPT", {"mainnet", "kovan", "goerli"})}

GaugeAdderScript == <<DeployAndVerify("GaugeAdder", <<In("GaugeController")>>)>>
GaugeAdderInput  == {From("GaugeController", CONTROLLER, NETWORKS)}

GaugeAdderV2Script == <<DeployAndVerify("GaugeAdder", <<In("GaugeController"), In("PreviousGaugeAdder")>>)>>
\* Mutant: the new adder takes itself for the previous one.
ReadsItself ==
    {From("GaugeController", CONTROLLER, NETWORKS),
     Loaded("PreviousGaugeAdder", GAUGE_ADDER_V2, "GaugeAdder", {"mainnet", "goerli"})}
GaugeAdderV2Input ==
    {From("GaugeController", CONTROLLER, NETWORKS),
     Loaded("PreviousGaugeAdder", GAUGE_ADDER, "GaugeAdder", {"mainnet", "goerli"})}

SingleRecipientScript ==
    << DeployAndVerify("SingleRecipientGaugeFactory", <<In("BalancerMinter")>>),
       Read("SingleRecipientGauge", "SingleRecipientGaugeFactory"),
       Verify("SingleRecipientGauge", <<In("BalancerMinter")>>),
       Save("SingleRecipientGauge") >>
SingleRecipientInput == {From("BalancerMinter", CONTROLLER, NETWORKS)}

VeDelegationScript ==
    << DeployUnforced("VotingEscrowDelegation", <<In("VotingEscrow"), In("AuthorizerAdaptor")>>),
       DeployAndVerify("VotingEscrowDelegationProxy",
           <<In("Vault"), In("VotingEscrow"), At("VotingEscrowDelegation")>>) >>
VeDelegationInput ==
    {VaultOn(NETWORKS), From("AuthorizerAdaptor", ADAPTOR, NETWORKS), From("VotingEscrow", CONTROLLER, NETWORKS)}

PreseededDelegationScript ==
    <<Deploy("PreseededVotingEscrowDelegation",
          <<In("VotingEscrow"), In("AuthorizerAdaptor"), In("PreseededBoostCalls"), In("PreseededApprovalCalls")>>)>>
PreseededDelegationInput ==
    {From("VotingEscrow", CONTROLLER, NETWORKS), From("AuthorizerAdaptor", ADAPTOR, NETWORKS)}
    \cup Values({"PreseededBoostCalls", "PreseededApprovalCalls"}, {"mainnet", "goerli"})

ChildGaugeFactoryScript ==
    << Deploy("RewardsOnlyGauge", <<In("BAL"), In("Vault"), In("AuthorizerAdaptor")>>),
       Deploy("ChildChainStreamer", <<In("BAL"), In("AuthorizerAdaptor")>>),
       DeployAndVerify("ChildChainLiquidityGaugeFactory", <<At("RewardsOnlyGauge"), At("ChildChainStreamer")>>) >>
ChildGaugeFactoryInput ==
    {From("AuthorizerAdaptor", ADAPTOR, NETWORKS), VaultOn(NETWORKS), TestBALOn,
     Value("BAL", {"polygon", "arbitrum", "optimism"})}

ChildGaugeTokenAdderScript ==
    <<DeployAndVerify("ChildChainGaugeTokenAdder", <<In("ChildChainLiquidityGaugeFactory"), In("AuthorizerAdaptor")>>)>>
ChildGaugeTokenAdderInput ==
    {From("ChildChainLiquidityGaugeFactory", CHILD_GAUGE_FACTORY, NETWORKS), From("AuthorizerAdaptor", ADAPTOR, NETWORKS)}

ChildGaugeRewardHelperScript == <<DeployAndVerify("ChildChainGaugeRewardHelper", <<>>)>>
DistributionSchedulerScript  == <<DeployAndVerify("DistributionScheduler", <<>>)>>

FeeDistributorScript == <<DeployAndVerify("FeeDistributor", <<In("VotingEscrow"), In("startTime")>>)>>
FeeDistributorInput ==
    {From("VotingEscrow", CONTROLLER, NETWORKS), Value("startTime", {"mainnet", "goerli", "kovan"})}

FeeDistributorV2Script == <<DeployAndVerify("FeeDistributor", <<In("VotingEscrow"), In("startTime")>>)>>
FeeDistributorV2Input ==
    {From("VotingEscrow", CONTROLLER, NETWORKS), Value("startTime", {"mainnet", "goerli"})}

LiquidityGaugeSteps ==
    << Deploy("LiquidityGaugeV5", <<In("BalancerMinter"), In("VotingEscrowDelegationProxy"), In("AuthorizerAdaptor")>>),
       DeployAndVerify("LiquidityGaugeFactory", <<At("LiquidityGaugeV5")>>) >>
LiquidityGaugeInputs ==
    {From("AuthorizerAdaptor", ADAPTOR, NETWORKS), From("BalancerMinter", CONTROLLER, NETWORKS),
     From("VotingEscrowDelegationProxy", DELEGATION, NETWORKS)}

MainnetGaugeFactoryScript   == LiquidityGaugeSteps
MainnetGaugeFactoryInput    == LiquidityGaugeInputs
MainnetGaugeFactoryV2Script == LiquidityGaugeSteps
MainnetGaugeFactoryV2Input  == LiquidityGaugeInputs

\* A root gauge factory creates its gauge implementation, which is recorded apart.
RootGaugeSteps(factory, gauge, factoryArgs, gaugeArgs) ==
    << DeployAndVerify(factory, factoryArgs), Read(gauge, factory), Verify(gauge, gaugeArgs), Save(gauge) >>

ArbitrumGaugesScript ==
    RootGaugeSteps("ArbitrumRootGaugeFactory", "ArbitrumRootGauge",
        <<In("Vault"), In("BalancerMinter"), In("GatewayRouter"), In("GasLimit"), In("GasPrice"), In("MaxSubmissionCost")>>,
        <<In("BalancerMinter"), In("GatewayRouter")>>)
ArbitrumGaugesInput ==
    {VaultOn({"mainnet"}), From("BalancerMinter", CONTROLLER, {"mainnet"})}
    \cup Values({"GatewayRouter", "GasLimit", "GasPrice", "MaxSubmissionCost"}, {"mainnet"})
ArbitrumGaugesV2Script == ArbitrumGaugesScript
ArbitrumGaugesV2Input  == ArbitrumGaugesInput

OptimismGaugesScript ==
    RootGaugeSteps("OptimismRootGaugeFactory", "OptimismRootGauge",
        <<In("Vault"), In("BalancerMinter"), In("L1StandardBridge"), In("OptimismBAL"), In("GasLimit")>>,
        <<In("BalancerMinter"), In("L1StandardBridge"), In("OptimismBAL")>>)
OptimismGaugesInput ==
    {VaultOn({"mainnet"}), From("BalancerMinter", CONTROLLER, {"mainnet"})}
    \cup Values({"OptimismBAL", "L1StandardBridge", "GasLimit"}, {"mainnet"})
OptimismGaugesV2Script == OptimismGaugesScript
OptimismGaugesV2Input  == OptimismGaugesInput

PolygonGaugesScript ==
    LET args == <<In("BalancerMinter"), In("PolygonRootChainManager"), In("PolygonERC20Predicate")>>
    IN  RootGaugeSteps("PolygonRootGaugeFactory", "PolygonRootGauge", args, args)
PolygonGaugesInput ==
    {From("BalancerMinter", CONTROLLER, {"mainnet"})}
    \cup Values({"PolygonRootChainManager", "PolygonERC20Predicate"}, {"mainnet"})
PolygonGaugesV2Script == PolygonGaugesScript
PolygonGaugesV2Input  == PolygonGaugesInput

------------------------------------------------------------------------------
(* Pool factories and distributors: most take the Vault and nothing else.  *)

VaultFactoryInput == {VaultOn(NETWORKS)}
VaultFactory(name) == <<DeployAndVerify(name, <<In("Vault")>>)>>

NoProtocolFeeLBPScript   == VaultFactory("NoProtocolFeeLiquidityBootstrappingPoolFactory")
ERC4626LinearPoolV2Script == VaultFactory("ERC4626LinearPoolFactory")
UnbuttonAaveLinearPoolScript == VaultFactory("UnbuttonAaveLinearPoolFactory")
StablePoolV2Script       == VaultFactory("StablePoolFactory")
StablePoolScript         == VaultFactory("StablePoolFactory")
LBPScript                == VaultFactory("LiquidityBootstrappingPoolFactory")
InvestmentPoolScript     == VaultFactory("InvestmentPoolFactory")
MerkleOrchardScript      == VaultFactory("MerkleOrchard")
AaveLinearPoolScript     == VaultFactory("AaveLinearPoolFactory")
StablePhantomPoolScript  == VaultFactory("StablePhantomPoolFactory")
ERC4626LinearPoolScript  == VaultFactory("ERC4626LinearPoolFactory")
WeightedPoolScript       == VaultFactory("WeightedPoolFactory") \o VaultFactory("WeightedPool2TokensFactory")

\* The creation code is linked with the library's address, so it is part of the transaction's data.
MetaStablePoolScript ==
    << DeployAndVerify("QueryProcessor", <<>>),
       DeployAndVerify("MetaStablePoolFactory", <<In("Vault"), At("QueryProcessor")>>) >>

NoProtocolFeeLBPInput == VaultFactoryInput
ERC4626LinearPoolV2Input == VaultFactoryInput
UnbuttonAaveLinearPoolInput == VaultFactoryInput
StablePoolV2Input == VaultFactoryInput
WeightedPoolInput == VaultFactoryInput
StablePoolInput == VaultFactoryInput
LBPInput == VaultFactoryInput
MetaStablePoolInput == VaultFactoryInput
InvestmentPoolInput == VaultFactoryInput
MerkleOrchardInput == VaultFactoryInput
AaveLinearPoolInput == VaultFactoryInput
StablePhantomPoolInput == VaultFactoryInput
ERC4626LinearPoolInput == VaultFactoryInput

WithFeeProvider == {VaultOn(NETWORKS), From("ProtocolFeePercentagesProvider", FEE_PROVIDER, NETWORKS)}
FeeProviderFactory(name) == <<DeployAndVerify(name, <<In("Vault"), In("ProtocolFeePercentagesProvider")>>)>>

PrimaryIssuePoolScript     == FeeProviderFactory("PrimaryIssuePoolFactory")
SecondaryIssuePoolScript   == FeeProviderFactory("SecondaryIssuePoolFactory")
ComposableStablePoolScript == FeeProviderFactory("ComposableStablePoolFactory")
WeightedPoolV2Script       == FeeProviderFactory("WeightedPoolFactory")

PrimaryIssuePoolInput == WithFeeProvider
SecondaryIssuePoolInput == WithFeeProvider
ComposableStablePoolInput == WithFeeProvider
WeightedPoolV2Input == WithFeeProvider

AaveRebalancedScript == <<DeployAndVerify("AaveLinearPoolFactory", <<In("Vault"), In("BalancerQueries")>>)>>
AaveRebalancedInput  == {VaultOn(NETWORKS), From("BalancerQueries", QUERIES, NETWORKS)}

LdoMerkleScript == <<DeployAndVerify("MerkleRedeem", <<In("Vault"), In("ldoToken")>>)>>
LdoMerkleInput  == {VaultOn({"mainnet"}), Value("ldoToken", {"mainnet"})}
BalMerkleScript == <<DeployAndVerify("MerkleRedeem", <<In("Vault"), In("balToken")>>)>>
BalMerkleInput  == {VaultOn({"arbitrum"}), Value("balToken", {"arbitrum"})}
McbMerkleScript == <<OnlyOn("arbitrum"), DeployAndVerify("MerkleRedeem", <<In("Vault"), In("rewardToken")>>)>>
McbMerkleInput  == {VaultOn({"arbitrum"}), Value("rewardToken", {"arbitrum"})}

------------------------------------------------------------------------------
(* Coordinators: contracts granted a permission, executed once.            *)

VeBALCoordinatorScript ==
    <<DeployAndVerify("veBALDeploymentCoordinator",
          <<In("BalancerMinter"), In("AuthorizerAdaptor"), In("GaugeAdder"), In("LiquidityGaugeFactory"),
            In("SingleRecipientGaugeFactory"), In("BALTokenHolderFactory"), In("activationScheduledTime"),
            In("thirdStageDelay")>>)>>
VeBALCoordinatorInput ==
    {From("AuthorizerAdaptor", ADAPTOR, NETWORKS), From("BalancerMinter", CONTROLLER, NETWORKS),
     From("GaugeAdder", GAUGE_ADDER, NETWORKS), From("LiquidityGaugeFactory", GAUGE_FACTORY, NETWORKS),
     From("SingleRecipientGaugeFactory", SINGLE_RECIPIENT, NETWORKS),
     From("BALTokenHolderFactory", TOKEN_HOLDER, NETWORKS)}
    \cup Values({"activationScheduledTime", "thirdStageDelay"}, {"mainnet", "kovan"})

L2SetupCoordinatorScript ==
    <<DeployAndVerify("veBALL2GaugeSetupCoordinator",
          <<In("AuthorizerAdaptor"), In("VotingEscrow"), In("GaugeAdder"), In("EthereumGaugeFactory"),
            In("PolygonRootGaugeFactory"), In("ArbitrumRootGaugeFactory")>>)>>
L2SetupCoordinatorInput ==
    {From("AuthorizerAdaptor", ADAPTOR, {"mainnet"}), From("VotingEscrow", CONTROLLER, {"mainnet"}),
     From("GaugeAdder", GAUGE_ADDER, {"mainnet"}),
     Loaded("EthereumGaugeFactory", GAUGE_FACTORY, "LiquidityGaugeFactory", {"mainnet"}),
     From("PolygonRootGaugeFactory", POLYGON_GAUGES, {"mainnet"}),
     From("ArbitrumRootGaugeFactory", ARBITRUM_GAUGES, {"mainnet"})}

GaugeFixCoordinatorScript ==
    <<DeployAndVerify("veBALGaugeFixCoordinator",
          <<In("AuthorizerAdaptor"), In("BalancerTokenAdmin"), In("GaugeController")>>)>>
GaugeFixCoordinatorInput ==
    {From("AuthorizerAdaptor", ADAPTOR, {"mainnet"}), From("BalancerTokenAdmin", ADMIN, {"mainnet"}),
     From("GaugeController", CONTROLLER, {"mainnet"})}

CheckerCoordinatorScript ==
    <<DeployAndVerify("SmartWalletCheckerCoordinator",
          <<In("AuthorizerAdaptor"), In("VotingEscrow"), In("SmartWalletChecker")>>)>>
CheckerCoordinatorInput ==
    {From("AuthorizerAdaptor", ADAPTOR, NETWORKS), From("VotingEscrow", CONTROLLER, NETWORKS),
     From("SmartWalletChecker", CHECKER, NETWORKS)}

TribeCoordinatorScript == <<DeployAndVerify("TribeBALMinterCoordinator", <<In("AuthorizerAdaptor")>>)>>
TribeCoordinatorInput  == {From("AuthorizerAdaptor", ADAPTOR, {"mainnet"})}

SNXRecoveryCoordinatorScript ==
    <<DeployAndVerify("SNXRecoveryCoordinator",
          <<In("AuthorizerAdaptor"), In("ProtocolFeesWithdrawer"), In("tokens"), In("amounts")>>)>>
SNXRecoveryCoordinatorInput ==
    {From("AuthorizerAdaptor", ADAPTOR, NETWORKS), From("ProtocolFeesWithdrawer", WITHDRAWER, NETWORKS)}
    \cup Values({"tokens", "amounts"}, {"mainnet", "optimism"})

GaugeAdderMigrationScript ==
    <<DeployAndVerify("GaugeAdderMigrationCoordinator",
          <<In("AuthorizerAdaptor"), In("NewGaugeAdder"), In("OldGaugeAdder"), In("ArbitrumRootGaugeFactory"),
            In("OptimismRootGaugeFactory"), In("LiquidityMiningMultisig"), In("GaugeCheckpointingMultisig")>>)>>
GaugeAdderMigrationInput ==
    {From("AuthorizerAdaptor", ADAPTOR, {"mainnet"}),
     Loaded("OldGaugeAdder", GAUGE_ADDER, "GaugeAdder", {"mainnet"}),
     Loaded("NewGaugeAdder", GAUGE_ADDER_V2, "GaugeAdder", {"mainnet"}),
     From("ArbitrumRootGaugeFactory", ARBITRUM_GAUGES, {"mainnet"}),
     From("OptimismRootGaugeFactory", OPTIMISM_GAUGES, {"mainnet"})}
    \cup Values({"LiquidityMiningMultisig", "GaugeCheckpointingMultisig"}, {"mainnet"})

------------------------------------------------------------------------------
(* What a constructor itself deploys: the contracts the scripts read.      *)

NoChild == [name |-> "", args |-> <<>>]
Creates(name, self, args) ==
    CASE name = "Vault" -> [name |-> "ProtocolFeesCollector", args |-> <<self>>]
      [] name = "BatchRelayerLibrary" -> [name |-> "BalancerRelayer", args |-> <<args[1], self>>]
      [] name = "TimelockAuthorizerMigrator" -> [name |-> "TimelockAuthorizer", args |-> <<self, args[1]>>]
      [] name = "TimelockAuthorizer" -> [name |-> "TimelockExecutor", args |-> <<>>]
      [] name = "SingleRecipientGaugeFactory" -> [name |-> "SingleRecipientGauge", args |-> <<args[1]>>]
      [] name = "ArbitrumRootGaugeFactory" -> [name |-> "ArbitrumRootGauge", args |-> <<args[2], args[3]>>]
      [] name = "OptimismRootGaugeFactory" -> [name |-> "OptimismRootGauge", args |-> <<args[2], args[3], args[4]>>]
      [] name = "PolygonRootGaugeFactory" -> [name |-> "PolygonRootGauge", args |-> args]
      [] OTHER -> NoChild

------------------------------------------------------------------------------
(* The catalogue: Task.getAllTaskIds.                                      *)

Entry(id, script, input) == [id |-> id, script |-> script, input |-> input]

Catalogue ==
    { Entry(AUTHORIZER, AuthorizerScript, AuthorizerInput),
      Entry(VAULT, VaultScript, VaultInput),
      Entry("20210812-wsteth-rate-provider", WstETHRateProviderScript, WstETHRateProviderInput),
      Entry("20211202-no-protocol-fee-lbp", NoProtocolFeeLBPScript, NoProtocolFeeLBPInput),
      Entry(ADAPTOR, AuthorizerAdaptorScript, AuthorizerAdaptorInput),
      Entry(TOKEN_HOLDER, TokenHolderFactoryScript, TokenHolderFactoryInput),
      Entry(ADMIN, BalancerTokenAdminScript, BalancerTokenAdminInput),
      Entry(GAUGE_ADDER, GaugeAdderScript, GaugeAdderInput),
      Entry(CONTROLLER, GaugeControllerScript, GaugeControllerInput),
      Entry(SINGLE_RECIPIENT, SingleRecipientScript, SingleRecipientInput),
      Entry(TEST_BAL, TestBalancerTokenScript, TestBalancerTokenInput),
      Entry(DELEGATION, VeDelegationScript, VeDelegationInput),
      Entry("20220404-erc4626-linear-pool-v2", ERC4626LinearPoolV2Script, ERC4626LinearPoolV2Input),
      Entry(CHILD_GAUGE_FACTORY, ChildGaugeFactoryScript, ChildGaugeFactoryInput),
      Entry("20220415-primary-issue-pool", PrimaryIssuePoolScript, PrimaryIssuePoolInput),
      Entry("20220419-secondary-issue-pool", SecondaryIssuePoolScript, SecondaryIssuePoolInput),
      Entry(CHECKER, SmartWalletCheckerScript, SmartWalletCheckerInput),
      Entry("20220425-unbutton-aave-linear-pool", UnbuttonAaveLinearPoolScript, UnbuttonAaveLinearPoolInput),
      Entry("20220513-double-entrypoint-fix-relayer", DoubleEntrypointFixScript, DoubleEntrypointFixInput),
      Entry(WITHDRAWER, WithdrawerScript, WithdrawerInput),
      Entry("20220527-child-chain-gauge-token-adder", ChildGaugeTokenAdderScript, ChildGaugeTokenAdderInput),
      Entry("20220530-preseeded-voting-escrow-delegation", PreseededDelegationScript, PreseededDelegationInput),
      Entry("20220609-stable-pool-v2", StablePoolV2Script, StablePoolV2Input),
      Entry(GAUGE_ADDER_V2, GaugeAdderV2Script, GaugeAdderV2Input),
      Entry(TIMELOCK, TimelockScript, TimelockInput),
      Entry("20220707-distribution-scheduler", DistributionSchedulerScript, {}),
      Entry("20220714-fee-distributor-v2", FeeDistributorV2Script, FeeDistributorV2Input),
      Entry(RELAYER_V3, BatchRelayerV3Script, BatchRelayerV3Input),
      Entry(QUERIES, BalancerQueriesScript, BalancerQueriesInput),
      Entry(FEE_PROVIDER, FeeProviderScript, FeeProviderInput),
      Entry("20220812-child-chain-reward-helper", ChildGaugeRewardHelperScript, {}),
      Entry("20220817-aave-rebalanced-linear-pool", AaveRebalancedScript, AaveRebalancedInput),
      Entry("20220822-mainnet-gauge-factory-v2", MainnetGaugeFactoryV2Script, MainnetGaugeFactoryV2Input),
      Entry("20220823-arbitrum-root-gauge-factory-v2", ArbitrumGaugesV2Script, ArbitrumGaugesV2Input),
      Entry("20220823-optimism-root-gauge-factory-v2", OptimismGaugesV2Script, OptimismGaugesV2Input),
      Entry("20220823-polygon-root-gauge-factory-v2", PolygonGaugesV2Script, PolygonGaugesV2Input),
      Entry("20220906-composable-stable-pool", ComposableStablePoolScript, ComposableStablePoolInput),
      Entry("20220908-weighted-pool-v2", WeightedPoolV2Script, WeightedPoolV2Input),
      Entry("20210418-weighted-pool", WeightedPoolScript, WeightedPoolInput),
      Entry("20210624-stable-pool", StablePoolScript, StablePoolInput),
      Entry("20210721-liquidity-bootstrapping-pool", LBPScript, LBPInput),
      Entry("20210727-meta-stable-pool", MetaStablePoolScript, MetaStablePoolInput),
      Entry("20210811-ldo-merkle", LdoMerkleScript, LdoMerkleInput),
      Entry(LIDO_RELAYER, LidoRelayerScript, LidoRelayerInput),
      Entry("20210907-investment-pool", InvestmentPoolScript, InvestmentPoolInput),
      Entry("20210913-bal-arbitrum-merkle", BalMerkleScript, BalMerkleInput),
      Entry("20210928-mcb-arbitrum-merkle", McbMerkleScript, McbMerkleInput),
      Entry("20211012-merkle-orchard", MerkleOrchardScript, MerkleOrchardInput),
      Entry(RELAYER, BatchRelayerScript, BatchRelayerInput),
      Entry("20211208-aave-linear-pool", AaveLinearPoolScript, AaveLinearPoolInput),
      Entry("20211208-stable-phantom-pool", StablePhantomPoolScript, StablePhantomPoolInput),
      Entry("20220304-erc4626-linear-pool", ERC4626LinearPoolScript, ERC4626LinearPoolInput),
      Entry("20220318-batch-relayer-v2", BatchRelayerV2Script, BatchRelayerV2Input),
      Entry(GAUGE_FACTORY, MainnetGaugeFactoryScript, MainnetGaugeFactoryInput),
      Entry(ARBITRUM_GAUGES, ArbitrumGaugesScript, ArbitrumGaugesInput),
      Entry(POLYGON_GAUGES, PolygonGaugesScript, PolygonGaugesInput),
      Entry("20220420-fee-distributor", FeeDistributorScript, FeeDistributorInput),
      Entry(OPTIMISM_GAUGES, OptimismGaugesScript, OptimismGaugesInput),
      Entry("20220325-veBAL-deployment-coordinator", VeBALCoordinatorScript, VeBALCoordinatorInput),
      Entry("20220415-veBAL-L2-gauge-setup-coordinator", L2SetupCoordinatorScript, L2SetupCoordinatorInput),
      Entry("20220418-veBAL-gauge-fix-coordinator", GaugeFixCoordinatorScript, GaugeFixCoordinatorInput),
      Entry("20220421-smart-wallet-checker-coordinator", CheckerCoordinatorScript, CheckerCoordinatorInput),
      Entry("20220606-tribe-bal-minter-coordinator", TribeCoordinatorScript, TribeCoordinatorInput),
      Entry("20220610-snx-recovery-coordinator", SNXRecoveryCoordinatorScript, SNXRecoveryCoordinatorInput),
      Entry("20220721-gauge-adder-migration-coordinator", GaugeAdderMigrationScript, GaugeAdderMigrationInput) }

TaskIds   == {e.id : e \in Catalogue}
Script    == [t \in TaskIds |-> (CHOOSE e \in Catalogue : e.id = t).script]
TaskInput == [t \in TaskIds |-> (CHOOSE e \in Catalogue : e.id = t).input]
==============================================================================
