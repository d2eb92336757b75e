----------------------- MODULE TimelockMigrationInput -----------------------
(***************************************************************************)
(* What the TimelockAuthorizerMigrator of mainnet is given                 *)
(* (tasks/20220704-timelock-authorizer/input/mainnet.ts): a contract is    *)
(* named by its task's, a function without its arguments' types.           *)
(***************************************************************************)
EXTENDS Sequences, SequencesExt

EVERYWHERE == "everywhere"

createRoleData(grantee, target, actionIds) ==
    [i \in DOMAIN actionIds |-> [role |-> actionIds[i], grantee |-> grantee, target |-> target]]

flatten(arrays) == FoldLeft(LAMBDA a, b : a \o b, <<>>, arrays)

VaultActions(names) == [i \in DOMAIN names |-> <<"Vault", names[i]>>]

batchRelayerPermissions ==
    LET actions == VaultActions(<<"setRelayerApproval", "batchSwap", "joinPool", "swap", "exitPool",
                                  "manageUserBalance">>)
    IN  createRoleData("BalancerRelayer", "Vault", actions) \o createRoleData("BalancerRelayerV3", "Vault", actions)

lidoRelayerPermissions ==
    createRoleData("LidoRelayer", "Vault",
        VaultActions(<<"batchSwap", "joinPool", "swap", "exitPool", "manageUserBalance">>))

gnosisProtocolRelayerPermissions ==
    createRoleData("GnosisProtocolRelayer", "Vault", VaultActions(<<"batchSwap", "manageUserBalance">>))

protocolFeesPermissions == flatten(<<
    createRoleData("ProtocolFeesWithdrawer", "ProtocolFeesCollector",
        <<<<"ProtocolFeesCollector", "withdrawCollectedFees">>>>),
    createRoleData("TREASURY_MULTISIG", "ProtocolFeesWithdrawer",
        <<<<"ProtocolFeesWithdrawer", "withdrawCollectedFees">>>>),
    createRoleData("EMERGENCY_SUBDAO_MULTISIG", "ProtocolFeesWithdrawer",
        <<<<"ProtocolFeesWithdrawer", "denylistToken">>>>) >>)

veBALPermissions == flatten(<<
    createRoleData("BalancerMinter", "BalancerTokenAdmin", <<<<"BalancerTokenAdmin", "mint">>>>),
    createRoleData("GaugeAdder", "GaugeController", <<<<"GaugeController", "add_gauge">>>>),
    createRoleData("LM_MULTISIG", "GaugeAdder",
        << <<"GaugeAdder", "addEthereumGauge">>, <<"GaugeAdder", "addPolygonGauge">>,
           <<"GaugeAdder", "addArbitrumGauge">>, <<"GaugeAdder", "addOptimismGauge">> >>),
    createRoleData("LM_MULTISIG", EVERYWHERE,
        << <<"LiquidityGaugeV5", "add_reward">>, <<"LiquidityGaugeV5", "set_reward_distributor">> >>),
    createRoleData("EMERGENCY_SUBDAO_MULTISIG", EVERYWHERE, <<<<"LiquidityGaugeV5", "killGauge">>>>),
    createRoleData("DAO_MULTISIG", "SmartWalletChecker",
        << <<"SmartWalletChecker", "denylistAddress">>, <<"SmartWalletChecker", "allowlistAddress">> >>),
    createRoleData("BLABS_OPS_MULTISIG", EVERYWHERE, <<<<"SingleRecipientGauge", "checkpoint">>>>),
    createRoleData("BLABS_OPS_MULTISIG", "ArbitrumRootGaugeFactory",
        <<<<"ArbitrumRootGaugeFactory", "setArbitrumFees">>>>),
    createRoleData("BLABS_OPS_MULTISIG", "OptimismRootGaugeFactory",
        <<<<"OptimismRootGaugeFactory", "setOptimismGasLimit">>>>),
    createRoleData("BLABS_VEBAL_MULTISIG", "BALTokenHolder", <<<<"BALTokenHolder", "withdrawFunds">>>>) >>)

feesAndTargetsPermissions == flatten(<<
    createRoleData("DAO_MULTISIG", "ProtocolFeesCollector", <<<<"ProtocolFeesCollector", "setSwapFeePercentage">>>>),
    createRoleData("GAUNTLET_FEE_SETTER", EVERYWHERE,
        << <<"StablePool", "setSwapFeePercentage">>, <<"MetaStablePool", "setSwapFeePercentage">>,
           <<"StablePhantomPool", "setSwapFeePercentage">>, <<"WeightedPool", "setSwapFeePercentage">>,
           <<"WeightedPool2Tokens", "setSwapFeePercentage">> >>),
    createRoleData("BALLERS_MULTISIG", EVERYWHERE,
        << <<"StablePhantomPool", "setTokenRateCacheDuration">>, <<"AaveLinearPool", "setSwapFeePercentage">>,
           <<"AaveLinearPool", "setTargets">> >>) >>)

roles == flatten(<<batchRelayerPermissions, lidoRelayerPermissions, gnosisProtocolRelayerPermissions,
                   protocolFeesPermissions, veBALPermissions, feesAndTargetsPermissions>>)
granters == createRoleData("BLABS_OPS_MULTISIG", EVERYWHERE, <<<<"SingleRecipientGauge", "checkpoint">>>>)
revokers == <<>>

MainnetLists == [roles |-> roles, granters |-> granters, revokers |-> revokers]
==============================================================================
