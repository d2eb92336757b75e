---------------------------- MODULE WeightedPool ----------------------------
(***************************************************************************)
(* A WeightedPool of two tokens with weights of one half and a rate        *)
(* provider for the first: how joins, exits and swaps, each through the    *)
(* Vault, move tokens and BPT, and how the protocol fees on swaps and on   *)
(* yield become due and are paid (WeightedPool.sol,                        *)
(* WeightedPoolProtocolFees.sol, BaseWeightedPool.sol, and the BasePool    *)
(* with its ProtocolFeeCache and RecoveryMode).                            *)
(*                                                                         *)
(* The calls are those of the client in pvt/helpers (WeightedPool.ts and   *)
(* BasePool.ts), which fills in what its caller leaves out; an action      *)
(* named after a method of the client is the call of the Vault it makes,   *)
(* and the Pool's part in it is named after the Pool's function.           *)
(*                                                                         *)
(* Both tokens have 18 decimals, so that nothing is scaled. A call of the  *)
(* Vault and the change of balances it leads to are one step: the tokens   *)
(* hand over no control. All BPT but what the fee collector and the zero   *)
(* address hold belongs to lp, and authorised calls are made at will.      *)
(* TemporarilyPausable has a module of its own: here the Pool is paused    *)
(* and unpaused at any time.                                               *)
(***************************************************************************)
EXTENDS WeightedMath

CONSTANTS
    MaxUint,            \* MAX_UINT256
    MinimumBpt,         \* _DEFAULT_MINIMUM_BPT
    MinSwapFee,         \* _MIN_SWAP_FEE_PERCENTAGE
    MaxSwapFee,         \* _MAX_SWAP_FEE_PERCENTAGE
    JoinRequests, ExitRequests, \* userData given to joinPool and exitPool
    SwapAmounts,        \* amounts of swaps
    SwapFees,           \* values given to setSwapFeePercentage
    InitialFees,        \* percentages that the protocol fee provider starts with
    FeePercentages,     \* values it takes
    Rates,              \* values the rate provider takes
    Slack,              \* units of the invariant that a calculation may be off
    MaxOperations       \* bound on the operations

VARIABLES
    balances,           \* of the Pool in the Vault
    bpt,                \* [lp, collector, locked]: who holds BPT
    lastPostJoinExitInvariant,
    athRateProduct,
    cache,              \* _cache: [swap, yield]
    swapFeePercentage,
    recoveryMode,
    stopped,            \* is the Pool paused?
    provider,           \* of protocol fee percentages: [swap, yield]
    rate,               \* of the first token
    operations          \* how many there have been, of any kind

feeVars == <<lastPostJoinExitInvariant, athRateProduct, cache>>
modeVars == <<swapFeePercentage, recoveryMode, stopped>>
outsideVars == <<provider, rate>>
poolVars == <<balances, bpt, feeVars, modeVars, outsideVars, operations>>

Tokens  == {1, 2}
Weights == <<HALF, HALF>>
Other(i) == 3 - i

------------------------------------------------------------------------------
(* The userData of joins and exits (WeightedPoolEncoder, BasePoolEncoder).  *)

joinInit(amountsIn) == [kind |-> "INIT", amountsIn |-> amountsIn]
joinExactTokensInForBPTOut(amountsIn, minimumBPT) ==
    [kind |-> "EXACT_TOKENS_IN_FOR_BPT_OUT", amountsIn |-> amountsIn, minimumBPT |-> minimumBPT]
joinTokenInForExactBPTOut(bptOut, index) ==
    [kind |-> "TOKEN_IN_FOR_EXACT_BPT_OUT", bptOut |-> bptOut, index |-> index]
joinAllTokensInForExactBPTOut(bptOut) ==
    [kind |-> "ALL_TOKENS_IN_FOR_EXACT_BPT_OUT", bptOut |-> bptOut]
exitExactBPTInForOneTokenOut(bptIn, index) ==
    [kind |-> "EXACT_BPT_IN_FOR_ONE_TOKEN_OUT", bptIn |-> bptIn, index |-> index]
exitExactBPTInForTokensOut(bptIn) == [kind |-> "EXACT_BPT_IN_FOR_TOKENS_OUT", bptIn |-> bptIn]
exitBPTInForExactTokensOut(amountsOut, maxBPT) ==
    [kind |-> "BPT_IN_FOR_EXACT_TOKENS_OUT", amountsOut |-> amountsOut, maxBPT |-> maxBPT]
exitInRecoveryMode(bptIn) == [kind |-> "RECOVERY_MODE", bptIn |-> bptIn]

JoinUserData ==
         [kind : {"INIT"}, amountsIn : [Tokens -> Nat]]
    \cup [kind : {"EXACT_TOKENS_IN_FOR_BPT_OUT"}, amountsIn : [Tokens -> Nat], minimumBPT : Nat]
    \cup [kind : {"TOKEN_IN_FOR_EXACT_BPT_OUT"}, bptOut : Nat, index : Tokens]
    \cup [kind : {"ALL_TOKENS_IN_FOR_EXACT_BPT_OUT"}, bptOut : Nat]
ExitUserData ==
         [kind : {"EXACT_BPT_IN_FOR_ONE_TOKEN_OUT"}, bptIn : Nat, index : Tokens]
    \cup [kind : {"EXACT_BPT_IN_FOR_TOKENS_OUT", "RECOVERY_MODE"}, bptIn : Nat]
    \cup [kind : {"BPT_IN_FOR_EXACT_TOKENS_OUT"}, amountsOut : [Tokens -> Nat], maxBPT : Nat]

(* What the client makes of its parameters: amounts are one for each token, *)
(* or a single one for all of them; a limit is <<>> when it is not given.   *)

Filled(amounts) == IF Len(amounts) = 1 THEN [i \in Tokens |-> amounts[1]] ELSE amounts
Given(limit, default) == IF limit = <<>> THEN default ELSE limit[1]

buildInitParams(initialBalances) == joinInit(Filled(initialBalances))
buildJoinGivenInParams(amountsIn, minimumBptOut) ==
    joinExactTokensInForBPTOut(Filled(amountsIn), Given(minimumBptOut, 0))
buildJoinGivenOutParams(bptOut, token)    == joinTokenInForExactBPTOut(bptOut, token)
buildJoinAllGivenOutParams(bptOut)        == joinAllTokensInForExactBPTOut(bptOut)
buildExitGivenOutParams(amountsOut, maximumBptIn) ==
    exitBPTInForExactTokensOut(Filled(amountsOut), Given(maximumBptIn, MaxUint))
buildSingleExitGivenInParams(bptIn, token) == exitExactBPTInForOneTokenOut(bptIn, token)
buildMultiExitGivenInParams(bptIn)         == exitExactBPTInForTokensOut(bptIn)
buildRecoveryModeExitParams(bptIn)         == exitInRecoveryMode(bptIn)
buildSwapParams(kind, tokenIn, amount) ==
    [kind |-> kind, tokenIn |-> tokenIn, tokenOut |-> Other(tokenIn), amount |-> amount,
     balanceTokenIn |-> balances[tokenIn], balanceTokenOut |-> balances[Other(tokenIn)]]

------------------------------------------------------------------------------
(* Protocol fees.                                                          *)

\* The provider accepts half of the swap fees, and all of the yield.
getFeeTypeMaximumPercentage(feeType) == IF feeType = "swap" THEN HALF ELSE ONE
Percentages ==
    [swap : 0..getFeeTypeMaximumPercentage("swap"), yield : 0..getFeeTypeMaximumPercentage("yield")]

TotalSupply == bpt.lp + bpt.collector + bpt.locked
Initialized == TotalSupply > 0
Invariant   == calculateInvariant(Weights, balances)
RateProduct == mulDown(powDown(rate, HALF), ONE)

getProtocolFeePercentageCache(feeType) == IF recoveryMode THEN 0 ELSE cache[feeType]

SwapFeesShare ==
    getProtocolOwnershipPercentage(divDown(Invariant, lastPostJoinExitInvariant), ONE,
                                   getProtocolFeePercentageCache("swap"))
YieldFeesShare ==
    IF RateProduct <= athRateProduct THEN 0
    ELSE getProtocolOwnershipPercentage(divDown(RateProduct, athRateProduct), ONE,
                                        getProtocolFeePercentageCache("yield"))

\* What the protocol is owed and has not been minted yet.
PreJoinExitProtocolFees ==
    bptForPoolOwnershipPercentage(TotalSupply, SwapFeesShare + YieldFeesShare)

\* Otherwise the calculation reverts, with ZERO_INVARIANT or in a division by zero.
FeesCanBePaid ==
    /\ Invariant > 0 /\ lastPostJoinExitInvariant > 0
    /\ SwapFeesShare + YieldFeesShare < ONE

getActualSupply == TotalSupply + PreJoinExitProtocolFees

\* The ath is raised, never lowered.
RaisedAth == IF RateProduct > athRateProduct THEN RateProduct ELSE athRateProduct

AthOnDisable == RaisedAth

\* Mutant: what is due is reckoned with, and never minted.
NothingMinted(holders, fees) == holders

\* _payProtocolFees
payProtocolFees(holders, fees) == [holders EXCEPT !.collector = @ + fees]

\* Mutant: the invariant from before the operation is stored.
StoredTooEarly(postInvariant) == Invariant

updatePostJoinExit(postInvariant) == postInvariant

------------------------------------------------------------------------------
(* Joins and exits: [bpt, amounts], Reverted where the code reverts.       *)

Revert == [bpt |-> Reverted, amounts |-> <<0, 0>>]
Only(i, amount) == IF amount = Reverted THEN Revert.amounts ELSE [j \in Tokens |-> IF j = i THEN amount ELSE 0]

doJoin(request, supply) ==
    CASE request.kind = "EXACT_TOKENS_IN_FOR_BPT_OUT" ->
            LET out == calcBptOutGivenExactTokensIn(balances, Weights, request.amountsIn, supply, swapFeePercentage)
            IN  IF out < request.minimumBPT THEN Revert
                ELSE [bpt |-> out, amounts |-> request.amountsIn]
      [] request.kind = "TOKEN_IN_FOR_EXACT_BPT_OUT" ->
            LET in == calcTokenInGivenExactBptOut(balances[request.index], HALF, request.bptOut, supply, swapFeePercentage)
            IN  IF in = Reverted THEN Revert
                ELSE [bpt |-> request.bptOut, amounts |-> Only(request.index, in)]
      [] request.kind = "ALL_TOKENS_IN_FOR_EXACT_BPT_OUT" ->
            [bpt |-> request.bptOut, amounts |-> calcAllTokensInGivenExactBptOut(balances, request.bptOut, supply)]
      [] OTHER -> Revert

doExit(request, supply) ==
    CASE request.kind = "EXACT_BPT_IN_FOR_ONE_TOKEN_OUT" ->
            LET out == calcTokenOutGivenExactBptIn(balances[request.index], HALF, request.bptIn, supply, swapFeePercentage)
            IN  IF out = Reverted THEN Revert
                ELSE [bpt |-> request.bptIn, amounts |-> Only(request.index, out)]
      [] request.kind = "EXACT_BPT_IN_FOR_TOKENS_OUT" ->
            [bpt |-> request.bptIn, amounts |-> calcTokensOutGivenExactBptIn(balances, request.bptIn, supply)]
      [] request.kind = "BPT_IN_FOR_EXACT_TOKENS_OUT" ->
            LET in == calcBptInGivenExactTokensOut(balances, Weights, request.amountsOut, supply, swapFeePercentage)
            IN  IF in = Reverted \/ in > request.maxBPT THEN Revert
                ELSE [bpt |-> in, amounts |-> request.amountsOut]
      [] OTHER -> Revert

\* The fees of what a join or exit that took the supply from pre to post traded implicitly.
PostJoinExitProtocolFees(postInvariant, pre, post) ==
    IF getProtocolFeePercentageCache("swap") = 0 THEN 0
    ELSE calcDueProtocolFees(divDown(postInvariant, Invariant), pre, post,
                             getProtocolFeePercentageCache("swap"))

\* _onJoinPool and _onExitPool: what was due is paid first, and what the operation itself
\* adds is paid when its effect is known.
Settle(supply, outcome, change) ==
    LET postSupply == supply + change * outcome.bpt
        isJoin     == postSupply >= supply
        \* _getPostJoinExitProtocolFees tells joins from exits by the supply
        postBalances == [i \in Tokens |-> balances[i] + (IF isJoin THEN 1 ELSE -1) * outcome.amounts[i]]
        postInvariant == calculateInvariant(Weights, postBalances)
        minted == supply - TotalSupply + PostJoinExitProtocolFees(postInvariant, supply, postSupply)
    IN  /\ postInvariant > 0
        /\ bpt' = payProtocolFees([bpt EXCEPT !.lp = bpt.lp + change * outcome.bpt], minted)
        /\ lastPostJoinExitInvariant' = updatePostJoinExit(postInvariant)
        /\ athRateProduct' = RaisedAth
        /\ UNCHANGED cache

------------------------------------------------------------------------------
(* The operations.                                                         *)

Operate == UNCHANGED <<modeVars, outsideVars>>

\* The Vault's side: it takes what the Pool asks for, or sends it.
joinPool(amountsIn)  == balances' = [i \in Tokens |-> balances[i] + amountsIn[i]]
exitPool(amountsOut) == /\ \A i \in Tokens : amountsOut[i] <= balances[i]
                        /\ balances' = [i \in Tokens |-> balances[i] - amountsOut[i]]

\* Mutant: nothing is locked.
AllToTheSender(bptOut) == [lp |-> bptOut, collector |-> 0, locked |-> 0]

mintInitial(bptOut) == [lp |-> bptOut - MinimumBpt, collector |-> 0, locked |-> MinimumBpt]

onInitializePool(request) ==
    LET invariant == calculateInvariant(Weights, request.amountsIn)
    IN  /\ request.kind = "INIT"
        /\ invariant > 0 /\ 2 * invariant >= MinimumBpt
        /\ bpt' = mintInitial(2 * invariant)
        /\ lastPostJoinExitInvariant' = invariant
        /\ athRateProduct' = RateProduct
        /\ UNCHANGED cache

\* onJoinPool initializes a Pool without BPT; afterwards INIT is no kind of join.
join(request) ==
    /\ ~stopped
    /\ Operate
    /\ \/ ~Initialized /\ onInitializePool(request) /\ joinPool(request.amountsIn)
       \/ /\ Initialized /\ FeesCanBePaid
          /\ LET outcome == doJoin(request, getActualSupply)
             IN  outcome.bpt # Reverted /\ Settle(getActualSupply, outcome, 1) /\ joinPool(outcome.amounts)

exit(request) ==
    /\ ~stopped
    /\ Operate
    /\ Initialized /\ FeesCanBePaid
    /\ LET outcome == doExit(request, getActualSupply)
       IN  /\ outcome.bpt # Reverted /\ outcome.bpt <= bpt.lp
           /\ Settle(getActualSupply, outcome, -1) /\ exitPool(outcome.amounts)

\* Neither the pause nor the fees stand in the way of this exit.
recoveryModeExit(request) ==
    /\ request.kind = "RECOVERY_MODE"
    /\ recoveryMode
    /\ Operate
    /\ Initialized /\ request.bptIn <= bpt.lp
    /\ exitPool(calcTokensOutGivenExactBptIn(balances, request.bptIn, TotalSupply))
    /\ bpt' = [bpt EXCEPT !.lp = bpt.lp - request.bptIn]
    /\ UNCHANGED feeVars

SubtractSwapFee(amount) == amount - mulUp(amount, swapFeePercentage)
AddSwapFee(amount)      == divUp(amount, complement(swapFeePercentage))

\* What the other token's amount is: with the fee taken from what goes in, or added to it.
onSwap(params) ==
    IF params.kind = "GIVEN_IN"
    THEN calcOutGivenIn(params.balanceTokenIn, HALF, params.balanceTokenOut, HALF, SubtractSwapFee(params.amount))
    ELSE LET in == calcInGivenOut(params.balanceTokenIn, HALF, params.balanceTokenOut, HALF, params.amount)
         IN  IF in = Reverted THEN Reverted ELSE AddSwapFee(in)

swap(params) ==
    /\ ~stopped
    /\ Operate
    /\ Initialized
    /\ LET calculated == onSwap(params)
           in  == IF params.kind = "GIVEN_IN" THEN params.amount ELSE calculated
           out == IF params.kind = "GIVEN_IN" THEN calculated ELSE params.amount
       IN  /\ calculated # Reverted
           /\ balances' = [balances EXCEPT ![params.tokenIn] = balances[params.tokenIn] + in,
                                           ![params.tokenOut] = balances[params.tokenOut] - out]
    /\ UNCHANGED <<bpt, feeVars>>

swapGivenIn(token, amount)  == swap(buildSwapParams("GIVEN_IN", token, amount))
swapGivenOut(token, amount) == swap(buildSwapParams("GIVEN_OUT", token, amount))

\* Mutant: what must remain is taken for what may leave.
RemainderLeaves == mulDown(TotalSupply, MinInvariantRatio)

\* How far a join or exit with one token, or a swap, may go, as the client sees it: it
\* knows the BPT there are and not those that are due.
getMaxInvariantDecrease == TotalSupply - mulDown(MinInvariantRatio, TotalSupply)
getMaxInvariantIncrease == mulDown(MaxInvariantRatio, TotalSupply) - TotalSupply
getMaxIn(token)  == mulDown(balances[token], MaxInRatio)
getMaxOut(token) == mulDown(balances[token], MaxOutRatio)

------------------------------------------------------------------------------
(* Administration, and what happens outside.                               *)

Administer == UNCHANGED balances

\* Mutant: the cache changes without what was due being paid.
RefreshUnpaid ==
    /\ ~stopped /\ FeesCanBePaid
    /\ Administer
    /\ cache' = provider
    /\ UNCHANGED <<bpt, lastPostJoinExitInvariant, athRateProduct, modeVars, outsideVars>>

\* Anybody may call it.
UpdateProtocolFeePercentageCache ==
    /\ ~stopped /\ FeesCanBePaid
    /\ Administer
    /\ bpt' = payProtocolFees(bpt, PreJoinExitProtocolFees)
    /\ lastPostJoinExitInvariant' = Invariant
    /\ athRateProduct' = RaisedAth
    /\ cache' = provider
    /\ UNCHANGED <<modeVars, outsideVars>>

SetSwapFeePercentage(fee) ==
    /\ ~stopped
    /\ MinSwapFee <= fee /\ fee <= MaxSwapFee
    /\ Administer
    /\ swapFeePercentage' = fee
    /\ UNCHANGED <<bpt, feeVars, recoveryMode, stopped, outsideVars>>

\* Fees accrued in Recovery Mode are forgiven at its end.
OnDisableRecoveryMode ==
    /\ Invariant > 0
    /\ lastPostJoinExitInvariant' = Invariant
    /\ athRateProduct' = AthOnDisable
    /\ UNCHANGED cache

SetRecoveryMode(enabled) ==
    /\ Administer
    /\ recoveryMode' = enabled
    /\ IF enabled THEN UNCHANGED feeVars ELSE OnDisableRecoveryMode
    /\ UNCHANGED <<bpt, swapFeePercentage, stopped, outsideVars>>

enableRecoveryMode  == SetRecoveryMode(TRUE)
disableRecoveryMode == SetRecoveryMode(FALSE)

SetPaused(newPaused) ==
    /\ Administer
    /\ stopped' = newPaused
    /\ UNCHANGED <<bpt, feeVars, swapFeePercentage, recoveryMode, outsideVars>>

pause   == SetPaused(TRUE)
unpause == SetPaused(FALSE)

setFeeTypePercentage(feeType, percentage) ==
    /\ percentage <= getFeeTypeMaximumPercentage(feeType)
    /\ Administer
    /\ provider' = [provider EXCEPT ![feeType] = percentage]
    /\ UNCHANGED <<bpt, feeVars, modeVars, rate>>

RateChanges(newRate) ==
    /\ Administer
    /\ rate' = newRate
    /\ UNCHANGED <<bpt, feeVars, modeVars, provider>>

PoolInit ==
    /\ balances = <<0, 0>> /\ bpt = [lp |-> 0, collector |-> 0, locked |-> 0]
    /\ lastPostJoinExitInvariant = 0 /\ athRateProduct = 0
    /\ provider \in InitialFees /\ cache = provider
    /\ swapFeePercentage = MaxSwapFee /\ recoveryMode = FALSE /\ stopped = FALSE
    /\ rate \in Rates /\ operations = 0

\* The units and limits are those of the code in proportion, requests are unsigned, the
\* percentages are among those that the provider accepts, and rates are not so close to
\* zero that powDown takes them for zero.
ASSUME PoolAssumption ==
    /\ ONE \in Nat \ {0} /\ ONE % 2 = 0 /\ PowError \in Nat
    /\ MaxInRatio \in 0..ONE /\ MaxOutRatio \in 0..(ONE - 1)
    /\ MaxInvariantRatio \in Nat /\ MaxInvariantRatio >= ONE /\ MinInvariantRatio \in 0..(ONE - 1)
    /\ MinimumBpt \in Nat \ {0} /\ MinSwapFee \in Nat /\ MaxSwapFee \in 0..(ONE - 1)
    /\ JoinRequests \subseteq JoinUserData /\ ExitRequests \subseteq ExitUserData
    /\ SwapAmounts \subseteq Nat /\ SwapFees \subseteq Nat
    /\ FeePercentages \subseteq Nat /\ InitialFees \subseteq Percentages
    /\ Rates \subseteq Nat /\ \A r \in Rates : mulDown(powDown(r, HALF), ONE) > 0

PoolNext ==
  /\ operations < MaxOperations /\ operations' = operations + 1
  /\ \/ \E request \in JoinRequests : join(request)
     \/ \E request \in ExitRequests \cup {buildMultiExitGivenInParams(bpt.lp)} : exit(request)
     \/ \E request \in ExitRequests \cup {buildRecoveryModeExitParams(bpt.lp)} : recoveryModeExit(request)
     \/ \E token \in Tokens, amount \in SwapAmounts : swapGivenIn(token, amount) \/ swapGivenOut(token, amount)
     \/ UpdateProtocolFeePercentageCache
     \/ \E fee \in SwapFees : SetSwapFeePercentage(fee)
     \/ enableRecoveryMode \/ disableRecoveryMode
     \/ pause \/ unpause
     \/ \E feeType \in {"swap", "yield"}, percentage \in FeePercentages : setFeeTypePercentage(feeType, percentage)
     \/ \E newRate \in Rates : RateChanges(newRate)

PoolSpec == PoolInit /\ [][PoolNext]_poolVars

------------------------------------------------------------------------------
\* A Pool is initialized once: from then on there are BPT, tokens behind them, and growth
\* can be measured, even when everybody has left by whatever way.
NeverDrained ==
    /\ lastPostJoinExitInvariant > 0 => TotalSupply >= MinimumBpt /\ \A i \in Tokens : balances[i] > 0
    /\ Initialized => lastPostJoinExitInvariant > 0 /\ athRateProduct > 0

\* What the client takes for the limits of an operation is accepted by the Pool, although
\* the supply it measures with grows by the protocol fees that are paid first (of an exit,
\* one unit less: the client's own limit may be refused, by the rounding of the ratio); and
\* when none are due nothing beyond them is, but for what a ratio cannot tell apart.
LimitsAreAccepted ==
    Initialized /\ FeesCanBePaid =>
        LET Joins(bptOut)  == doJoin(buildJoinGivenOutParams(bptOut, 1), getActualSupply).bpt # Reverted
            Exits(bptIn)   == doExit(buildSingleExitGivenInParams(bptIn, 1), getActualSupply).bpt # Reverted
            Swaps(kind, amount) == onSwap(buildSwapParams(kind, 1, amount)) # Reverted
            unit == 1 + TotalSupply \div ONE
        IN  /\ Joins(getMaxInvariantIncrease) /\ Exits(getMaxInvariantDecrease - 1)
            /\ Swaps("GIVEN_IN", getMaxIn(1)) /\ Swaps("GIVEN_OUT", getMaxOut(2))
            /\ ~Swaps("GIVEN_OUT", getMaxOut(2) + 1)
            /\ PreJoinExitProtocolFees = 0
                => ~Joins(getMaxInvariantIncrease + 1) /\ ~Exits(getMaxInvariantDecrease + unit)

\* Of the invariant, what belongs to one BPT once the protocol has got what it is due.
ShareValue == divDown(Invariant, getActualSupply)

\* Whatever joins, exits and swaps others make, and whatever is administered, a share
\* loses no value beyond rounding; only new yield, which shows in the rate and not in
\* the invariant, is shared with the protocol.
ShareValueNeverFalls ==
    [][Initialized /\ rate' = rate => ShareValue' + divUp(Slack, Invariant') >= ShareValue]_poolVars

\* Without a loss at all, however often it is repeated: the product of the balances, which
\* the curve of a swap keeps, falls only for LPs that give up BPT.
TradesKeepProduct ==
    [][bpt'.lp >= bpt.lp => balances'[1] * balances'[2] >= balances[1] * balances[2]]_poolVars

\* No rounding, and no order of operations, lets a trader or an LP gain from the others.
PoolKeepsItsValue == ShareValueNeverFalls /\ TradesKeepProduct

\* Joins, exits and refreshing the cache leave nothing to be paid, so that new LPs do not
\* pay for old growth, nor for a change of the percentages.
FreeOfDebt ==
    [][Initialized' /\ (bpt.lp' # bpt.lp \/ cache' # cache) /\ ~recoveryMode
        => PreJoinExitProtocolFees' = 0]_poolVars

\* The all time high of the rate product is one: the same yield is never charged twice.
YieldChargedOnce == [][Initialized => athRateProduct' >= athRateProduct]_poolVars

\* The fee collector gets no less than what was due before the step, and what the step
\* itself owes: a join or exit that is not proportional trades, and owes a part of its fees.
PaysItsFees ==
    LET postSupply == getActualSupply + (bpt'.lp - bpt.lp)
        ownFees    == PostJoinExitProtocolFees(Invariant', getActualSupply, postSupply)
    IN  bpt'.collector >= bpt.collector + PreJoinExitProtocolFees + ownFees

\* Growth is measured from what was stored last, with the percentages of the cache, and paid
\* for with BPT of the supply of the time.  None of these moves before the growth so far is
\* paid for; only leaving Recovery Mode forgives it.
ProtocolIsPaid ==
    [][Initialized /\ (bpt'.lp # bpt.lp \/ feeVars' # feeVars)
        => PaysItsFees \/ disableRecoveryMode]_poolVars

\* The protocol gets its part of all growth, and of none of it twice.
FeesChargedOnce == FreeOfDebt /\ ProtocolIsPaid /\ YieldChargedOnce
==============================================================================
