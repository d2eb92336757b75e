-------------------------- MODULE StableReference --------------------------
(***************************************************************************)
(* The reference mathematics of pvt/helpers/src/models/pools/stable        *)
(* (math.ts) for two tokens, exactly: each equation is solved by searching *)
(* for the largest whole number of units that does not exceed its root,    *)
(* which is what fp() and bn() keep of it. Where a calculation goes on     *)
(* with a fractional invariant, it goes on with what is before the point.  *)
(***************************************************************************)
EXTENDS ComposableStablePool, Decimals

CONSTANTS
    StableTolerance,    \* units that a result may be away from the exact one, besides 1%
    ComparedAmounts     \* amounts that contracts and reference are compared on

\* The largest r of low .. high - 1 that is not TooLarge.
LargestNot(TooLarge(_), low, high) ==
    LET search[l \in Nat, h \in Nat] ==
            LET middle == (l + h) \div 2
            IN  CASE h <= l + 1       -> l
                  [] TooLarge(middle) -> search[l, middle]
                  [] OTHER            -> search[middle, h]
    IN  search[low, high]

\* invariant^3 / (4 * product), rounded down.
cubeOver(invariant, product) ==
    LET square == invariant * invariant
    IN  invariant * (square \div (4 * product)) + mulDiv(invariant, square % (4 * product), 4 * product)

------------------------------------------------------------------------------
(* math.ts                                                                 *)

\* The root of the cubic D^3 + 4 P (ampTimesTotal - 1) D - 4 P ampTimesTotal S.
refAnalyticalInvariant(balances, amp) ==
    LET sum == balances[1] + balances[2]
        product == balances[1] * balances[2]
        TooLarge(invariant) ==
            cubeOver(invariant, product) + (2 * amp - 1) * invariant > 2 * amp * sum
    IN  LargestNot(TooLarge, 0, sum + 1)

\* The iteration of calculateApproxInvariant falls when it is above that root and rises
\* when it is below, until it is no more than one unit away.
refStableInvariant(balances, amp) ==
    IF balances[1] + balances[2] = 0 THEN 0 ELSE refAnalyticalInvariant(balances, amp)

\* The root of y^2 + b y + c, times 2 * amp; c is -invariant^3 / (8 amp other).
refStableBalance(amp, balances, invariant, index) ==
    LET other == balances[3 - index]
        b == invariant + 2 * amp * (other - invariant)
        c == cubeOver(invariant, other)
        TooLarge(y) == 2 * amp * y * y + b * y > c
    IN  LargestNot(TooLarge, 0, 2 * invariant)

\* At most this much goes out, and at least this much in: the balance that is left is not
\* below its root.
refStableOutGivenIn(amp, balances, in, out, amountIn) ==
    LET invariant == refStableInvariant(balances, amp)
    IN  balances[out] - refStableBalance(amp, [balances EXCEPT ![in] = @ + amountIn], invariant, out)

refStableInGivenOut(amp, balances, in, out, amountOut) ==
    LET invariant == refStableInvariant(balances, amp)
    IN  refStableBalance(amp, [balances EXCEPT ![out] = @ - amountOut], invariant, in) - balances[in]

refStableBptOut(amp, balances, amountsIn, supply, invariant, swapFee) ==
    LET sum == balances[1] + balances[2]
        WithFee(i) == Ratio(balances[i] + amountsIn[i], balances[i])
        average == Plus(Times(WithFee(1), Ratio(balances[1], sum)), Times(WithFee(2), Ratio(balances[2], sum)))
        nonTaxable(i) == Times(Whole(balances[i]), Minus(average, One))
        taxable(i)    == Minus(Whole(amountsIn[i]), nonTaxable(i))
        InWithoutFee(i) == IF Above(WithFee(i), average)
                           THEN Plus(nonTaxable(i), Times(taxable(i), Minus(One, fromFp(swapFee))))
                           ELSE Whole(amountsIn[i])
        new == refStableInvariant([i \in 1..2 |-> balances[i] + bn(InWithoutFee(i))], amp)
    IN  IF new > invariant THEN bn(Times(Whole(supply), Ratio(new - invariant, invariant))) ELSE 0

refStableTokenIn(amp, balances, index, bptOut, supply, invariant, swapFee) ==
    LET new == bn(Times(Whole(invariant), Ratio(supply + bptOut, supply)))
        withoutFee == refStableBalance(amp, balances, new, index) - balances[index]
        taxable    == Times(Whole(withoutFee), Ratio(balances[3 - index], balances[1] + balances[2]))
    IN  bn(Plus(Minus(Whole(withoutFee), taxable), Over(taxable, Minus(One, fromFp(swapFee)))))

refStableBptIn(amp, balances, amountsOut, supply, invariant, swapFee) ==
    LET sum == balances[1] + balances[2]
        WithoutFee(i) == Ratio(balances[i] - amountsOut[i], balances[i])
        average == Plus(Times(WithoutFee(1), Ratio(balances[1], sum)), Times(WithoutFee(2), Ratio(balances[2], sum)))
        nonTaxable(i) == Times(Whole(balances[i]), Minus(One, average))
        taxable(i)    == Minus(Whole(amountsOut[i]), nonTaxable(i))
        OutWithFee(i) == IF Above(average, WithoutFee(i))
                         THEN Plus(nonTaxable(i), Over(taxable(i), Minus(One, fromFp(swapFee))))
                         ELSE Whole(amountsOut[i])
        new == refStableInvariant([i \in 1..2 |-> bn(Minus(Whole(balances[i]), OutWithFee(i)))], amp)
    IN  IF new < invariant THEN bn(Times(Whole(supply), Ratio(invariant - new, invariant))) ELSE 0

refStableTokenOut(amp, balances, index, bptIn, supply, invariant, swapFee) ==
    LET new == bn(Times(Whole(invariant), Ratio(supply - bptIn, supply)))
        withoutFee == balances[index] - refStableBalance(amp, balances, new, index)
        taxable    == Times(Whole(withoutFee), Ratio(balances[3 - index], balances[1] + balances[2]))
    IN  bn(Plus(Minus(Whole(withoutFee), taxable), Times(taxable, Minus(One, fromFp(swapFee)))))

------------------------------------------------------------------------------
(* The client's estimates (StablePool.ts), which leave the swap fee out     *)
(* and take the BPT that were minted beforehand for the total supply.       *)

knownBalances == dropBptItem(registered)

virtualTotalSupply == (2 * PremintedBalance - 1) \div 2 - registered[stableSetup.bptIndex]

estimateInvariant == refStableInvariant(knownBalances, stableSetup.amp)

estimateTokenOutGivenTokenIn(tokenIn, tokenOut, amountIn) ==
    refStableOutGivenIn(stableSetup.amp, knownBalances, skipBptIndex(tokenIn), skipBptIndex(tokenOut), amountIn)
estimateTokenInGivenTokenOut(tokenIn, tokenOut, amountOut) ==
    refStableInGivenOut(stableSetup.amp, knownBalances, skipBptIndex(tokenIn), skipBptIndex(tokenOut), amountOut)

estimateTokenOutGivenBptIn(token, bptIn) ==
    refStableTokenOut(stableSetup.amp, knownBalances, skipBptIndex(token), bptIn, virtualTotalSupply, estimateInvariant, 0)
estimateTokenInGivenBptOut(token, bptOut) ==
    refStableTokenIn(stableSetup.amp, knownBalances, skipBptIndex(token), bptOut, virtualTotalSupply, estimateInvariant, 0)
estimateBptOutGivenTokenIn(token, amountIn) ==
    refStableBptOut(stableSetup.amp, knownBalances, SingleAmount(skipBptIndex(token), amountIn),
                    virtualTotalSupply, estimateInvariant, 0)
estimateBptInGivenTokenOut(token, amountOut) ==
    refStableBptIn(stableSetup.amp, knownBalances, SingleAmount(skipBptIndex(token), amountOut),
                   virtualTotalSupply, estimateInvariant, 0)

\* This one knows the fee, and its caller the supply.
estimateStableBptOut(amountsIn, supply) ==
    refStableBptOut(stableSetup.amp, knownBalances, dropBptItem(amountsIn), supply, estimateInvariant, stableSetup.swapFee)

------------------------------------------------------------------------------

\* Both loops end, and within a unit of the exact invariant.
InvariantFound ==
    PoolInvariant # Reverted /\ Abs(PoolInvariant - estimateInvariant) <= 1

\* What the invariant's own rounding makes of BPT.
UnitOfInvariant == CeilDiv(getVirtualSupply, PoolInvariant)

\* A trader gets no more, and pays no less, than the exact mathematics says, but for what a
\* unit of the invariant makes; and little less, or more, than that.
Loss(reference) == StableTolerance + reference \div 100
StableGives(amount, reference, error) ==
    amount # Reverted => amount \in (reference - Loss(reference)) .. (reference + error)
StableTakes(amount, reference, error) ==
    amount # Reverted => amount \in (reference - error) .. (reference + Loss(reference))

StableFavours(isGivenIn, amount, reference, error) ==
    IF isGivenIn THEN StableGives(amount, reference, error) ELSE StableTakes(amount, reference, error)

StableSwapsFavourThePool ==
    \A in, out \in RegisteredTokens \ {stableSetup.bptIndex}, amount \in ComparedAmounts :
        in # out =>
            /\ StableGives(onRegularSwap(TRUE, amount, in, out), estimateTokenOutGivenTokenIn(in, out, amount), 0)
            /\ amount < registered[out] =>
                 StableTakes(onRegularSwap(FALSE, amount, in, out), estimateTokenInGivenTokenOut(in, out, amount), 0)

\* Without a fee a swap for BPT is what the client estimates, as long as there are just the
\* BPT that were minted beforehand.
StableEstimate(isGivenIn, amount, in, out) ==
    CASE isGivenIn /\ out = stableSetup.bptIndex  -> estimateBptOutGivenTokenIn(in, amount)
      [] ~isGivenIn /\ out = stableSetup.bptIndex -> estimateTokenInGivenBptOut(in, amount)
      [] isGivenIn /\ in = stableSetup.bptIndex   -> estimateTokenOutGivenBptIn(out, amount)
      [] OTHER                                    -> estimateBptInGivenTokenOut(out, amount)
StableEstimatesHold ==
    stableSetup.swapFee = 0 /\ bptSupply = PremintedBalance =>
        \A isGivenIn \in BOOLEAN, amount \in ComparedAmounts, in, out \in RegisteredTokens :
            in # out /\ stableSetup.bptIndex \in {in, out} =>
                StableFavours(isGivenIn, onStableSwap(isGivenIn, amount, in, out),
                              StableEstimate(isGivenIn, amount, in, out),
                              IF isGivenIn = (out = stableSetup.bptIndex) THEN UnitOfInvariant ELSE 0)

\* With the fee, the joins and exits are those of the reference.
StableJoinsFavourThePool ==
    \A amount \in ComparedAmounts, token \in DOMAIN PoolBalances :
        /\ StableGives(stableOutcome(exactTokensIn(SingleAmount(token, amount), 0)).bpt,
                       estimateStableBptOut(addBptItem(SingleAmount(token, amount), 0), getVirtualSupply),
                       UnitOfInvariant)
        /\ StableTakes(stableOutcome(tokenInForBPT(amount, token)).amounts[token],
                       refStableTokenIn(stableSetup.amp, PoolBalances, token, amount, getVirtualSupply,
                                        estimateInvariant, stableSetup.swapFee), 0)

StableExitsFavourThePool ==
    \A amount \in ComparedAmounts, token \in DOMAIN PoolBalances :
        /\ StableTakes(stableExitOutcome(exactTokensOut(SingleAmount(token, amount), bptSupply)).bpt,
                       refStableBptIn(stableSetup.amp, PoolBalances, SingleAmount(token, amount),
                                      getVirtualSupply, estimateInvariant, stableSetup.swapFee),
                       UnitOfInvariant)
        /\ StableGives(stableExitOutcome(oneTokenOut(amount, token)).amounts[token],
                       refStableTokenOut(stableSetup.amp, PoolBalances, token, amount, getVirtualSupply,
                                         estimateInvariant, stableSetup.swapFee), 0)

\* However the Newton iterations and the divisions round, and whichever place BPT has among
\* the registered tokens, swaps, joins and exits are those of the reference mathematics to
\* within a few units, and never better for the trader.
StableMathFavoursThePool ==
    bptSupply > 0 =>
        /\ InvariantFound /\ StableSwapsFavourThePool /\ StableEstimatesHold
        /\ StableJoinsFavourThePool /\ StableExitsFavourThePool
==============================================================================
