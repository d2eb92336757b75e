---------------------------- MODULE WeightedMath ----------------------------
(***************************************************************************)
(* WeightedMath.sol, and the libraries that turn the growth of a Pool into *)
(* protocol fees (InvariantGrowthProtocolSwapFees.sol, ProtocolFees.sol).  *)
(***************************************************************************)
EXTENDS FixedPointMath, FiniteSets

CONSTANTS
    MaxInRatio,         \* _MAX_IN_RATIO
    MaxOutRatio,        \* _MAX_OUT_RATIO
    MaxInvariantRatio,  \* _MAX_INVARIANT_RATIO
    MinInvariantRatio   \* _MIN_INVARIANT_RATIO

Product(factors) == FoldLeft(mulDown, ONE, factors)
Total(terms)     == FoldLeft(LAMBDA a, b : a + b, 0, terms)

calculateInvariant(weights, balances) ==
    Product([i \in DOMAIN balances |-> powDown(balances[i], weights[i])])

calcOutGivenIn(balanceIn, weightIn, balanceOut, weightOut, amountIn) ==
    IF amountIn > mulDown(balanceIn, MaxInRatio) THEN Reverted
    ELSE LET base  == divUp(balanceIn, balanceIn + amountIn)
             power == powUp(base, divDown(weightIn, weightOut))
         IN  mulDown(balanceOut, complement(power))

\* Mutant: the last product is rounded in favour of the trader.
InRoundedDown(balanceIn, weightIn, balanceOut, weightOut, amountOut) ==
    IF amountOut > mulDown(balanceOut, MaxOutRatio) THEN Reverted
    ELSE mulDown(balanceIn, divDown(balanceOut, balanceOut - amountOut) - ONE)

calcInGivenOut(balanceIn, weightIn, balanceOut, weightOut, amountOut) ==
    IF amountOut > mulDown(balanceOut, MaxOutRatio) THEN Reverted
    ELSE LET base  == divUp(balanceOut, balanceOut - amountOut)
             power == powUp(base, divUp(weightOut, weightIn))
         IN  mulUp(balanceIn, power - ONE)

------------------------------------------------------------------------------
(* Joins.                                                                  *)

calcBptOutGivenExactTokensIn(balances, weights, amountsIn, supply, swapFee) ==
    LET WithFee(i)  == divDown(balances[i] + amountsIn[i], balances[i])
        average     == Total([i \in DOMAIN balances |-> mulDown(WithFee(i), weights[i])])
        nonTaxable(i) == mulDown(balances[i], average - ONE)
        taxable(i)  == amountsIn[i] - nonTaxable(i)
        InWithoutFee(i) == IF WithFee(i) > average
                           THEN nonTaxable(i) + taxable(i) - mulUp(taxable(i), swapFee)
                           ELSE amountsIn[i]
        ratio == Product([i \in DOMAIN balances |->
                    powDown(divDown(balances[i] + InWithoutFee(i), balances[i]), weights[i])])
    IN  IF ratio > ONE THEN mulDown(supply, ratio - ONE) ELSE 0

calcTokenInGivenExactBptOut(balance, weight, bptOut, supply, swapFee) ==
    LET ratio == divUp(supply + bptOut, supply)
        inWithoutFee == mulUp(balance, powUp(ratio, divUp(ONE, weight)) - ONE)
        taxable == mulUp(inWithoutFee, complement(weight))
    IN  IF ratio > MaxInvariantRatio THEN Reverted
        ELSE inWithoutFee - taxable + divUp(taxable, complement(swapFee))

calcAllTokensInGivenExactBptOut(balances, bptOut, supply) ==
    [i \in DOMAIN balances |-> mulUp(balances[i], divUp(bptOut, supply))]

------------------------------------------------------------------------------
(* Exits.                                                                  *)

calcBptInGivenExactTokensOut(balances, weights, amountsOut, supply, swapFee) ==
    LET WithoutFee(i) == divUp(balances[i] - amountsOut[i], balances[i])
        average       == Total([i \in DOMAIN balances |-> mulUp(WithoutFee(i), weights[i])])
        nonTaxable(i) == mulDown(balances[i], complement(average))
        taxable(i)    == amountsOut[i] - nonTaxable(i)
        OutWithFee(i) == IF average > WithoutFee(i)
                         THEN nonTaxable(i) + divUp(taxable(i), complement(swapFee))
                         ELSE amountsOut[i]
        ratio == Product([i \in DOMAIN balances |->
                    powDown(divDown(balances[i] - OutWithFee(i), balances[i]), weights[i])])
    IN  IF \E i \in DOMAIN balances :
               amountsOut[i] > balances[i] \/ OutWithFee(i) > balances[i]
        THEN Reverted
        ELSE mulUp(supply, complement(ratio))

calcTokenOutGivenExactBptIn(balance, weight, bptIn, supply, swapFee) ==
    LET ratio == divUp(supply - bptIn, supply)
        outWithoutFee == mulDown(balance, complement(powUp(ratio, divDown(ONE, weight))))
        taxable == mulUp(outWithoutFee, complement(weight))
    IN  IF bptIn > supply \/ ratio < MinInvariantRatio THEN Reverted
        ELSE outWithoutFee - taxable + mulUp(taxable, complement(swapFee))

calcTokensOutGivenExactBptIn(balances, bptIn, supply) ==
    [i \in DOMAIN balances |-> mulDown(balances[i], divDown(bptIn, supply))]

------------------------------------------------------------------------------
(* Protocol fees, as a share of the Pool and as BPT.                       *)

getProtocolOwnershipPercentage(invariantGrowth, supplyGrowth, feePercentage) ==
    IF feePercentage = 0 \/ supplyGrowth >= invariantGrowth THEN 0
    ELSE mulDown(ONE - divDown(supplyGrowth, invariantGrowth), feePercentage)

bptForPoolOwnershipPercentage(supply, ownership) == (supply * ownership) \div complement(ownership)

calcDueProtocolFees(invariantGrowth, previousSupply, currentSupply, feePercentage) ==
    bptForPoolOwnershipPercentage(currentSupply,
        getProtocolOwnershipPercentage(invariantGrowth, divDown(currentSupply, previousSupply), feePercentage))
==============================================================================
