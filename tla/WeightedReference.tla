------------------------- MODULE WeightedReference -------------------------
(***************************************************************************)
(* The reference mathematics of pvt/helpers/src/models/pools/weighted      *)
(* (math.ts, and the estimates of WeightedPool.ts that tests compare the   *)
(* contracts with), in exact fractions for two tokens of weight one half,  *)
(* and toNormalizedWeights of balancer-js. Decimals become integers the    *)
(* way bn() makes them, by dropping what comes after the point.            *)
(***************************************************************************)
EXTENDS WeightedMath, Decimals

CONSTANTS
    MaxWeightedTokens,  \* normalizedWeights.ts
    Tolerance,          \* of the comparisons, as a fraction of the balance or of the supply
    Cases,              \* [balances, amount, supply, swapFee]: what the functions are compared on
    WeightLists         \* weightLists of weights to normalize

VARIABLES cases, weightLists       \* one of the cases, or one of the weightLists of weights

mathVars == <<cases, weightLists>>

------------------------------------------------------------------------------
(* math.ts                                                                 *)

refInvariant(balances) == IntegerRoot(balances[1] * balances[2])

refOutGivenIn(balanceIn, balanceOut, amountIn) ==
    Times(Whole(balanceOut), Minus(One, Ratio(balanceIn, balanceIn + amountIn)))

refInGivenOut(balanceIn, balanceOut, amountOut) ==
    Times(Whole(balanceIn), Minus(Ratio(balanceOut, balanceOut - amountOut), One))

refBptOutGivenExactTokensIn(balances, amountsIn, supply, swapFee) ==
    LET WithFee(i) == Ratio(balances[i] + amountsIn[i], balances[i])
        average    == Times(Half, Plus(WithFee(1), WithFee(2)))
        nonTaxable(i) == Times(Whole(balances[i]), Minus(average, One))
        taxable(i)    == Minus(Whole(amountsIn[i]), nonTaxable(i))
        InWithoutFee(i) == IF Above(WithFee(i), average)
                           THEN Plus(nonTaxable(i), Times(taxable(i), Minus(One, fromFp(swapFee))))
                           ELSE Whole(amountsIn[i])
        Growth(i) == Plus(One, Over(InWithoutFee(i), Whole(balances[i])))
    IN  ScaledRoot(Times(Growth(1), Growth(2)), supply) - supply

refTokenInGivenExactBptOut(balance, bptOut, supply, swapFee) ==
    LET ratio == Ratio(supply + bptOut, supply)
        afterFee == Times(Whole(balance), Minus(Times(ratio, ratio), One))
    IN  bn(Over(afterFee, Minus(One, Times(Half, fromFp(swapFee)))))

refBptInGivenExactTokensOut(balances, amountsOut, supply, swapFee) ==
    LET WithoutFee(i) == Ratio(balances[i] - amountsOut[i], balances[i])
        average       == Times(Half, Plus(WithoutFee(1), WithoutFee(2)))
        Excess(i) == IF Above(average, WithoutFee(i))
                     THEN Over(Minus(average, WithoutFee(i)), Minus(One, WithoutFee(i)))
                     ELSE Whole(0)
        BeforeFee(i) == Over(Whole(amountsOut[i]), Minus(One, Times(fromFp(swapFee), Excess(i))))
        Left(i)   == Minus(One, Over(BeforeFee(i), Whole(balances[i])))
    IN  supply - ScaledRoot(Times(Left(1), Left(2)), supply)

refTokenOutGivenExactBptIn(balance, bptIn, supply, swapFee) ==
    LET ratio == Ratio(supply - bptIn, supply)
        beforeFee == Times(Whole(balance), Minus(One, Times(ratio, ratio)))
    IN  bn(Times(beforeFee, Minus(One, Times(Half, fromFp(swapFee)))))

refTokensOutGivenExactBptIn(balances, bptIn, supply) ==
    [i \in DOMAIN balances |-> bn(Times(Whole(balances[i]), Ratio(bptIn, supply)))]

refBPTSwapFeeAmount(invariantGrowth, preSupply, postSupply, feePercentage) ==
    LET supplyGrowth == divDown(postSupply, preSupply)
        k == ((ONE - divDown(supplyGrowth, invariantGrowth)) * feePercentage) \div ONE
    IN  IF invariantGrowth <= supplyGrowth THEN 0 ELSE (postSupply * k) \div (ONE - k)

Rounded(p) == (2 * p[1] + p[2]) \div (2 * p[2])    \* toFixed(0)
refSpotPrice(balances)        == Rounded(Times(Whole(ONE), Ratio(2 * balances[1], 2 * balances[2])))
refBPTPrice(balance, supply)  == Rounded(Times(Whole(ONE), Ratio(2 * balance, supply)))

------------------------------------------------------------------------------
(* The estimates of WeightedPool.ts, for the first token of a case.        *)

estimateGivenIn(case)  == bn(refOutGivenIn(case.balances[1], case.balances[2], case.amount))
estimateGivenOut(case) == bn(refInGivenOut(case.balances[1], case.balances[2], case.amount))
estimateBptOut(case)   == refBptOutGivenExactTokensIn(case.balances, <<case.amount, 0>>, case.supply, case.swapFee)
estimateTokenIn(case)  == refTokenInGivenExactBptOut(case.balances[1], case.amount, case.supply, case.swapFee)
estimateTokenOut(case) == refTokenOutGivenExactBptIn(case.balances[1], case.amount, case.supply, case.swapFee)
estimateSpotPrice(case) == refSpotPrice(case.balances)
estimateBptPrice(case)  == refBPTPrice(case.balances[1], case.supply)

------------------------------------------------------------------------------
(* normalizedWeights.ts                                                    *)

\* Mutant: the last weight is rounded like the others.
NormalizedEach(list) ==
    [i \in DOMAIN list |-> (list[i] * ONE) \div Total(list)]

toNormalizedWeights(list) ==
    IF Len(list) = MaxWeightedTokens THEN [i \in DOMAIN list |-> ONE \div MaxWeightedTokens]
    ELSE IF Total(list) = ONE THEN list
    ELSE LET first == [i \in 1..(Len(list) - 1) |-> (list[i] * ONE) \div Total(list)]
         IN  Append(first, ONE - Total(first))

isNormalizedWeights(list) == Total(list) = ONE

------------------------------------------------------------------------------

MathInit ==
    \/ cases \in {{case} : case \in Cases} /\ weightLists = {}
    \/ cases = {} /\ weightLists \in {{list} : list \in WeightLists}

MathSpec == MathInit /\ [][FALSE]_mathVars

\* ONE can be divided among the largest number of tokens, and weights that are all zero,
\* or none at all, are not normalized.
ASSUME WeightsAssumption ==
    /\ ONE \in Nat /\ MaxWeightedTokens \in Nat \ {0}
    /\ MaxWeightedTokens * (ONE \div MaxWeightedTokens) = ONE
    /\ \A list \in WeightLists : list \in Seq(Nat) /\ list # <<>> /\ Total(list) > 0

Halves == <<HALF, HALF>>
OnlyFirst(a) == <<a, 0>>

Near(amount, reference, whole) == Abs(amount - reference) * ONE <= Tolerance * whole

\* What a trader gets is never more, and what it pays never less, than the exact price,
\* which is itself no better than the spot price, whatever the steps of the calculation
\* have rounded; and it is never far from it.
SwapsFavourThePool ==
    \A case \in cases :
        LET out == calcOutGivenIn(case.balances[1], HALF, case.balances[2], HALF, case.amount)
            in  == calcInGivenOut(case.balances[1], HALF, case.balances[2], HALF, case.amount)
            refIn == refInGivenOut(case.balances[1], case.balances[2], case.amount)
        IN  /\ out # Reverted => out <= estimateGivenIn(case) /\ Near(out, estimateGivenIn(case), case.balances[2])
                              /\ mulDown(out, estimateSpotPrice(case)) <= case.amount
            /\ in # Reverted  => ~Above(refIn, Whole(in)) /\ Near(in, estimateGivenOut(case), case.balances[1])
                              /\ in >= mulDown(case.amount, estimateSpotPrice(case))

\* Joining with one token, which trades half of it implicitly, mints no more BPT and
\* costs no less than the exact amounts; the contract spreads the fee of an exact amount
\* of BPT differently from the reference, in favour of the Pool.
JoinsFavourThePool ==
    \A case \in cases :
        LET bptOut  == calcBptOutGivenExactTokensIn(case.balances, Halves, OnlyFirst(case.amount), case.supply, case.swapFee)
            tokenIn == calcTokenInGivenExactBptOut(case.balances[1], HALF, case.amount, case.supply, case.swapFee)
        IN  /\ bptOut <= estimateBptOut(case) /\ Near(bptOut, estimateBptOut(case), case.supply)
            /\ tokenIn # Reverted
               => /\ tokenIn >= estimateTokenIn(case) /\ Near(tokenIn, estimateTokenIn(case), case.balances[1])
                  /\ tokenIn >= mulDown(case.amount, estimateBptPrice(case) - 1)

\* Exits, one sided or proportional, burn no less BPT and pay no more, except for the one
\* unit by which the amount of a single token may be above the exact one: the code rounds
\* what is left of the taxable part after the fee up. Nobody gets more than the price of
\* the BPT.
ExitsFavourThePool ==
    \A case \in cases :
        LET bptIn  == calcBptInGivenExactTokensOut(case.balances, Halves, OnlyFirst(case.amount), case.supply, case.swapFee)
            refIn  == refBptInGivenExactTokensOut(case.balances, OnlyFirst(case.amount), case.supply, case.swapFee)
            tokenOut == calcTokenOutGivenExactBptIn(case.balances[1], HALF, case.amount, case.supply, case.swapFee)
            outs     == calcTokensOutGivenExactBptIn(case.balances, case.amount, case.supply)
            refOuts  == refTokensOutGivenExactBptIn(case.balances, case.amount, case.supply)
        IN  /\ bptIn # Reverted => bptIn >= refIn /\ Near(bptIn, refIn, case.supply)
            /\ tokenOut # Reverted
               => /\ tokenOut <= estimateTokenOut(case) + 1 /\ Near(tokenOut, estimateTokenOut(case), case.balances[1])
                  /\ tokenOut <= mulUp(case.amount, estimateBptPrice(case) + 1)
            /\ \A i \in DOMAIN case.balances : outs[i] <= refOuts[i] /\ Near(outs[i], refOuts[i], case.balances[i])

\* The fees that the contract mints for a join with one token are those of the reference.
DueFeesMatchReference ==
    \A case \in cases :
        LET postSupply == case.supply + case.amount
            growth == divDown(case.balances[1] + 2 * case.amount, case.balances[1])
        IN  \A fee \in {0, HALF} :
                calcDueProtocolFees(growth, case.supply, postSupply, fee) =
                    refBPTSwapFeeAmount(growth, case.supply, postSupply, fee)

\* The invariant, of which BPT are a share and whose growth is charged, is never overstated.
InvariantUnderstated ==
    \A case \in cases :
        LET invariant == calculateInvariant(Halves, case.balances)
        IN  invariant <= refInvariant(case.balances)
            /\ Near(invariant, refInvariant(case.balances), refInvariant(case.balances))

\* The mathematics of a WeightedPool rounds against whoever trades, joins or leaves, and
\* stays close to the exact values; its fees are those of the reference.
WeightedMathFavoursThePool ==
    /\ InvariantUnderstated
    /\ SwapsFavourThePool /\ JoinsFavourThePool /\ ExitsFavourThePool /\ DueFeesMatchReference

\* Normalized weights add up to exactly one, as the Pools' constructors require, although
\* each is rounded.
WeightsAddUp ==
    \A list \in weightLists : isNormalizedWeights(toNormalizedWeights(list))
==============================================================================
