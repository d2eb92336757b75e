----------------------------- MODULE StableMath -----------------------------
(***************************************************************************)
(* StableMath.sol: the invariant of a Stable Pool and the balances it      *)
(* allows, by Newton's method in integers, and the swaps, joins and exits  *)
(* made of them.                                                           *)
(***************************************************************************)
EXTENDS FixedPointMath

CONSTANTS
    AMP_PRECISION,      \* _AMP_PRECISION
    MaxIterations       \* of the two loops

stableSum(terms) == FoldLeft(LAMBDA a, b : a + b, 0, terms)

\* A difference that must not be negative.
Checked(difference) == IF difference < 0 THEN Reverted ELSE difference

\* Iterates until two values are next to each other.
Converged(next(_), first) ==
    LET iterate[i \in Nat, value \in Int] ==
            LET new == next(value) IN
            IF new - value \in -1 .. 1 THEN new
            ELSE IF i = MaxIterations THEN Reverted ELSE iterate[i + 1, new]
    IN  iterate[1, first]

------------------------------------------------------------------------------

stableInvariant(amp, balances) ==
    LET sum == stableSum(balances)
        n == Len(balances)
        ampTimesTotal == amp * n
        DP(invariant) == FoldLeft(LAMBDA p, balance : (p * invariant) \div (balance * n), invariant, balances)
        step[invariant \in Nat, d_p \in Nat] ==
            (((ampTimesTotal * sum) \div AMP_PRECISION + d_p * n) * invariant)
              \div (((ampTimesTotal - AMP_PRECISION) * invariant) \div AMP_PRECISION + (n + 1) * d_p)
    IN  IF sum = 0 THEN 0
        ELSE IF \E i \in DOMAIN balances : balances[i] = 0 THEN Reverted
        ELSE Converged(LAMBDA invariant : step[invariant, DP(invariant)], sum)

\* Mutant: the first approximation is rounded down, and so is every one after it.
BalanceRoundedDown(amp, balances, invariant, index) ==
    LET n == Len(balances)
        ampTimesTotal == amp * n
        p_d == FoldLeft(LAMBDA p, balance : (p * balance * n) \div invariant, balances[1] * n, Tail(balances))
        c == ((invariant * invariant) \div (ampTimesTotal * p_d)) * AMP_PRECISION * balances[index]
        b == stableSum(balances) - balances[index] + (invariant \div ampTimesTotal) * AMP_PRECISION
        next(y) == (y * y + c) \div (2 * y + b - invariant)
    IN  IF p_d = 0 THEN Reverted ELSE Converged(next, (invariant * invariant + c) \div (invariant + b))

\* The balance of one token, given the others and the invariant.
stableBalance(amp, balances, invariant, index) ==
    LET n == Len(balances)
        ampTimesTotal == amp * n
        p_d == FoldLeft(LAMBDA p, balance : (p * balance * n) \div invariant, balances[1] * n, Tail(balances))
        inv2 == invariant * invariant
        c == CeilDiv(inv2, ampTimesTotal * p_d) * AMP_PRECISION * balances[index]
        b == stableSum(balances) - balances[index] + (invariant \div ampTimesTotal) * AMP_PRECISION
        next(y) == CeilDiv(y * y + c, 2 * y + b - invariant)
    IN  IF p_d = 0 THEN Reverted ELSE Converged(next, CeilDiv(inv2 + c, invariant + b))

------------------------------------------------------------------------------
(* Swaps.                                                                  *)

stableOutGivenIn(amp, balances, in, out, amountIn, invariant) ==
    LET final == stableBalance(amp, [balances EXCEPT ![in] = @ + amountIn], invariant, out)
    IN  Checked(balances[out] - final - 1)

stableInGivenOut(amp, balances, in, out, amountOut, invariant) ==
    LET final == stableBalance(amp, [balances EXCEPT ![out] = @ - amountOut], invariant, in)
    IN  IF amountOut >= balances[out] \/ final < balances[in] THEN Reverted ELSE final - balances[in] + 1

------------------------------------------------------------------------------
(* Joins and exits, whose unbalanced part pays the swap fee.               *)

stableBptOut(amp, balances, amountsIn, supply, invariant, swapFee) ==
    LET sum == stableSum(balances)
        WithFee(i) == divDown(balances[i] + amountsIn[i], balances[i])
        average    == stableSum([i \in DOMAIN balances |-> mulDown(WithFee(i), divDown(balances[i], sum))])
        nonTaxable(i) == mulDown(balances[i], average - ONE)
        InWithoutFee(i) ==
            IF WithFee(i) > average
            THEN nonTaxable(i) + mulDown(amountsIn[i] - nonTaxable(i), ONE - swapFee)
            ELSE amountsIn[i]
        ratio == divDown(stableInvariant(amp, [i \in DOMAIN balances |-> balances[i] + InWithoutFee(i)]),
                         invariant)
    IN  IF \E i \in DOMAIN balances :
               WithFee(i) > average /\ (average < ONE \/ amountsIn[i] < nonTaxable(i))
        THEN Reverted
        ELSE IF ratio > ONE THEN mulDown(supply, ratio - ONE) ELSE 0

stableTokenIn(amp, balances, index, bptOut, supply, invariant, swapFee) ==
    LET newInvariant == mulUp(divUp(supply + bptOut, supply), invariant)
        inWithoutFee == stableBalance(amp, balances, newInvariant, index) - balances[index]
        taxable == mulUp(inWithoutFee, complement(divDown(balances[index], stableSum(balances))))
    IN  IF inWithoutFee < taxable \/ inWithoutFee < 0 THEN Reverted
        ELSE inWithoutFee - taxable + divUp(taxable, ONE - swapFee)

stableBptIn(amp, balances, amountsOut, supply, invariant, swapFee) ==
    LET sum == stableSum(balances)
        WithoutFee(i) == divUp(balances[i] - amountsOut[i], balances[i])
        average       == stableSum([i \in DOMAIN balances |-> mulUp(WithoutFee(i), divUp(balances[i], sum))])
        nonTaxable(i) == mulDown(balances[i], complement(average))
        OutWithFee(i) ==
            IF average > WithoutFee(i)
            THEN nonTaxable(i) + divUp(amountsOut[i] - nonTaxable(i), ONE - swapFee)
            ELSE amountsOut[i]
        new == stableInvariant(amp, [i \in DOMAIN balances |-> balances[i] - OutWithFee(i)])
    IN  IF \E i \in DOMAIN balances :
               \/ amountsOut[i] > balances[i] \/ OutWithFee(i) > balances[i]
               \/ average > WithoutFee(i) /\ amountsOut[i] < nonTaxable(i)
        THEN Reverted
        ELSE IF new = Reverted THEN Reverted ELSE mulUp(supply, complement(divDown(new, invariant)))

stableTokenOut(amp, balances, index, bptIn, supply, invariant, swapFee) ==
    LET newInvariant  == mulUp(divUp(supply - bptIn, supply), invariant)
        outWithoutFee == balances[index] - stableBalance(amp, balances, newInvariant, index)
        taxable == mulUp(outWithoutFee, complement(divDown(balances[index], stableSum(balances))))
    IN  IF outWithoutFee < taxable \/ outWithoutFee < 0 THEN Reverted
        ELSE outWithoutFee - taxable + mulDown(taxable, ONE - swapFee)
==============================================================================
