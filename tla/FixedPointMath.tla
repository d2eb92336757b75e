--------------------------- MODULE FixedPointMath ---------------------------
(***************************************************************************)
(* FixedPoint.sol with a unit of a few decimals, in amounts so small that  *)
(* no multiplication overflows. Of LogExpMath.pow only the square root is  *)
(* there: the Pools modelled have two tokens of equal weight, for which    *)
(* the exponents are 1/2, 1 and 2.                                         *)
(***************************************************************************)
EXTENDS Integers, Sequences, SequencesExt

CONSTANTS
    ONE,        \* 1e18
    PowError    \* MAX_POW_RELATIVE_ERROR

TWO  == 2 * ONE
FOUR == 4 * ONE
HALF == ONE \div 2

Reverted == -1      \* what a calculation yields that the code reverts in

CeilDiv(a, b) == (a + b - 1) \div b

mulDown(a, b) == (a * b) \div ONE
mulUp(a, b)   == CeilDiv(a * b, ONE)
divDown(a, b) == (a * ONE) \div b
divUp(a, b)   == CeilDiv(a * ONE, b)
complement(x) == IF x < ONE THEN ONE - x ELSE 0

LargestRoot == 32768

\* The largest r with r * r <= n, for n below 2^30: Newton's method from above.
IntegerRoot(n) ==
    LET root[r \in 1..LargestRoot] == LET next == (r + n \div r) \div 2 IN IF next >= r THEN r ELSE root[next]
    IN  IF n = 0 THEN 0 ELSE root[LargestRoot]

pow(x, y) == IntegerRoot(x * ONE)   \* for y = HALF

MaxError(raw) == mulUp(raw, PowError) + 1

\* The result of pow, less or plus what it may be wrong by.
lessError[raw \in Nat] == IF raw < MaxError(raw) THEN 0 ELSE raw - MaxError(raw)
plusError[raw \in Nat] == raw + MaxError(raw)

powDown(x, y) ==
    CASE y = ONE  -> x
      [] y = TWO  -> mulDown(x, x)
      [] y = FOUR -> mulDown(mulDown(x, x), mulDown(x, x))
      [] OTHER    -> lessError[pow(x, y)]

powUp(x, y) ==
    CASE y = ONE  -> x
      [] y = TWO  -> mulUp(x, x)
      [] y = FOUR -> mulUp(mulUp(x, x), mulUp(x, x))
      [] OTHER    -> plusError[pow(x, y)]
==============================================================================
