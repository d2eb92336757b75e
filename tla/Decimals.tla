------------------------------ MODULE Decimals ------------------------------
(***************************************************************************)
(* What the reference mathematics of pvt/helpers computes with: decimals   *)
(* as exact fractions <<numerator, denominator>>, and the conversions of   *)
(* pvt/helpers/src/numbers.ts.                                             *)
(***************************************************************************)
EXTENDS FixedPointMath

Gcd(a, b) ==
    LET gcd[x \in Nat, y \in Nat] == IF y = 0 THEN x ELSE gcd[y, x % y]
    IN  gcd[a, b]
Abs(a)    == IF a < 0 THEN -a ELSE a
Ratio(n, d) == LET g == Gcd(Abs(n), d) IN <<n \div g, d \div g>>
Whole(n)    == <<n, 1>>
Plus(p, q)  == LET d == q[2] \div Gcd(p[2], q[2]) IN Ratio(p[1] * d + q[1] * ((p[2] * d) \div q[2]), p[2] * d)
Times(p, q) == LET a == Ratio(p[1], q[2])  b == Ratio(q[1], p[2]) IN <<a[1] * b[1], a[2] * b[2]>>
Over(p, q)  == Times(p, <<q[2], q[1]>>)
Minus(p, q) == Plus(p, <<-q[1], q[2]>>)
Above(p, q) == Minus(p, q)[1] > 0
One         == Whole(1)
Half        == <<1, 2>>

fromFp(x) == Ratio(x, ONE)
bn(p)     == p[1] \div p[2]
\* The root of p in units of 1/scale, without exceeding 32 bits on the way.
ScaledRoot(p, scale) ==
    LET square == scale * scale
    IN  IntegerRoot(p[1] * (square \div p[2]) + (p[1] * (square % p[2])) \div p[2])

\* a * b / c, rounded down, without exceeding 32 bits on the way, for c below 2^30.
mulDiv(a, b, c) ==
    LET step[n \in Nat] ==
            IF n = 0 THEN <<0, 0>>
            ELSE LET half == step[n \div 2]
                     rest == 2 * half[2] + (n % 2) * (b % c)
                 IN  <<2 * half[1] + (n % 2) * (b \div c) + rest \div c, rest % c>>
    IN  step[a][1]
==============================================================================
