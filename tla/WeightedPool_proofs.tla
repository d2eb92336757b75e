------------------------ MODULE WeightedPool_proofs ------------------------
(***************************************************************************)
(* Of every WeightedPool of two equal weights, whatever amounts, fees and  *)
(* rates there are: a Pool with BPT has tokens of both kinds and a stored  *)
(* invariant, fees are charged once, the limits that the client computes   *)
(* are accepted, and no trade lowers the product of the balances. The      *)
(* argument runs over the fixed point arithmetic with its roundings: what  *)
(* each operation rounds bounds what it returns, so that no amount is      *)
(* below zero and no exit or swap takes all there is. And normalized       *)
(* weights add up to one, for lists of any length.                         *)
(***************************************************************************)
EXTENDS WeightedPool, WeightedReference, WellFoundedInduction, TLAPS

------------------------------------------------------------------------------
(* Division.                                                               *)

\* What is rounded down.
LEMMA Floor ==
    ASSUME NEW a \in Int, NEW b \in Nat \ {0}
    PROVE  /\ a \div b \in Int
           /\ (a \div b) * b <= a /\ a < (a \div b) * b + b
           /\ a >= 0 => a \div b >= 0
<1>1. a \div b \in Int
    OBVIOUS
<1>2. (a \div b) * b <= a
    OBVIOUS
<1>3. a < (a \div b) * b + b
    OBVIOUS
<1>4. ASSUME a >= 0 PROVE a \div b >= 0
    BY <1>4
<1> QED BY <1>1, <1>2, <1>3, <1>4

LEMMA Below ==
    ASSUME NEW p \in Int, NEW q \in Int, NEW b \in Nat \ {0}, p * b < q * b
    PROVE  p < q
OBVIOUS

LEMMA Monotone ==
    ASSUME NEW p \in Int, NEW q \in Int, NEW b \in Nat, p <= q
    PROVE  p * b <= q * b /\ b * p <= b * q
OBVIOUS

\* A quotient rounded down is the largest number below it.
LEMMA FloorIs ==
    ASSUME NEW a \in Int, NEW b \in Nat \ {0}, NEW n \in Int
    PROVE  /\ n * b <= a => n <= a \div b
           /\ a < n * b => a \div b < n
<1> DEFINE q == a \div b
<1>1. q \in Int /\ q * b <= a /\ a < q * b + b
    BY Floor
<1> HIDE DEF q
<1>2. ASSUME n * b <= a PROVE n <= q
  <2>1. q * b + b = (q + 1) * b
      BY <1>1
  <2>2. n * b < (q + 1) * b
      BY <1>1, <1>2, <2>1
  <2>3. n < q + 1
      BY <1>1, <2>2, Below
  <2> QED BY <1>1, <2>3
<1>3. ASSUME a < n * b PROVE q < n
  <2>1. q * b < n * b
      BY <1>1, <1>3
  <2> QED BY <1>1, <2>1, Below
<1> QED BY <1>2, <1>3 DEF q

\* A quotient rounded up is the smallest number above it.
LEMMA CeilIs ==
    ASSUME NEW a \in Int, NEW b \in Nat \ {0}, NEW n \in Int
    PROVE  /\ CeilDiv(a, b) \in Int
           /\ a <= CeilDiv(a, b) * b /\ CeilDiv(a, b) * b < a + b
           /\ a <= n * b => CeilDiv(a, b) <= n
           /\ n * b < a => n < CeilDiv(a, b)
           /\ a >= 0 => CeilDiv(a, b) >= 0
<1> DEFINE c == (a + b - 1) \div b
<1>1. c \in Int /\ c * b <= a + b - 1 /\ a + b - 1 < c * b + b /\ (a + b - 1 >= 0 => c >= 0)
    BY Floor
<1>2. CeilDiv(a, b) = c
    BY DEF CeilDiv
<1> HIDE DEF c
<1>3. a <= c * b /\ c * b < a + b
    BY <1>1
<1>4. ASSUME a <= n * b PROVE c <= n
  <2>1. c * b < n * b + b /\ n * b + b = (n + 1) * b
      BY <1>1, <1>4
  <2>2. c < n + 1
      BY <1>1, <2>1, Below
  <2> QED BY <1>1, <2>2
<1>5. ASSUME n * b < a PROVE n < c
  <2>1. n * b < c * b
      BY <1>1, <1>3, <1>5
  <2> QED BY <1>1, <2>1, Below
<1> QED BY <1>1, <1>2, <1>3, <1>4, <1>5

------------------------------------------------------------------------------
(* FixedPoint.                                                             *)

LEMMA Units ==
    /\ ONE \in Nat \ {0} /\ HALF \in Nat \ {0} /\ ONE = 2 * HALF /\ HALF < ONE
    /\ HALF # ONE /\ HALF # TWO /\ HALF # FOUR /\ TWO # ONE /\ FOUR # ONE /\ TWO # FOUR
    /\ TWO = 2 * ONE /\ FOUR = 4 * ONE
<1>1. ONE \in Nat \ {0} /\ ONE % 2 = 0
    BY PoolAssumption
<1>2. ONE = 2 * HALF
    BY <1>1 DEF HALF
<1>3. HALF \in Int
    BY <1>1, Floor DEF HALF
<1> QED BY <1>1, <1>2, <1>3 DEF TWO, FOUR

LEMMA Products ==
    ASSUME NEW a \in Nat, NEW b \in Nat
    PROVE  /\ mulDown(a, b) \in Nat /\ mulUp(a, b) \in Nat
           /\ mulDown(a, b) * ONE <= a * b /\ a * b < mulDown(a, b) * ONE + ONE
           /\ a * b <= mulUp(a, b) * ONE
           /\ b <= ONE => mulDown(a, b) <= a /\ mulUp(a, b) <= a
           /\ b < ONE /\ a > 0 => mulDown(a, b) < a
           /\ b >= ONE => mulDown(a, b) >= a /\ mulUp(a, b) >= a
           /\ mulUp(a, b) = 0 => a = 0 \/ b = 0
           /\ mulDown(a, b) # 0 => a # 0 /\ b # 0
<1>0. ONE \in Nat \ {0} /\ a * b \in Nat
    BY Units
<1>1. /\ mulDown(a, b) \in Int /\ mulDown(a, b) >= 0
      /\ mulDown(a, b) * ONE <= a * b /\ a * b < mulDown(a, b) * ONE + ONE
    BY <1>0, Floor DEF mulDown
<1>2. mulUp(a, b) \in Int /\ mulUp(a, b) >= 0 /\ a * b <= mulUp(a, b) * ONE
    BY <1>0, CeilIs DEF mulUp
<1>3. ASSUME b <= ONE PROVE mulDown(a, b) <= a /\ mulUp(a, b) <= a
  <2>1. a * b <= a * ONE
      BY <1>0, <1>3, Monotone
  <2>2. mulUp(a, b) <= a
      BY <1>0, <2>1, CeilIs DEF mulUp
  <2>3. a * b < (a + 1) * ONE
      BY <1>0, <2>1
  <2>4. mulDown(a, b) < a + 1
      BY <1>0, <2>3, FloorIs DEF mulDown
  <2> QED BY <1>1, <2>2, <2>4
<1>4. ASSUME b < ONE, a > 0 PROVE mulDown(a, b) < a
  <2>1. b <= ONE - 1 /\ ONE - 1 \in Nat /\ a * (ONE - 1) = a * ONE - a
      BY <1>0, <1>4
  <2>2. a * b <= a * (ONE - 1)
      BY <2>1, Monotone
  <2>3. a * b < a * ONE
      BY <1>0, <1>4, <2>1, <2>2
  <2> QED BY <1>0, <2>3, FloorIs DEF mulDown
<1>5. ASSUME b >= ONE PROVE mulDown(a, b) >= a /\ mulUp(a, b) >= a
  <2>1. a * ONE <= a * b
      BY <1>0, <1>5, Monotone
  <2>2. mulDown(a, b) >= a
      BY <1>0, <2>1, FloorIs DEF mulDown
  <2>3. (a - 1) * ONE < a * b
      BY <1>0, <2>1
  <2>4. a - 1 < mulUp(a, b)
      BY <1>0, <2>3, CeilIs DEF mulUp
  <2> QED BY <1>2, <2>2, <2>4
<1>6. ASSUME mulUp(a, b) = 0 PROVE a = 0 \/ b = 0
    BY <1>0, <1>2, <1>6
<1>7. ASSUME mulDown(a, b) # 0 PROVE a # 0 /\ b # 0
  <2>1. ASSUME a = 0 \/ b = 0 PROVE mulDown(a, b) < 1
    <3>1. a * b < 1 * ONE
        BY <1>0, <2>1
    <3> QED BY <1>0, <3>1, FloorIs DEF mulDown
  <2> QED BY <1>1, <1>7, <2>1
<1> QED BY <1>1, <1>2, <1>3, <1>4, <1>5, <1>6, <1>7

LEMMA Quotients ==
    ASSUME NEW a \in Nat, NEW b \in Nat \ {0}
    PROVE  /\ divDown(a, b) \in Nat /\ divUp(a, b) \in Nat
           /\ divDown(a, b) * b <= a * ONE /\ a * ONE < divDown(a, b) * b + b
           /\ a * ONE <= divUp(a, b) * b /\ divUp(a, b) * b < a * ONE + b
           /\ a <= b => divDown(a, b) <= ONE /\ divUp(a, b) <= ONE
           /\ a < b => divDown(a, b) < ONE
           /\ a >= b => divDown(a, b) >= ONE /\ divUp(a, b) >= ONE
           /\ a > 0 => divUp(a, b) > 0
<1>0. ONE \in Nat \ {0} /\ a * ONE \in Nat
    BY Units
<1>1. /\ divDown(a, b) \in Int /\ divDown(a, b) >= 0
      /\ divDown(a, b) * b <= a * ONE /\ a * ONE < divDown(a, b) * b + b
    BY <1>0, Floor DEF divDown
<1>2. /\ divUp(a, b) \in Int /\ divUp(a, b) >= 0
      /\ a * ONE <= divUp(a, b) * b /\ divUp(a, b) * b < a * ONE + b
    BY <1>0, CeilIs DEF divUp
<1>3. ASSUME a <= b PROVE divDown(a, b) <= ONE /\ divUp(a, b) <= ONE
  <2>1. a * ONE <= ONE * b
      BY <1>0, <1>3, Monotone
  <2>2. divUp(a, b) <= ONE
      BY <1>0, <2>1, CeilIs DEF divUp
  <2>3. a * ONE < (ONE + 1) * b
      BY <1>0, <2>1
  <2>4. divDown(a, b) < ONE + 1
      BY <1>0, <2>3, FloorIs DEF divDown
  <2> QED BY <1>0, <1>1, <2>2, <2>4
<1>4. ASSUME a < b PROVE divDown(a, b) < ONE
  <2>1. a * ONE < ONE * b
      BY <1>0, <1>4
  <2> QED BY <1>0, <2>1, FloorIs DEF divDown
<1>5. ASSUME a >= b PROVE divDown(a, b) >= ONE /\ divUp(a, b) >= ONE
  <2>1. ONE * b <= a * ONE
      BY <1>0, <1>5, Monotone
  <2>2. divDown(a, b) >= ONE
      BY <1>0, <2>1, FloorIs DEF divDown
  <2>3. (ONE - 1) * b < a * ONE
      BY <1>0, <2>1
  <2>4. ONE - 1 < divUp(a, b)
      BY <1>0, <2>3, CeilIs DEF divUp
  <2> QED BY <1>0, <1>2, <2>2, <2>4
<1>6. ASSUME a > 0 PROVE divUp(a, b) > 0
  <2>1. a * ONE > 0 /\ 0 * b = 0
      BY <1>0, <1>6
  <2> QED BY <1>0, <2>1, CeilIs DEF divUp
<1> QED BY <1>1, <1>2, <1>3, <1>4, <1>5, <1>6

LEMMA Complement ==
    ASSUME NEW x \in Nat
    PROVE  /\ complement(x) \in 0..ONE
           /\ x < ONE => complement(x) = ONE - x /\ complement(x) > 0
           /\ x > 0 => complement(x) < ONE
           /\ x >= ONE => complement(x) = 0
BY Units DEF complement

------------------------------------------------------------------------------
(* Powers.                                                                 *)

\* Induction over numbers, for a set of them.
LEMMA EveryNumber ==
    ASSUME NEW Good, 0 \in Good, \A n \in Nat : n \in Good => n + 1 \in Good
    PROVE  \A n \in Nat : n \in Good
<1> DEFINE Bad == {n \in Nat : n \notin Good}
<1> SUFFICES ASSUME Bad # {} PROVE FALSE
    OBVIOUS
<1>1. Bad \subseteq Nat /\ IsWellFoundedOn(OpToRel(<, Nat), Nat)
    BY NatLessThanWellFounded
<1> HIDE DEF Bad
<1>2. PICK n \in Bad : \A m \in Bad : ~ (<<m, n>> \in OpToRel(<, Nat))
    BY <1>1, WFMin
<1>3. n \in Nat /\ n \notin Good /\ n # 0
    BY DEF Bad
<1>4. n - 1 \in Nat /\ n - 1 < n /\ (n - 1) + 1 = n
    BY <1>3
<1>5. <<n - 1, n>> \in OpToRel(<, Nat)
    BY <1>3, <1>4 DEF OpToRel
<1>6. n - 1 \in Good
    BY <1>2, <1>4, <1>5 DEF Bad
<1> QED BY <1>3, <1>4, <1>6

\* One step of Newton's method for the root of n.
Nearer(n, r) == (r + n \div r) \div 2

RootStep(n, g) ==
    [r \in 1..LargestRoot |-> LET next == Nearer(n, r) IN IF next >= r THEN r ELSE g[next]]

RootTable(n) == CHOOSE g : g = RootStep(n, g)

LEMMA RootFromTable == ASSUME NEW n, n # 0 PROVE IntegerRoot(n) = RootTable(n)[LargestRoot]
BY SMT DEF IntegerRoot, RootTable, RootStep, Nearer

LEMMA ThereIsALargestRoot == LargestRoot \in Nat \ {0}
BY DEF LargestRoot

LEMMA NearerIs ==
    ASSUME NEW n \in Nat \ {0}, NEW r \in Nat \ {0}
    PROVE  /\ Nearer(n, r) \in Int
           /\ Nearer(n, r) < r => Nearer(n, r) \in Nat \ {0}
           /\ Nearer(n, r) >= r => r * r <= n
<1> DEFINE q == n \div r
<1>1. q \in Nat /\ q * r <= n /\ n < q * r + r
    BY Floor
<1>2. Nearer(n, r) = (r + q) \div 2
    BY DEF Nearer
<1> DEFINE m == Nearer(n, r)
<1>3. m \in Int /\ m * 2 <= r + q /\ r + q < m * 2 + 2
  <2> HIDE DEF q, m
  <2>1. r + q \in Int /\ m = (r + q) \div 2
      BY <1>1, <1>2 DEF m
  <2> QED BY <2>1, Floor
<1> HIDE DEF q, m
<1>4. ASSUME m < r PROVE m \in Nat \ {0}
  <2>1. r > 1 \/ q >= 1
    <3>1. ASSUME r = 1 PROVE q >= 1
        BY <1>1, <3>1
    <3> QED BY <3>1
  <2>2. r + q >= 2
      BY <1>1, <2>1
  <2>3. m * 2 > 0
      BY <1>1, <1>3, <2>2
  <2> QED BY <1>3, <2>3
<1>5. ASSUME m >= r PROVE r * r <= n
  <2>1. r <= q
      BY <1>1, <1>3, <1>5
  <2>2. r * r <= q * r
      BY <1>1, <2>1, Monotone
  <2> QED BY <1>1, <2>2
<1> QED BY <1>3, <1>4, <1>5 DEF m

\* The table of roots is there: one that is right up to k exists for every k.
LEMMA RootTableExists == ASSUME NEW n \in Nat \ {0} PROVE \E g : g = RootStep(n, g)
<1> DEFINE D == 1..LargestRoot
           Right(g, k) == \A r \in D : r <= k => g[r] = RootStep(n, g)[r]
           Good == {k \in Nat : \E g : Right(g, k)}
<1>0. \A g : \A r \in D : RootStep(n, g)[r] = IF Nearer(n, r) >= r THEN r ELSE g[Nearer(n, r)]
    BY DEF RootStep
<1>1. 0 \in Good
  <2>1. \A g : Right(g, 0)
      OBVIOUS
  <2> QED BY <2>1
<1>2. ASSUME NEW k \in Nat, k \in Good PROVE k + 1 \in Good
  <2>1. PICK g : Right(g, k)
      BY <1>2
  <2> DEFINE h == RootStep(n, g)
  <2>2. ASSUME NEW r \in D, r <= k PROVE h[r] = g[r]
      BY <2>1, <2>2
  <2> HIDE DEF h
  <2>3. ASSUME NEW r \in D, r <= k + 1 PROVE h[r] = RootStep(n, h)[r]
    <3>1. h[r] = IF Nearer(n, r) >= r THEN r ELSE g[Nearer(n, r)]
        BY <1>0 DEF h
    <3>2. CASE Nearer(n, r) >= r
        BY <1>0, <3>1, <3>2
    <3>3. CASE ~ (Nearer(n, r) >= r)
      <4>1. Nearer(n, r) \in Nat \ {0} /\ Nearer(n, r) < r
          BY <3>3, NearerIs
      <4>2. Nearer(n, r) \in D /\ Nearer(n, r) <= k
          BY <2>3, <4>1, ThereIsALargestRoot
      <4> QED BY <1>0, <2>2, <3>1, <3>3, <4>2
    <3> QED BY <3>2, <3>3
  <2> QED BY <2>3
<1>3. \E g : Right(g, LargestRoot)
  <2> HIDE DEF Good
  <2>1. LargestRoot \in Good
      BY <1>1, <1>2, EveryNumber, ThereIsALargestRoot
  <2> QED BY <2>1 DEF Good
<1>4. PICK g : Right(g, LargestRoot)
    BY <1>3
<1> DEFINE h == RootStep(n, g)
<1>5. \A r \in D : h[r] = g[r]
    BY <1>4
<1>6. \A r \in D : Nearer(n, r) >= r \/ Nearer(n, r) \in D
  <2>1. ASSUME NEW r \in D, ~ (Nearer(n, r) >= r) PROVE Nearer(n, r) \in D
    <3>1. Nearer(n, r) \in Nat \ {0} /\ Nearer(n, r) < r
        BY <2>1, NearerIs
    <3> QED BY <3>1, ThereIsALargestRoot
  <2> QED BY <2>1
<1>7. RootStep(n, h) = h
  <2>1. \A r \in D : RootStep(n, h)[r] = RootStep(n, g)[r]
    <3> HIDE DEF h
    <3> QED BY <1>0, <1>5, <1>6
  <2> HIDE DEF h
  <2>2. RootStep(n, h) = [r \in D |-> RootStep(n, h)[r]] /\ RootStep(n, g) = [r \in D |-> RootStep(n, g)[r]]
      BY DEF RootStep
  <2> QED BY <2>1, <2>2 DEF h
<1> QED BY <1>7

\* The root of a number, squared, does not exceed it.
LEMMA Root ==
    ASSUME NEW n \in Nat
    PROVE  IntegerRoot(n) \in Nat /\ IntegerRoot(n) * IntegerRoot(n) <= n
<1>1. CASE n = 0
    BY <1>1 DEF IntegerRoot
<1>2. CASE n # 0
  <2> DEFINE T == RootTable(n)
             D == 1..LargestRoot
             Good == {k \in Nat : \A r \in D : r <= k => T[r] \in Nat /\ T[r] * T[r] <= n}
  <2>1. T = RootStep(n, T)
      BY <1>2, RootTableExists DEF RootTable
  <2> HIDE DEF T
  <2>2. \A r \in D : T[r] = IF Nearer(n, r) >= r THEN r ELSE T[Nearer(n, r)]
      BY <2>1 DEF RootStep
  <2>3. 0 \in Good
      OBVIOUS
  <2>4. ASSUME NEW k \in Nat, k \in Good PROVE k + 1 \in Good
    <3>1. ASSUME NEW r \in D, r <= k + 1 PROVE T[r] \in Nat /\ T[r] * T[r] <= n
      <4>1. CASE Nearer(n, r) >= r
          BY <1>2, <2>2, <4>1, NearerIs
      <4>2. CASE ~ (Nearer(n, r) >= r)
        <5>1. Nearer(n, r) \in Nat \ {0} /\ Nearer(n, r) < r
            BY <1>2, <4>2, NearerIs
        <5>2. Nearer(n, r) \in D /\ Nearer(n, r) <= k
            BY <3>1, <5>1, ThereIsALargestRoot
        <5> QED BY <2>2, <2>4, <4>2, <5>2
      <4> QED BY <4>1, <4>2
    <3> QED BY <3>1
  <2>5. LargestRoot \in Good
    <3> HIDE DEF Good
    <3> QED BY <2>3, <2>4, EveryNumber, ThereIsALargestRoot
  <2>6. IntegerRoot(n) = T[LargestRoot]
      BY <1>2, RootFromTable DEF T
  <2> QED BY <2>5, <2>6, ThereIsALargestRoot
<1> QED BY <1>1, <1>2

\* A power with exponent HALF, rounded down: a number is never raised from below one to
\* one or more, and only a number above zero has one above zero.
LEMMA HalfPower ==
    ASSUME NEW x \in Nat
    PROVE  /\ powDown(x, HALF) \in Nat
           /\ x <= ONE => powDown(x, HALF) < ONE
           /\ x = 0 => powDown(x, HALF) = 0
<1> DEFINE raw == pow(x, HALF)
<1>0. ONE \in Nat \ {0} /\ PowError \in Nat
    BY Units, PoolAssumption
<1>1. raw \in Nat /\ raw * raw <= x * ONE
    BY <1>0, Root DEF pow
<1>2. powDown(x, HALF) = lessError[raw]
    BY Units DEF powDown
<1> HIDE DEF raw
<1>3. MaxError(raw) \in Nat /\ MaxError(raw) >= 1
  <2>1. mulUp(raw, PowError) \in Nat
      BY <1>0, <1>1, Products
  <2> QED BY <2>1 DEF MaxError
<1>4. lessError[raw] = IF raw < MaxError(raw) THEN 0 ELSE raw - MaxError(raw)
    BY <1>1 DEF lessError
<1>5. lessError[raw] \in Nat /\ (lessError[raw] < raw \/ lessError[raw] = 0)
    BY <1>1, <1>3, <1>4
<1>6. ASSUME x <= ONE PROVE raw <= ONE
  <2>1. x * ONE <= ONE * ONE
      BY <1>0, <1>6, Monotone
  <2>2. ASSUME raw > ONE PROVE FALSE
    <3>1. raw * raw > ONE * ONE
        BY <1>0, <1>1, <2>2
    <3> QED BY <1>0, <1>1, <2>1, <3>1
  <2> QED BY <1>0, <1>1, <2>2
<1>7. ASSUME x = 0 PROVE raw = 0
    BY <1>0, <1>1, <1>7
<1> QED BY <1>0, <1>1, <1>2, <1>5, <1>6, <1>7

------------------------------------------------------------------------------
(* Products and sums of lists: FoldLeft takes the last element first, and  *)
(* defines by recursion a table for all sets of places.                    *)

\* The last of some places.
LEMMA LastOf ==
    ASSUME NEW n \in Nat, NEW S \in SUBSET (1..n), n \in S
    PROVE  Max(S) = n
<1>1. \A y \in S : n >= y
    OBVIOUS
<1>2. \A x \in S : (\A y \in S : x >= y) => x = n
    OBVIOUS
<1> QED BY <1>1, <1>2 DEF Max

ProductStep(f, g) ==
    [S \in SUBSET DOMAIN f |-> IF S = {} THEN ONE ELSE mulDown(g[S \ {Max(S)}], f[Max(S)])]

ProductTable(f) == CHOOSE g : g = ProductStep(f, g)

LEMMA ProductFromTable == ASSUME NEW f PROVE Product(f) = ProductTable(f)[DOMAIN f]
BY SMT DEF Product, FoldLeft, MapThenFoldSet, ProductTable, ProductStep

LEMMA ProductOfTwo ==
    ASSUME NEW f, DOMAIN f = {1, 2}
    PROVE  Product(f) = mulDown(mulDown(ONE, f[1]), f[2])
<1>1. Max({1}) = 1 /\ Max({2}) = 2 /\ Max({1, 2}) = 2
    BY LastOf
<1>2. {1} \ {1} = {} /\ {2} \ {2} = {} /\ {1, 2} \ {2} = {1}
    OBVIOUS
<1>3. \A S \in SUBSET {1, 2} : S \in {{}, {1}, {2}, {1, 2}}
    OBVIOUS
<1> DEFINE a == mulDown(ONE, f[1])
           b == mulDown(ONE, f[2])
           c == mulDown(a, f[2])
           g == [S \in SUBSET {1, 2} |->
                    IF S = {} THEN ONE ELSE IF S = {1} THEN a ELSE IF S = {2} THEN b ELSE c]
<1>4. ProductStep(f, g) = g
  <2>1. g[{}] = ONE /\ g[{1}] = a /\ g[{2}] = b /\ g[{1, 2}] = c
      OBVIOUS
  <2> HIDE DEF g
  <2>2. \A S \in SUBSET {1, 2} :
           ProductStep(f, g)[S] = IF S = {} THEN ONE ELSE mulDown(g[S \ {Max(S)}], f[Max(S)])
      BY DEF ProductStep
  <2>3. ProductStep(f, g)[{}] = g[{}]
      BY <2>1, <2>2
  <2>4. ProductStep(f, g)[{1}] = g[{1}]
      BY <1>1, <1>2, <2>1, <2>2
  <2>5. ProductStep(f, g)[{2}] = g[{2}]
      BY <1>1, <1>2, <2>1, <2>2
  <2>6. ProductStep(f, g)[{1, 2}] = g[{1, 2}]
      BY <1>1, <1>2, <2>1, <2>2
  <2>7. \A S \in SUBSET {1, 2} : ProductStep(f, g)[S] = g[S]
      BY <1>3, <2>3, <2>4, <2>5, <2>6
  <2>8. g = [S \in SUBSET {1, 2} |-> g[S]]
      BY DEF g
  <2>9. ProductStep(f, g) = [S \in SUBSET {1, 2} |-> ProductStep(f, g)[S]]
      BY DEF ProductStep
  <2> QED BY <2>7, <2>8, <2>9
<1> DEFINE T == ProductTable(f)
<1>5. T = ProductStep(f, T)
  <2> HIDE DEF g
  <2> QED BY <1>4 DEF ProductTable
<1> HIDE DEF g, T
<1>6. \A S \in SUBSET {1, 2} : S # {} => T[S] = mulDown(T[S \ {Max(S)}], f[Max(S)])
    BY <1>5 DEF ProductStep
<1>7. T[{}] = ONE
    BY <1>5 DEF ProductStep
<1>8. T[{1}] = a
    BY <1>1, <1>2, <1>6, <1>7
<1>9. T[{1, 2}] = c
    BY <1>1, <1>2, <1>6, <1>8
<1> QED BY <1>9, ProductFromTable DEF T

\* What is done for sums is done for all lists.
TotalStep(f, D, g) ==
    [S \in SUBSET D |-> IF S = {} THEN 0 ELSE g[S \ {Max(S)}] + f[Max(S)]]

TotalTable(f) == CHOOSE g : g = TotalStep(f, DOMAIN f, g)

LEMMA TotalFromTable == ASSUME NEW f PROVE Total(f) = TotalTable(f)[DOMAIN f]
BY SMT DEF Total, FoldLeft, MapThenFoldSet, TotalTable, TotalStep

LEMMA TotalTableExists == ASSUME NEW f, NEW n \in Nat PROVE \E g : g = TotalStep(f, 1..n, g)
<1> DEFINE Good == {k \in Nat : \E g : g = TotalStep(f, 1..k, g)}
<1>1. 0 \in Good
  <2> DEFINE g == [S \in SUBSET (1..0) |-> 0]
  <2>1. \A S \in SUBSET (1..0) : S = {}
      OBVIOUS
  <2>2. g = TotalStep(f, 1..0, g)
      BY <2>1 DEF TotalStep
  <2> QED BY <2>2
<1>2. ASSUME NEW k \in Nat, k \in Good PROVE k + 1 \in Good
  <2>1. PICK g : g = TotalStep(f, 1..k, g)
      BY <1>2
  <2> DEFINE D == 1..(k + 1)
             h == [S \in SUBSET D |-> IF k + 1 \in S THEN g[S \ {k + 1}] + f[k + 1] ELSE g[S]]
  <2>2. \A S \in SUBSET D : k + 1 \notin S => S \in SUBSET (1..k) /\ h[S] = g[S]
      OBVIOUS
  <2>3. \A S \in SUBSET D : k + 1 \in S => h[S] = g[S \ {k + 1}] + f[k + 1]
      OBVIOUS
  <2>4. h = [S \in SUBSET D |-> h[S]]
      OBVIOUS
  <2> HIDE DEF h
  <2>5. ASSUME NEW S \in SUBSET D PROVE h[S] = TotalStep(f, D, h)[S]
    <3>0. TotalStep(f, D, h)[S] = IF S = {} THEN 0 ELSE h[S \ {Max(S)}] + f[Max(S)]
        BY DEF TotalStep
    <3>1. CASE k + 1 \in S
      <4>1. Max(S) = k + 1
          BY <3>1, LastOf
      <4>2. S \ {k + 1} \in SUBSET D /\ k + 1 \notin S \ {k + 1} /\ S # {}
          BY <3>1
      <4>3. h[S \ {k + 1}] = g[S \ {k + 1}]
          BY <2>2, <4>2
      <4> QED BY <2>3, <3>0, <3>1, <4>1, <4>2, <4>3
    <3>2. CASE k + 1 \notin S
      <4>1. S \in SUBSET (1..k) /\ h[S] = g[S]
          BY <2>2, <3>2
      <4>2. g[S] = IF S = {} THEN 0 ELSE g[S \ {Max(S)}] + f[Max(S)]
          BY <2>1, <4>1 DEF TotalStep
      <4>3. S \ {Max(S)} \in SUBSET D /\ k + 1 \notin S \ {Max(S)}
          BY <3>2
      <4>4. h[S \ {Max(S)}] = g[S \ {Max(S)}]
          BY <2>2, <4>3
      <4> QED BY <3>0, <4>1, <4>2, <4>4
    <3> QED BY <3>1, <3>2
  <2>6. h = TotalStep(f, D, h)
      BY <2>4, <2>5 DEF TotalStep
  <2> QED BY <2>6
<1>3. n \in Good
  <2> HIDE DEF Good
  <2> QED BY <1>1, <1>2, EveryNumber
<1> QED BY <1>3

\* The sum of the first elements, one more at a time.
LEMMA TotalIs ==
    ASSUME NEW f, NEW n \in Nat, DOMAIN f = 1..n
    PROVE  /\ TotalTable(f)[{}] = 0
           /\ \A k \in 1..n : TotalTable(f)[1..k] = TotalTable(f)[1..(k - 1)] + f[k]
           /\ Total(f) = TotalTable(f)[1..n]
<1> DEFINE T == TotalTable(f)
<1>1. T = TotalStep(f, 1..n, T)
    BY TotalTableExists DEF TotalTable
<1> HIDE DEF T
<1>2. T[{}] = 0
    BY <1>1 DEF TotalStep
<1>3. ASSUME NEW k \in 1..n PROVE T[1..k] = T[1..(k - 1)] + f[k]
  <2>1. 1..k \in SUBSET (1..n) /\ k \in 1..k /\ (1..k) \ {k} = 1..(k - 1)
      OBVIOUS
  <2>2. Max(1..k) = k
      BY <2>1, LastOf
  <2> QED BY <1>1, <2>1, <2>2 DEF TotalStep
<1>4. Total(f) = T[1..n]
    BY TotalFromTable DEF T
<1> QED BY <1>2, <1>3, <1>4 DEF T

LEMMA TotalOfTwo ==
    ASSUME NEW f, DOMAIN f = {1, 2}, f[1] \in Int, f[2] \in Int
    PROVE  Total(f) = f[1] + f[2]
<1>1. {1, 2} = 1..2 /\ 1..1 = {1} /\ 1..0 = {} /\ 2 - 1 = 1 /\ 1 - 1 = 0 /\ 2 \in Nat /\ DOMAIN f = 1..2
    OBVIOUS
<1> DEFINE T == TotalTable(f)
<1>2. /\ T[{}] = 0
      /\ \A k \in 1..2 : T[1..k] = T[1..(k - 1)] + f[k]
      /\ Total(f) = T[1..2]
    BY <1>1, TotalIs
<1> HIDE DEF T
<1>3. T[1..1] = T[1..0] + f[1] /\ T[1..2] = T[1..1] + f[2]
    BY <1>2
<1> QED BY <1>1, <1>2, <1>3

------------------------------------------------------------------------------
(* The invariant of a Pool, and what is due to the protocol.               *)

LEMMA ProductOfPowers ==
    ASSUME NEW a \in Nat, NEW b \in Nat
    PROVE  /\ mulDown(mulDown(ONE, powDown(a, HALF)), powDown(b, HALF)) \in Nat
           /\ mulDown(mulDown(ONE, powDown(a, HALF)), powDown(b, HALF)) > 0 => a > 0 /\ b > 0
           /\ a <= ONE /\ b <= ONE => mulDown(mulDown(ONE, powDown(a, HALF)), powDown(b, HALF)) < ONE
<1> DEFINE p == powDown(a, HALF)
           q == powDown(b, HALF)
           r == mulDown(ONE, p)
           s == mulDown(r, q)
<1>1. /\ p \in Nat /\ q \in Nat
      /\ (a = 0 => p = 0) /\ (b = 0 => q = 0) /\ (a <= ONE => p < ONE) /\ (b <= ONE => q < ONE)
    BY HalfPower
<1>2. ONE \in Nat \ {0}
    BY Units
<1> HIDE DEF p, q
<1>3. r \in Nat /\ (r # 0 => p # 0) /\ (p < ONE => r < ONE)
    BY <1>1, <1>2, Products
<1> HIDE DEF r
<1>4. s \in Nat /\ (s # 0 => r # 0 /\ q # 0) /\ (q <= ONE => s <= r)
    BY <1>1, <1>3, Products
<1> HIDE DEF s
<1>5. s > 0 => a > 0 /\ b > 0
    BY <1>1, <1>3, <1>4
<1>6. a <= ONE /\ b <= ONE => s < ONE
    BY <1>1, <1>2, <1>3, <1>4
<1> QED BY <1>4, <1>5, <1>6 DEF s, r, p, q

\* Behind a positive invariant there are tokens of both kinds.
LEMMA InvariantIs ==
    ASSUME NEW b \in [Tokens -> Nat]
    PROVE  /\ calculateInvariant(Weights, b) \in Nat
           /\ calculateInvariant(Weights, b) > 0 => b[1] > 0 /\ b[2] > 0
<1> DEFINE f == [i \in DOMAIN b |-> powDown(b[i], Weights[i])]
<1>1. DOMAIN b = {1, 2} /\ b[1] \in Nat /\ b[2] \in Nat
    BY DEF Tokens
<1>2. Weights[1] = HALF /\ Weights[2] = HALF
    BY DEF Weights
<1>3. DOMAIN f = {1, 2} /\ f[1] = powDown(b[1], HALF) /\ f[2] = powDown(b[2], HALF)
    BY <1>1, <1>2
<1>4. calculateInvariant(Weights, b) = Product(f)
    BY DEF calculateInvariant
<1> HIDE DEF f
<1>5. Product(f) = mulDown(mulDown(ONE, powDown(b[1], HALF)), powDown(b[2], HALF))
    BY <1>3, ProductOfTwo
<1>6. Product(f) \in Nat /\ (Product(f) > 0 => b[1] > 0 /\ b[2] > 0)
  <2> DEFINE x == b[1]
             y == b[2]
             s == mulDown(mulDown(ONE, powDown(x, HALF)), powDown(y, HALF))
  <2>1. x \in Nat /\ y \in Nat
      BY <1>1
  <2>2. Product(f) = s
      BY <1>5
  <2> HIDE DEF x, y
  <2>3. s \in Nat /\ (s > 0 => x > 0 /\ y > 0)
      BY <2>1, ProductOfPowers
  <2> QED BY <2>2, <2>3 DEF x, y
<1> QED BY <1>4, <1>6

\* The protocol's share of a growth is a part of its percentage, and of no growth nothing.
LEMMA Ownership ==
    ASSUME NEW growth \in Nat, NEW supplyGrowth \in Nat, NEW percentage \in 0..ONE
    PROVE  /\ getProtocolOwnershipPercentage(growth, supplyGrowth, percentage) \in 0..percentage
           /\ growth <= supplyGrowth => getProtocolOwnershipPercentage(growth, supplyGrowth, percentage) = 0
<1>0. ONE \in Nat \ {0} /\ percentage \in Nat
    BY Units
<1>1. CASE percentage = 0 \/ supplyGrowth >= growth
    BY <1>0, <1>1 DEF getProtocolOwnershipPercentage
<1>2. CASE ~ (percentage = 0 \/ supplyGrowth >= growth)
  <2> DEFINE d == divDown(supplyGrowth, growth)
  <2>1. growth \in Nat \ {0} /\ supplyGrowth < growth
      BY <1>2
  <2>2. d \in Nat /\ d < ONE
      BY <2>1, Quotients
  <2>3. getProtocolOwnershipPercentage(growth, supplyGrowth, percentage) = mulDown(ONE - d, percentage)
      BY <1>2 DEF getProtocolOwnershipPercentage
  <2> HIDE DEF d
  <2>4. ONE - d \in Nat /\ ONE - d <= ONE
      BY <1>0, <2>2
  <2>5. mulDown(ONE - d, percentage) = mulDown(percentage, ONE - d)
      BY <1>0, <2>4 DEF mulDown
  <2>6. mulDown(percentage, ONE - d) \in Nat /\ mulDown(percentage, ONE - d) <= percentage
      BY <1>0, <2>4, Products
  <2> QED BY <1>0, <2>1, <2>3, <2>5, <2>6
<1> QED BY <1>1, <1>2

\* Less than the whole Pool is paid with new BPT.
LEMMA Owed ==
    ASSUME NEW supply \in Nat, NEW ownership \in Nat, ownership < ONE
    PROVE  /\ bptForPoolOwnershipPercentage(supply, ownership) \in Nat
           /\ ownership = 0 => bptForPoolOwnershipPercentage(supply, ownership) = 0
<1>1. complement(ownership) \in Nat \ {0}
    BY Complement
<1>2. supply * ownership \in Nat
    OBVIOUS
<1>3. bptForPoolOwnershipPercentage(supply, ownership) \in Nat
    BY <1>1, <1>2, Floor DEF bptForPoolOwnershipPercentage
<1>4. ASSUME ownership = 0 PROVE bptForPoolOwnershipPercentage(supply, ownership) < 1
  <2>1. supply * ownership < 1 * complement(ownership)
      BY <1>1, <1>4
  <2> QED BY <1>1, <1>2, <2>1, FloorIs DEF bptForPoolOwnershipPercentage
<1> QED BY <1>3, <1>4

LEMMA DueFees ==
    ASSUME NEW growth \in Nat, NEW pre \in Nat \ {0}, NEW post \in Nat, NEW percentage \in 0..HALF
    PROVE  calcDueProtocolFees(growth, pre, post, percentage) \in Nat
<1> DEFINE ownership == getProtocolOwnershipPercentage(growth, divDown(post, pre), percentage)
<1>1. percentage \in 0..ONE /\ percentage < ONE /\ percentage \in Nat
    BY Units
<1>2. divDown(post, pre) \in Nat
    BY Quotients
<1>3. ownership \in 0..percentage
    BY <1>1, <1>2, Ownership
<1>4. calcDueProtocolFees(growth, pre, post, percentage) = bptForPoolOwnershipPercentage(post, ownership)
    BY DEF calcDueProtocolFees
<1> HIDE DEF ownership
<1>5. ownership \in Nat /\ ownership < ONE
    BY <1>1, <1>3, Units
<1> QED BY <1>4, <1>5, Owed

------------------------------------------------------------------------------
(* What joins and exits exchange.                                          *)

LEMMA WeightsAre == Weights[1] = HALF /\ Weights[2] = HALF
BY DEF Weights

LEMMA BothTokens ==
    ASSUME NEW b \in [Tokens -> Nat \ {0}]
    PROVE  DOMAIN b = {1, 2} /\ Tokens = {1, 2} /\ \A i \in Tokens : b[i] \in Nat \ {0}
BY DEF Tokens

\* What enters in proportion is no more than what enters.
LEMMA NonTaxableIn ==
    ASSUME NEW b \in Nat \ {0}, NEW in \in Nat, NEW w \in Nat, w * b <= (b + in) * ONE,
           NEW average \in Nat, average >= ONE, average < w
    PROVE  mulDown(b, average - ONE) \in Nat /\ mulDown(b, average - ONE) <= in
<1> DEFINE k == average - ONE
<1>1. ONE \in Nat \ {0} /\ k \in Nat /\ k <= w - ONE
    BY Units
<1>2. b * k <= b * (w - ONE) /\ b * k \in Nat
    BY <1>1, Monotone
<1>3. b * (w - ONE) = w * b - ONE * b /\ (b + in) * ONE = ONE * b + in * ONE
    BY <1>1
<1>4. (in + 1) * ONE = in * ONE + ONE
    BY <1>1
<1> HIDE DEF k
<1>5. b * k < (in + 1) * ONE
  <2> DEFINE bk == b * k
             bw == b * (w - ONE)
             wb == w * b
             ob == ONE * b
             io == in * ONE
  <2>1. bk \in Int /\ bw \in Int /\ wb \in Int /\ ob \in Int /\ io \in Int
      BY <1>1
  <2>2. bk <= bw /\ bw = wb - ob /\ wb <= ob + io /\ (in + 1) * ONE = io + ONE
      BY <1>2, <1>3, <1>4
  <2> HIDE DEF bk, bw, wb, ob, io
  <2>3. bk < io + ONE
      BY <1>1, <2>1, <2>2
  <2> QED BY <2>2, <2>3 DEF bk
<1>6. mulDown(b, k) < in + 1
    BY <1>1, <1>2, <1>5, FloorIs DEF mulDown
<1>7. mulDown(b, k) \in Nat
    BY <1>1, Products
<1> QED BY <1>6, <1>7 DEF k

LEMMA BptOut ==
    ASSUME NEW b \in [Tokens -> Nat \ {0}], NEW in \in [Tokens -> Nat], NEW supply \in Nat, NEW fee \in 0..ONE
    PROVE  calcBptOutGivenExactTokensIn(b, Weights, in, supply, fee) \in Nat
<1> DEFINE WithFee(i) == divDown(b[i] + in[i], b[i])
           terms      == [i \in DOMAIN b |-> mulDown(WithFee(i), Weights[i])]
           average    == Total(terms)
           nonTaxable(i) == mulDown(b[i], average - ONE)
           taxable(i)  == in[i] - nonTaxable(i)
           InWithoutFee(i) == IF WithFee(i) > average
                              THEN nonTaxable(i) + taxable(i) - mulUp(taxable(i), fee) ELSE in[i]
           factors == [i \in DOMAIN b |-> powDown(divDown(b[i] + InWithoutFee(i), b[i]), Weights[i])]
           ratio   == Product(factors)
<1>0. ONE \in Nat \ {0} /\ ONE = 2 * HALF /\ HALF \in Nat /\ HALF <= ONE /\ fee \in Nat /\ fee <= ONE
    BY Units
<1>1. calcBptOutGivenExactTokensIn(b, Weights, in, supply, fee) =
        IF ratio > ONE THEN mulDown(supply, ratio - ONE) ELSE 0
    BY DEF calcBptOutGivenExactTokensIn
<1>2. ASSUME NEW i \in Tokens
      PROVE  /\ b[i] \in Nat \ {0} /\ in[i] \in Nat /\ WithFee(i) \in Nat /\ WithFee(i) >= ONE
             /\ WithFee(i) * b[i] <= (b[i] + in[i]) * ONE
  <2>1. b[i] \in Nat \ {0} /\ in[i] \in Nat /\ b[i] + in[i] \in Nat /\ b[i] + in[i] >= b[i]
      OBVIOUS
  <2> QED BY <2>1, Quotients
<1>3. average \in Nat /\ average >= ONE
  <2>1. DOMAIN terms = {1, 2}
      BY BothTokens
  <2>2. terms[1] = mulDown(WithFee(1), HALF) /\ terms[2] = mulDown(WithFee(2), HALF)
      BY BothTokens, WeightsAre
  <2>3. ASSUME NEW w \in Nat, w >= ONE PROVE mulDown(w, HALF) \in Nat /\ mulDown(w, HALF) >= HALF
    <3>1. mulDown(w, HALF) \in Nat
        BY <1>0, Products
    <3>2. HALF * ONE <= w * HALF
        BY <1>0, <2>3
    <3>3. HALF <= mulDown(w, HALF)
        BY <1>0, <3>2, FloorIs DEF mulDown
    <3> QED BY <3>1, <3>3
  <2>4. 1 \in Tokens /\ 2 \in Tokens
      BY DEF Tokens
  <2>5. WithFee(1) \in Nat /\ WithFee(1) >= ONE /\ WithFee(2) \in Nat /\ WithFee(2) >= ONE
      BY <1>2, <2>4
  <2> HIDE DEF terms, WithFee
  <2>6. terms[1] \in Nat /\ terms[2] \in Nat /\ terms[1] >= HALF /\ terms[2] >= HALF
      BY <2>2, <2>3, <2>5
  <2>7. Total(terms) = terms[1] + terms[2]
      BY <2>1, <2>6, TotalOfTwo
  <2> QED BY <1>0, <2>6, <2>7
<1> HIDE DEF average
<1>4. ASSUME NEW i \in Tokens PROVE InWithoutFee(i) \in Nat
  <2> DEFINE w == WithFee(i)
             n == mulDown(b[i], average - ONE)
             x == in[i] - n
  <2>0. /\ b[i] \in Nat \ {0} /\ in[i] \in Nat /\ w \in Nat
        /\ w * b[i] <= (b[i] + in[i]) * ONE
      BY <1>2
  <2> HIDE DEF w
  <2>1. CASE w > average
    <3>1. n \in Nat /\ n <= in[i]
        BY <1>3, <2>0, <2>1, NonTaxableIn
    <3> HIDE DEF n
    <3>2. x \in Nat
        BY <2>0, <3>1
    <3> HIDE DEF x
    <3>3. mulUp(x, fee) \in Nat /\ mulUp(x, fee) <= x
        BY <1>0, <3>2, Products
    <3>4. n + x - mulUp(x, fee) \in Nat
        BY <3>1, <3>2, <3>3
    <3>5. InWithoutFee(i) = n + x - mulUp(x, fee)
        BY <2>1 DEF n, x, w
    <3> QED BY <3>4, <3>5
  <2>2. CASE ~ (w > average)
      BY <2>0, <2>2 DEF w
  <2> QED BY <2>1, <2>2
<1> HIDE DEF InWithoutFee
<1>5. ASSUME NEW i \in Tokens PROVE divDown(b[i] + InWithoutFee(i), b[i]) \in Nat
  <2>1. b[i] \in Nat \ {0} /\ b[i] + InWithoutFee(i) \in Nat
      BY <1>2, <1>4
  <2> QED BY <2>1, Quotients
<1>6. ratio \in Nat
  <2> DEFINE x == divDown(b[1] + InWithoutFee(1), b[1])
             y == divDown(b[2] + InWithoutFee(2), b[2])
  <2>1. DOMAIN factors = {1, 2} /\ factors[1] = powDown(x, HALF) /\ factors[2] = powDown(y, HALF)
      BY BothTokens, WeightsAre
  <2>2. x \in Nat /\ y \in Nat
      BY <1>5 DEF Tokens
  <2> HIDE DEF factors, x, y
  <2>3. Product(factors) = mulDown(mulDown(ONE, powDown(x, HALF)), powDown(y, HALF))
      BY <2>1, ProductOfTwo
  <2>4. mulDown(mulDown(ONE, powDown(x, HALF)), powDown(y, HALF)) \in Nat
      BY <2>2, ProductOfPowers
  <2> QED BY <2>3, <2>4
<1> HIDE DEF ratio
<1>7. ASSUME ratio > ONE PROVE mulDown(supply, ratio - ONE) \in Nat
  <2>1. ratio - ONE \in Nat
      BY <1>0, <1>6, <1>7
  <2> QED BY <2>1, Products
<1> QED BY <1>1, <1>7

\* The exponents of the Pool's weights.
LEMMA Exponents ==
    /\ divUp(ONE, HALF) = TWO /\ divDown(ONE, HALF) = TWO
    /\ divUp(HALF, HALF) = ONE /\ divDown(HALF, HALF) = ONE
<1>0. ONE \in Nat \ {0} /\ ONE = 2 * HALF /\ HALF \in Nat \ {0} /\ TWO = 2 * ONE
    BY Units
<1>1. ASSUME NEW a \in Nat, NEW n \in Nat, a = n * HALF
      PROVE  a \div HALF = n /\ CeilDiv(a, HALF) = n
  <2>1. a \div HALF \in Int /\ n <= a \div HALF
      BY <1>0, <1>1, FloorIs, Floor
  <2>2. a < (n + 1) * HALF
      BY <1>0, <1>1
  <2>3. a \div HALF < n + 1
      BY <1>0, <2>2, FloorIs
  <2>4. CeilDiv(a, HALF) \in Int /\ CeilDiv(a, HALF) <= n
      BY <1>0, <1>1, CeilIs
  <2>5. (n - 1) * HALF < a
      BY <1>0, <1>1
  <2>6. n - 1 < CeilDiv(a, HALF)
      BY <1>0, <2>5, CeilIs
  <2> QED BY <2>1, <2>3, <2>4, <2>6
<1>2. ONE * ONE \in Nat /\ ONE * ONE = TWO * HALF /\ TWO \in Nat
    BY <1>0
<1>3. HALF * ONE \in Nat /\ HALF * ONE = ONE * HALF
    BY <1>0
<1>4. divUp(ONE, HALF) = TWO /\ divDown(ONE, HALF) = TWO
    BY <1>1, <1>2 DEF divUp, divDown
<1>5. divUp(HALF, HALF) = ONE /\ divDown(HALF, HALF) = ONE
    BY <1>0, <1>1, <1>3 DEF divUp, divDown
<1> QED BY <1>4, <1>5

LEMMA SimplePowers ==
    ASSUME NEW x
    PROVE  powUp(x, ONE) = x /\ powUp(x, TWO) = mulUp(x, x)
BY Units DEF powUp

\* Half of an amount is taxable.
LEMMA Taxable ==
    ASSUME NEW x \in Nat
    PROVE  /\ mulUp(x, complement(HALF)) \in Nat /\ mulUp(x, complement(HALF)) <= x
           /\ x = 0 => mulUp(x, complement(HALF)) = 0
<1>1. complement(HALF) \in Nat /\ complement(HALF) <= ONE
    BY Units, Complement
<1> DEFINE c == complement(HALF)
<1> HIDE DEF c
<1>2. mulUp(x, c) \in Nat /\ mulUp(x, c) <= x
    BY <1>1, Products DEF c
<1> QED BY <1>2 DEF c

LEMMA TokenIn ==
    ASSUME NEW balance \in Nat, NEW bptOut \in Nat, NEW supply \in Nat \ {0}, NEW fee \in 0..(ONE - 1),
           divUp(supply + bptOut, supply) <= MaxInvariantRatio
    PROVE  calcTokenInGivenExactBptOut(balance, HALF, bptOut, supply, fee) \in Nat
<1> DEFINE ratio == divUp(supply + bptOut, supply)
           grown == powUp(ratio, divUp(ONE, HALF))
           inWithoutFee == mulUp(balance, grown - ONE)
           taxable == mulUp(inWithoutFee, complement(HALF))
           taxed   == divUp(taxable, complement(fee))
<1>0. ONE \in Nat \ {0} /\ fee \in Nat /\ fee < ONE /\ MaxInvariantRatio \in Nat
    BY Units, PoolAssumption
<1>1. ratio \in Nat /\ ratio >= ONE /\ ratio <= MaxInvariantRatio
  <2>1. supply + bptOut \in Nat /\ supply + bptOut >= supply
      OBVIOUS
  <2> QED BY <2>1, Quotients
<1>2. calcTokenInGivenExactBptOut(balance, HALF, bptOut, supply, fee) = inWithoutFee - taxable + taxed
  <2>1. ~ (ratio > MaxInvariantRatio)
      BY <1>0, <1>1
  <2> QED BY <2>1 DEF calcTokenInGivenExactBptOut
<1> HIDE DEF ratio
<1>3. grown - ONE \in Nat
  <2>1. grown = mulUp(ratio, ratio)
      BY Exponents, SimplePowers
  <2>2. mulUp(ratio, ratio) \in Nat /\ mulUp(ratio, ratio) >= ratio
      BY <1>1, Products
  <2> HIDE DEF grown
  <2> QED BY <1>0, <1>1, <2>1, <2>2
<1>4. inWithoutFee \in Nat
    BY <1>3, Products
<1> HIDE DEF inWithoutFee
<1>5. taxable \in Nat /\ taxable <= inWithoutFee
    BY <1>4, Taxable
<1> HIDE DEF taxable
<1>6. taxed \in Nat
  <2>1. complement(fee) \in Nat \ {0}
      BY <1>0, Complement
  <2> QED BY <1>5, <2>1, Quotients
<1> QED BY <1>2, <1>4, <1>5, <1>6

LEMMA AllTokensIn ==
    ASSUME NEW b \in [Tokens -> Nat \ {0}], NEW bptOut \in Nat, NEW supply \in Nat \ {0}
    PROVE  calcAllTokensInGivenExactBptOut(b, bptOut, supply) \in [Tokens -> Nat]
<1>1. divUp(bptOut, supply) \in Nat
    BY Quotients
<1>2. ASSUME NEW i \in Tokens PROVE mulUp(b[i], divUp(bptOut, supply)) \in Nat
    BY <1>1, Products
<1> QED BY <1>2 DEF calcAllTokensInGivenExactBptOut

\* What leaves in proportion is no more than what leaves.
LEMMA NonTaxableOut ==
    ASSUME NEW b \in Nat \ {0}, NEW out \in Nat, NEW w \in Nat, (b - out) * ONE <= w * b,
           NEW average \in Nat, average <= ONE, w < average
    PROVE  mulDown(b, ONE - average) \in Nat /\ mulDown(b, ONE - average) <= out
<1> DEFINE k == ONE - average
<1>1. ONE \in Nat \ {0} /\ k \in Nat /\ k <= ONE - w /\ ONE - w \in Nat
    BY Units
<1>2. b * k <= b * (ONE - w) /\ b * k \in Nat
    BY <1>1, Monotone
<1>3. b * (ONE - w) = b * ONE - w * b /\ (b - out) * ONE = b * ONE - out * ONE
    BY <1>1
<1>4. (out + 1) * ONE = out * ONE + ONE
    BY <1>1
<1> HIDE DEF k
<1>5. b * k < (out + 1) * ONE
  <2> DEFINE bk == b * k
             bw == b * (ONE - w)
             wb == w * b
             bo == b * ONE
             oo == out * ONE
  <2>1. bk \in Int /\ bw \in Int /\ wb \in Int /\ bo \in Int /\ oo \in Int
      BY <1>1
  <2>2. bk <= bw /\ bw = bo - wb /\ bo - oo <= wb /\ (out + 1) * ONE = oo + ONE
      BY <1>2, <1>3, <1>4
  <2> HIDE DEF bk, bw, wb, bo, oo
  <2>3. bk < oo + ONE
      BY <1>1, <2>1, <2>2
  <2> QED BY <2>2, <2>3 DEF bk
<1>6. mulDown(b, k) < out + 1
    BY <1>1, <1>2, <1>5, FloorIs DEF mulDown
<1>7. mulDown(b, k) \in Nat
    BY <1>1, Products
<1> QED BY <1>6, <1>7 DEF k

LEMMA BptIn ==
    ASSUME NEW b \in [Tokens -> Nat \ {0}], NEW out \in [Tokens -> Nat], NEW supply \in Nat \ {0},
           NEW fee \in 0..(ONE - 1),
           calcBptInGivenExactTokensOut(b, Weights, out, supply, fee) # Reverted
    PROVE  calcBptInGivenExactTokensOut(b, Weights, out, supply, fee) \in Nat \ {0}
<1> DEFINE WithoutFee(i) == divUp(b[i] - out[i], b[i])
           terms   == [i \in DOMAIN b |-> mulUp(WithoutFee(i), Weights[i])]
           average == Total(terms)
           nonTaxable(i) == mulDown(b[i], complement(average))
           taxable(i)  == out[i] - nonTaxable(i)
           OutWithFee(i) == IF average > WithoutFee(i)
                            THEN nonTaxable(i) + divUp(taxable(i), complement(fee)) ELSE out[i]
           factors == [i \in DOMAIN b |-> powDown(divDown(b[i] - OutWithFee(i), b[i]), Weights[i])]
           ratio   == Product(factors)
           tooMuch == \E i \in DOMAIN b : out[i] > b[i] \/ OutWithFee(i) > b[i]
<1>0. /\ ONE \in Nat \ {0} /\ ONE = 2 * HALF /\ HALF \in Nat /\ HALF <= ONE
      /\ fee \in Nat /\ fee < ONE
    BY Units
<1>1. calcBptInGivenExactTokensOut(b, Weights, out, supply, fee) =
        IF tooMuch THEN Reverted ELSE mulUp(supply, complement(ratio))
    BY DEF calcBptInGivenExactTokensOut
<1>2. ASSUME NEW i \in Tokens PROVE ~ (out[i] > b[i]) /\ ~ (OutWithFee(i) > b[i])
  <2>1. i \in DOMAIN b /\ ~ tooMuch
      BY <1>1
  <2> HIDE DEF OutWithFee
  <2> QED BY <2>1
<1>3. ~ tooMuch
    BY <1>1
<1> HIDE DEF tooMuch
<1>4. ASSUME NEW i \in Tokens
      PROVE  /\ b[i] \in Nat \ {0} /\ out[i] \in Nat /\ out[i] <= b[i]
             /\ WithoutFee(i) \in Nat /\ WithoutFee(i) <= ONE
             /\ (b[i] - out[i]) * ONE <= WithoutFee(i) * b[i]
  <2>0. b[i] \in Nat \ {0} /\ out[i] \in Nat
      OBVIOUS
  <2>1. b[i] \in Nat \ {0} /\ out[i] \in Nat /\ out[i] <= b[i]
    <3> HIDE DEF OutWithFee
    <3>1. ~ (out[i] > b[i])
        BY <1>2
    <3> QED BY <2>0, <3>1
  <2>2. b[i] - out[i] \in Nat /\ b[i] - out[i] <= b[i]
      BY <2>1
  <2> QED BY <2>1, <2>2, Quotients
<1>5. average \in Nat /\ average <= ONE
  <2>1. DOMAIN terms = {1, 2}
      BY BothTokens
  <2>2. terms[1] = mulUp(WithoutFee(1), HALF) /\ terms[2] = mulUp(WithoutFee(2), HALF)
      BY BothTokens, WeightsAre
  <2>3. ASSUME NEW w \in Nat, w <= ONE PROVE mulUp(w, HALF) \in Nat /\ mulUp(w, HALF) <= HALF
    <3>1. mulUp(w, HALF) \in Nat
        BY <1>0, Products
    <3>2. w * HALF <= ONE * HALF /\ ONE * HALF = HALF * ONE /\ w * HALF \in Nat
        BY <1>0, <2>3, Monotone
    <3>3. mulUp(w, HALF) <= HALF
        BY <1>0, <3>2, CeilIs DEF mulUp
    <3> QED BY <3>1, <3>3
  <2>4. 1 \in Tokens /\ 2 \in Tokens
      BY DEF Tokens
  <2>5. WithoutFee(1) \in Nat /\ WithoutFee(1) <= ONE /\ WithoutFee(2) \in Nat /\ WithoutFee(2) <= ONE
      BY <1>4, <2>4
  <2> HIDE DEF terms, WithoutFee
  <2>6. terms[1] \in Nat /\ terms[2] \in Nat /\ terms[1] <= HALF /\ terms[2] <= HALF
      BY <2>2, <2>3, <2>5
  <2>7. Total(terms) = terms[1] + terms[2]
      BY <2>1, <2>6, TotalOfTwo
  <2> QED BY <1>0, <2>6, <2>7
<1> HIDE DEF average
<1>6. ASSUME NEW i \in Tokens PROVE OutWithFee(i) \in Nat
  <2> DEFINE w == WithoutFee(i)
             n == mulDown(b[i], complement(average))
             x == out[i] - n
  <2>0. /\ b[i] \in Nat \ {0} /\ out[i] \in Nat /\ w \in Nat
        /\ (b[i] - out[i]) * ONE <= w * b[i]
      BY <1>4
  <2> HIDE DEF w
  <2>1. CASE average > w
    <3>1. complement(average) = ONE - average
        BY <1>0, <1>5 DEF complement
    <3>2. n \in Nat /\ n <= out[i]
        BY <1>5, <2>0, <2>1, <3>1, NonTaxableOut
    <3> HIDE DEF n
    <3>3. x \in Nat
        BY <2>0, <3>2
    <3> HIDE DEF x
    <3>4. complement(fee) \in Nat \ {0}
        BY <1>0, Complement
    <3>5. divUp(x, complement(fee)) \in Nat
        BY <3>3, <3>4, Quotients
    <3>6. OutWithFee(i) = n + divUp(x, complement(fee))
        BY <2>1 DEF n, x, w
    <3> QED BY <3>2, <3>5, <3>6
  <2>2. CASE ~ (average > w)
      BY <2>0, <2>2 DEF w
  <2> QED BY <2>1, <2>2
<1> HIDE DEF OutWithFee
<1>7. ASSUME NEW i \in Tokens
      PROVE  /\ divDown(b[i] - OutWithFee(i), b[i]) \in Nat
             /\ divDown(b[i] - OutWithFee(i), b[i]) <= ONE
  <2>1. b[i] \in Nat \ {0} /\ b[i] - OutWithFee(i) \in Nat /\ b[i] - OutWithFee(i) <= b[i]
      BY <1>2, <1>4, <1>6
  <2> QED BY <2>1, Quotients
<1>8. ratio \in Nat /\ ratio < ONE
  <2> DEFINE x == divDown(b[1] - OutWithFee(1), b[1])
             y == divDown(b[2] - OutWithFee(2), b[2])
  <2>1. DOMAIN factors = {1, 2} /\ factors[1] = powDown(x, HALF) /\ factors[2] = powDown(y, HALF)
      BY BothTokens, WeightsAre
  <2>2. x \in Nat /\ y \in Nat /\ x <= ONE /\ y <= ONE
      BY <1>7 DEF Tokens
  <2> HIDE DEF factors, x, y
  <2>3. Product(factors) = mulDown(mulDown(ONE, powDown(x, HALF)), powDown(y, HALF))
      BY <2>1, ProductOfTwo
  <2> DEFINE s == mulDown(mulDown(ONE, powDown(x, HALF)), powDown(y, HALF))
  <2>4. s \in Nat /\ s < ONE
      BY <2>2, ProductOfPowers
  <2> QED BY <2>3, <2>4
<1> HIDE DEF ratio
<1>9. complement(ratio) \in Nat \ {0}
    BY <1>8, Complement
<1>10. mulUp(supply, complement(ratio)) \in Nat \ {0}
    BY <1>9, Products
<1> QED BY <1>1, <1>3, <1>10

LEMMA TokenOut ==
    ASSUME NEW balance \in Nat, NEW bptIn \in Nat, NEW supply \in Nat \ {0}, bptIn <= supply,
           NEW fee \in 0..(ONE - 1), ~ (divUp(supply - bptIn, supply) < MinInvariantRatio)
    PROVE  /\ calcTokenOutGivenExactBptIn(balance, HALF, bptIn, supply, fee) \in Nat
           /\ bptIn = 0 => calcTokenOutGivenExactBptIn(balance, HALF, bptIn, supply, fee) = 0
<1> DEFINE ratio == divUp(supply - bptIn, supply)
           left  == powUp(ratio, divDown(ONE, HALF))
           outWithoutFee == mulDown(balance, complement(left))
           taxable == mulUp(outWithoutFee, complement(HALF))
           taxed   == mulUp(taxable, complement(fee))
<1>0. ONE \in Nat \ {0} /\ fee \in Nat /\ fee < ONE
    BY Units
<1>1. ratio \in Nat /\ (bptIn = 0 => ratio >= ONE)
  <2>1. supply - bptIn \in Nat /\ (bptIn = 0 => supply - bptIn >= supply)
      OBVIOUS
  <2> QED BY <2>1, Quotients
<1>2. calcTokenOutGivenExactBptIn(balance, HALF, bptIn, supply, fee) = outWithoutFee - taxable + taxed
  <2>1. ~ (bptIn > supply)
      OBVIOUS
  <2> QED BY <2>1 DEF calcTokenOutGivenExactBptIn
<1> HIDE DEF ratio
<1>3. left = mulUp(ratio, ratio)
    BY Exponents, SimplePowers
<1> HIDE DEF left
<1>4. left \in Nat /\ (bptIn = 0 => left >= ONE)
  <2>1. mulUp(ratio, ratio) \in Nat /\ (ratio >= ONE => mulUp(ratio, ratio) >= ratio)
      BY <1>1, Products
  <2> QED BY <1>0, <1>1, <1>3, <2>1
<1>5. complement(left) \in Nat /\ (bptIn = 0 => complement(left) = 0)
    BY <1>0, <1>4, Complement
<1>6. outWithoutFee \in Nat /\ (bptIn = 0 => outWithoutFee = 0)
    BY <1>5, Products
<1> HIDE DEF outWithoutFee
<1>7. taxable \in Nat /\ taxable <= outWithoutFee
    BY <1>6, Taxable
<1> HIDE DEF taxable
<1>8. taxed \in Nat /\ taxed <= taxable
  <2>1. complement(fee) \in Nat /\ complement(fee) <= ONE
      BY <1>0, Complement
  <2> DEFINE c == complement(fee)
  <2> HIDE DEF c
  <2>2. mulUp(taxable, c) \in Nat /\ mulUp(taxable, c) <= taxable
      BY <1>7, <2>1, Products DEF c
  <2> QED BY <2>2 DEF c
<1> HIDE DEF taxed
<1> QED BY <1>2, <1>6, <1>7, <1>8

\* A part of the BPT gets a part of every token.
LEMMA TokensOut ==
    ASSUME NEW b \in [Tokens -> Nat \ {0}], NEW bptIn \in Nat, NEW supply \in Nat \ {0}, bptIn < supply
    PROVE  /\ calcTokensOutGivenExactBptIn(b, bptIn, supply) \in [Tokens -> Nat]
           /\ \A i \in Tokens : calcTokensOutGivenExactBptIn(b, bptIn, supply)[i] < b[i]
           /\ bptIn = 0 => calcTokensOutGivenExactBptIn(b, bptIn, supply) = [i \in Tokens |-> 0]
<1> DEFINE share == divDown(bptIn, supply)
           outs  == calcTokensOutGivenExactBptIn(b, bptIn, supply)
<1>1. outs = [i \in Tokens |-> mulDown(b[i], share)]
    BY DEF calcTokensOutGivenExactBptIn
<1>2. share \in Nat /\ share < ONE
    BY Quotients
<1>3. bptIn = 0 => share = 0
  <2>1. ASSUME bptIn = 0 PROVE share < 1
    <3>1. bptIn * ONE < 1 * supply
        BY <2>1, Units
    <3>2. bptIn * ONE \in Int
        BY Units
    <3> QED BY <3>1, <3>2, FloorIs DEF divDown
  <2> QED BY <1>2, <2>1
<1> HIDE DEF share, outs
<1>4. ASSUME NEW i \in Tokens
      PROVE  /\ mulDown(b[i], share) \in Nat /\ mulDown(b[i], share) < b[i]
             /\ share = 0 => mulDown(b[i], share) = 0
    BY <1>2, Products
<1>5. outs \in [Tokens -> Nat] /\ \A i \in Tokens : outs[i] < b[i]
    BY <1>1, <1>4
<1>6. bptIn = 0 => outs = [i \in Tokens |-> 0]
    BY <1>1, <1>3, <1>4
<1> QED BY <1>5, <1>6 DEF outs

------------------------------------------------------------------------------
(* Swaps.                                                                  *)

LEMMA SwapLimits ==
    ASSUME NEW balance \in Nat \ {0}
    PROVE  /\ mulDown(balance, MaxInRatio) \in Nat
           /\ mulDown(balance, MaxOutRatio) \in Nat /\ mulDown(balance, MaxOutRatio) < balance
<1>1. balance \in Nat /\ balance > 0 /\ ONE \in Nat
    BY Units
<1>2. MaxInRatio \in Nat /\ MaxOutRatio \in Nat /\ MaxOutRatio < ONE
    BY PoolAssumption
<1> QED BY <1>1, <1>2, Products

\* What is sent is less than there is.
LEMMA OutGivenIn ==
    ASSUME NEW balanceIn \in Nat \ {0}, NEW balanceOut \in Nat \ {0}, NEW amountIn \in Nat,
           amountIn <= mulDown(balanceIn, MaxInRatio)
    PROVE  /\ calcOutGivenIn(balanceIn, HALF, balanceOut, HALF, amountIn) \in Nat
           /\ calcOutGivenIn(balanceIn, HALF, balanceOut, HALF, amountIn) < balanceOut
<1> DEFINE base == divUp(balanceIn, balanceIn + amountIn)
           c    == complement(base)
<1>1. mulDown(balanceIn, MaxInRatio) \in Nat
    BY SwapLimits
<1>2. calcOutGivenIn(balanceIn, HALF, balanceOut, HALF, amountIn) =
        mulDown(balanceOut, complement(powUp(base, divDown(HALF, HALF))))
  <2>1. ~ (amountIn > mulDown(balanceIn, MaxInRatio))
      BY <1>1
  <2> QED BY <2>1 DEF calcOutGivenIn
<1>3. base \in Nat /\ base > 0
  <2>1. balanceIn + amountIn \in Nat \ {0} /\ balanceIn \in Nat /\ balanceIn > 0
      OBVIOUS
  <2> QED BY <2>1, Quotients
<1> HIDE DEF base
<1>4. powUp(base, divDown(HALF, HALF)) = base
    BY Exponents, SimplePowers
<1>5. c \in Nat /\ c < ONE
    BY <1>3, Complement, Units
<1> HIDE DEF c
<1>6. mulDown(balanceOut, c) \in Nat /\ mulDown(balanceOut, c) < balanceOut
  <2>1. balanceOut \in Nat /\ balanceOut > 0
      OBVIOUS
  <2> QED BY <1>5, <2>1, Products
<1> QED BY <1>2, <1>4, <1>6 DEF c

LEMMA InGivenOut ==
    ASSUME NEW balanceIn \in Nat \ {0}, NEW balanceOut \in Nat \ {0}, NEW amountOut \in Nat,
           amountOut <= mulDown(balanceOut, MaxOutRatio)
    PROVE  /\ calcInGivenOut(balanceIn, HALF, balanceOut, HALF, amountOut) \in Nat
           /\ amountOut < balanceOut
<1> DEFINE base == divUp(balanceOut, balanceOut - amountOut)
<1>0. ONE \in Nat \ {0} /\ MaxOutRatio \in Nat /\ MaxOutRatio < ONE
    BY PoolAssumption
<1>1. mulDown(balanceOut, MaxOutRatio) \in Nat /\ mulDown(balanceOut, MaxOutRatio) < balanceOut
    BY SwapLimits
<1>2. amountOut < balanceOut /\ ~ (amountOut > mulDown(balanceOut, MaxOutRatio))
    BY <1>1
<1>3. calcInGivenOut(balanceIn, HALF, balanceOut, HALF, amountOut) =
        mulUp(balanceIn, powUp(base, divUp(HALF, HALF)) - ONE)
    BY <1>2 DEF calcInGivenOut
<1>4. base \in Nat /\ base >= ONE
  <2>1. balanceOut - amountOut \in Nat \ {0} /\ balanceOut \in Nat /\ balanceOut >= balanceOut - amountOut
      BY <1>2
  <2> QED BY <2>1, Quotients
<1> HIDE DEF base
<1>5. powUp(base, divUp(HALF, HALF)) = base
    BY Exponents, SimplePowers
<1>6. base - ONE \in Nat
    BY <1>0, <1>4
<1>7. mulUp(balanceIn, base - ONE) \in Nat
    BY <1>6, Products
<1> QED BY <1>2, <1>3, <1>5, <1>7

------------------------------------------------------------------------------
(* The inductive invariant.                                                *)

PoolTypes ==
    /\ balances \in [Tokens -> Nat]
    /\ bpt \in [lp : Nat, collector : Nat, locked : Nat]
    /\ lastPostJoinExitInvariant \in Nat /\ athRateProduct \in Nat
    /\ cache \in Percentages /\ provider \in Percentages
    /\ swapFeePercentage \in 0..MaxSwapFee /\ recoveryMode \in BOOLEAN /\ rate \in Rates

\* Before the initial join there is nothing; ever after, the BPT locked by it, tokens of
\* both kinds and what growth is measured against.
Empty == TotalSupply = 0 /\ lastPostJoinExitInvariant = 0 /\ \A i \in Tokens : balances[i] = 0
Backed ==
    /\ bpt.locked = MinimumBpt
    /\ \A i \in Tokens : balances[i] > 0
    /\ lastPostJoinExitInvariant > 0 /\ athRateProduct > 0

PoolInv == PoolTypes /\ (Empty \/ Backed)

LEMMA Supply ==
    ASSUME PoolTypes
    PROVE  /\ TotalSupply \in Nat /\ bpt.lp \in Nat /\ bpt.collector \in Nat /\ bpt.locked \in Nat
           /\ Backed => TotalSupply >= MinimumBpt /\ TotalSupply > 0 /\ bpt.lp < TotalSupply
           /\ Initialized /\ PoolInv => Backed
           /\ ~Initialized /\ PoolInv => Empty
<1>1. bpt.lp \in Nat /\ bpt.collector \in Nat /\ bpt.locked \in Nat /\ MinimumBpt \in Nat \ {0}
    BY PoolAssumption DEF PoolTypes
<1>2. TotalSupply \in Nat
    BY <1>1 DEF TotalSupply
<1>3. Backed => TotalSupply >= MinimumBpt /\ TotalSupply > 0 /\ bpt.lp < TotalSupply
    BY <1>1 DEF Backed, TotalSupply
<1>4. Initialized /\ PoolInv => Backed
    BY <1>2 DEF Initialized, PoolInv, Empty
<1>5. ~Initialized /\ PoolInv => Empty
    BY <1>2, <1>3 DEF Initialized, PoolInv
<1> QED BY <1>1, <1>2, <1>3, <1>4, <1>5

LEMMA Backing ==
    ASSUME PoolTypes, Backed
    PROVE  /\ balances \in [Tokens -> Nat \ {0}]
           /\ balances[1] \in Nat \ {0} /\ balances[2] \in Nat \ {0}
           /\ swapFeePercentage \in 0..(ONE - 1) /\ swapFeePercentage \in 0..ONE
           /\ lastPostJoinExitInvariant \in Nat \ {0} /\ athRateProduct \in Nat \ {0}
BY PoolAssumption DEF PoolTypes, Backed, Tokens

LEMMA RateProductIs ==
    ASSUME rate \in Rates
    PROVE  RateProduct \in Nat /\ RateProduct > 0
<1>1. rate \in Nat /\ RateProduct > 0
    BY PoolAssumption DEF RateProduct
<1>2. powDown(rate, HALF) \in Nat
    BY <1>1, HalfPower
<1> DEFINE p == powDown(rate, HALF)
<1> HIDE DEF p
<1>3. mulDown(p, ONE) \in Nat
    BY <1>2, Products, Units DEF p
<1> QED BY <1>1, <1>3 DEF RateProduct, p

LEMMA Raised ==
    ASSUME rate \in Rates, athRateProduct \in Nat
    PROVE  /\ RaisedAth \in Nat /\ RaisedAth >= athRateProduct /\ RaisedAth >= RateProduct
           /\ RaisedAth > 0
BY RateProductIs DEF RaisedAth

LEMMA InvariantNow ==
    ASSUME PoolTypes
    PROVE  Invariant \in Nat /\ (Invariant > 0 => \A i \in Tokens : balances[i] > 0)
<1>1. balances \in [Tokens -> Nat]
    BY DEF PoolTypes
<1>2. Invariant \in Nat /\ (Invariant > 0 => balances[1] > 0 /\ balances[2] > 0)
    BY <1>1, InvariantIs DEF Invariant
<1> QED BY <1>2 DEF Tokens

\* No fees are charged in Recovery Mode.
LEMMA Percentage ==
    ASSUME PoolTypes
    PROVE  /\ getProtocolFeePercentageCache("swap") \in 0..HALF
           /\ getProtocolFeePercentageCache("swap") \in 0..ONE
           /\ getProtocolFeePercentageCache("yield") \in 0..ONE
<1>1. cache.swap \in 0..HALF /\ cache.yield \in 0..ONE
    BY DEF PoolTypes, Percentages, getFeeTypeMaximumPercentage
<1>2. /\ getProtocolFeePercentageCache("swap") \in {0, cache.swap}
      /\ getProtocolFeePercentageCache("yield") \in {0, cache.yield}
    BY DEF getProtocolFeePercentageCache
<1> QED BY <1>1, <1>2, Units

LEMMA Shares ==
    ASSUME PoolTypes, lastPostJoinExitInvariant > 0, athRateProduct > 0
    PROVE  /\ SwapFeesShare \in Nat /\ YieldFeesShare \in Nat
           /\ Invariant = lastPostJoinExitInvariant => SwapFeesShare = 0
           /\ RateProduct <= athRateProduct => YieldFeesShare = 0
<1>0. /\ lastPostJoinExitInvariant \in Nat \ {0} /\ athRateProduct \in Nat \ {0} /\ ONE \in Nat \ {0}
      /\ Invariant \in Nat /\ RateProduct \in Nat
    BY InvariantNow, RateProductIs, Units DEF PoolTypes
<1>1. SwapFeesShare \in Nat /\ (Invariant = lastPostJoinExitInvariant => SwapFeesShare = 0)
  <2> DEFINE growth == divDown(Invariant, lastPostJoinExitInvariant)
             percentage == getProtocolFeePercentageCache("swap")
  <2>1. growth \in Nat /\ (Invariant = lastPostJoinExitInvariant => growth <= ONE)
      BY <1>0, Quotients
  <2>2. percentage \in 0..ONE
      BY Percentage
  <2>3. SwapFeesShare = getProtocolOwnershipPercentage(growth, ONE, percentage)
      BY DEF SwapFeesShare
  <2> HIDE DEF growth, percentage
  <2> QED BY <1>0, <2>1, <2>2, <2>3, Ownership
<1>2. YieldFeesShare \in Nat /\ (RateProduct <= athRateProduct => YieldFeesShare = 0)
  <2>1. CASE RateProduct <= athRateProduct
      BY <2>1 DEF YieldFeesShare
  <2>2. CASE ~ (RateProduct <= athRateProduct)
    <3> DEFINE growth == divDown(RateProduct, athRateProduct)
               percentage == getProtocolFeePercentageCache("yield")
    <3>1. growth \in Nat
        BY <1>0, Quotients
    <3>2. percentage \in 0..ONE
        BY Percentage
    <3>3. YieldFeesShare = getProtocolOwnershipPercentage(growth, ONE, percentage)
        BY <2>2 DEF YieldFeesShare
    <3> HIDE DEF growth, percentage
    <3> QED BY <1>0, <2>2, <3>1, <3>2, <3>3, Ownership
  <2> QED BY <2>1, <2>2
<1> QED BY <1>1, <1>2

\* What is due is paid with BPT on top of those there are.
LEMMA Due ==
    ASSUME PoolTypes, Backed, FeesCanBePaid
    PROVE  /\ PreJoinExitProtocolFees \in Nat
           /\ getActualSupply \in Nat \ {0} /\ getActualSupply >= TotalSupply
           /\ getActualSupply - TotalSupply = PreJoinExitProtocolFees
<1>1. SwapFeesShare \in Nat /\ YieldFeesShare \in Nat
    BY Shares DEF Backed
<1>2. SwapFeesShare + YieldFeesShare \in Nat /\ SwapFeesShare + YieldFeesShare < ONE
    BY <1>1 DEF FeesCanBePaid
<1>3. TotalSupply \in Nat /\ TotalSupply > 0
    BY Supply
<1> DEFINE share == SwapFeesShare + YieldFeesShare
<1> HIDE DEF share
<1>4. share \in Nat /\ share < ONE
    BY <1>2 DEF share
<1>5. bptForPoolOwnershipPercentage(TotalSupply, share) \in Nat
    BY <1>3, <1>4, Owed
<1>6. PreJoinExitProtocolFees \in Nat
    BY <1>5 DEF PreJoinExitProtocolFees, share
<1> QED BY <1>3, <1>6 DEF getActualSupply

\* When the invariant is the one stored and the rate is at its height, nothing is due.
LEMMA NothingDue ==
    ASSUME PoolTypes, lastPostJoinExitInvariant > 0, athRateProduct > 0,
           Invariant = lastPostJoinExitInvariant, RateProduct <= athRateProduct
    PROVE  PreJoinExitProtocolFees = 0
<1>1. SwapFeesShare + YieldFeesShare = 0
    BY Shares
<1>2. TotalSupply \in Nat /\ ONE > 0 /\ ONE \in Nat
    BY Supply, Units
<1>3. bptForPoolOwnershipPercentage(TotalSupply, 0) = 0
    BY <1>2, Owed
<1> QED BY <1>1, <1>3 DEF PreJoinExitProtocolFees

\* In Recovery Mode no fees are due, nor does an operation owe any.
LEMMA RecoveryIsFree ==
    ASSUME PoolTypes, Backed, recoveryMode
    PROVE  /\ PreJoinExitProtocolFees = 0
           /\ \A invariant, pre, post : PostJoinExitProtocolFees(invariant, pre, post) = 0
<1>1. \A feeType : getProtocolFeePercentageCache(feeType) = 0
    BY DEF getProtocolFeePercentageCache
<1>2. \A growth, supplyGrowth : getProtocolOwnershipPercentage(growth, supplyGrowth, 0) = 0
    BY DEF getProtocolOwnershipPercentage
<1>3. SwapFeesShare + YieldFeesShare = 0
    BY <1>1, <1>2 DEF SwapFeesShare, YieldFeesShare
<1>4. TotalSupply \in Nat /\ ONE > 0 /\ ONE \in Nat
    BY Supply, Units
<1>5. bptForPoolOwnershipPercentage(TotalSupply, 0) = 0
    BY <1>4, Owed
<1> QED BY <1>1, <1>3, <1>5 DEF PreJoinExitProtocolFees, PostJoinExitProtocolFees

\* An operation that changes neither the invariant nor the supply owes nothing of its own.
LEMMA NothingTraded ==
    ASSUME PoolTypes, Invariant > 0, NEW supply \in Nat \ {0}
    PROVE  PostJoinExitProtocolFees(Invariant, supply, supply) = 0
<1> DEFINE growth == divDown(Invariant, Invariant)
           supplyGrowth == divDown(supply, supply)
           percentage == getProtocolFeePercentageCache("swap")
<1>1. Invariant \in Nat \ {0}
    BY InvariantNow
<1>2. growth \in Nat /\ supplyGrowth \in Nat /\ growth <= ONE /\ supplyGrowth >= ONE /\ ONE \in Nat
  <2>1. \A n \in Nat \ {0} : divDown(n, n) \in Nat /\ divDown(n, n) <= ONE /\ divDown(n, n) >= ONE
      BY Quotients
  <2> QED BY <1>1, <2>1, Units
<1>3. percentage \in 0..ONE
    BY Percentage
<1>4. calcDueProtocolFees(growth, supply, supply, percentage)
        = bptForPoolOwnershipPercentage(supply, getProtocolOwnershipPercentage(growth, supplyGrowth, percentage))
    BY DEF calcDueProtocolFees
<1>5. PostJoinExitProtocolFees(Invariant, supply, supply)
        = IF percentage = 0 THEN 0 ELSE calcDueProtocolFees(growth, supply, supply, percentage)
    BY DEF PostJoinExitProtocolFees
<1> HIDE DEF growth, supplyGrowth, percentage
<1>6. getProtocolOwnershipPercentage(growth, supplyGrowth, percentage) = 0
    BY <1>2, <1>3, Ownership
<1>7. bptForPoolOwnershipPercentage(supply, 0) = 0
    BY <1>2, Units, Owed
<1> QED BY <1>4, <1>5, <1>6, <1>7

\* What BPT are held once fees are paid.
LEMMA Paid ==
    ASSUME bpt \in [lp : Nat, collector : Nat, locked : Nat], NEW fees, NEW lp2
    PROVE  /\ payProtocolFees(bpt, fees) = [bpt EXCEPT !.collector = bpt.collector + fees]
           /\ payProtocolFees([bpt EXCEPT !.lp = lp2], fees)
                = [bpt EXCEPT !.lp = lp2, !.collector = bpt.collector + fees]
BY DEF payProtocolFees

LEMMA OneOnly ==
    ASSUME NEW i \in Tokens, NEW amount \in Nat
    PROVE  Only(i, amount) \in [Tokens -> Nat] /\ (amount = 0 => Only(i, amount) = [j \in Tokens |-> 0])
<1>1. amount # Reverted
    BY DEF Reverted
<1>2. Only(i, amount) = [j \in Tokens |-> IF j = i THEN amount ELSE 0]
    BY <1>1 DEF Only
<1> QED BY <1>2

LEMMA JoinOutcome ==
    ASSUME PoolTypes, Backed, NEW request \in JoinUserData, NEW supply \in Nat \ {0},
           doJoin(request, supply).bpt # Reverted
    PROVE  doJoin(request, supply).bpt \in Nat /\ doJoin(request, supply).amounts \in [Tokens -> Nat]
<1> DEFINE outcome == doJoin(request, supply)
           fee == swapFeePercentage
<1>0. /\ balances \in [Tokens -> Nat \ {0}] /\ fee \in 0..(ONE - 1) /\ fee \in 0..ONE
      /\ supply \in Nat
    BY Backing
<1>1. CASE request.kind = "EXACT_TOKENS_IN_FOR_BPT_OUT"
  <2>1. request.amountsIn \in [Tokens -> Nat] /\ request.minimumBPT \in Nat
      BY <1>1 DEF JoinUserData
  <2> DEFINE out == calcBptOutGivenExactTokensIn(balances, Weights, request.amountsIn, supply, fee)
  <2>2. outcome = IF out < request.minimumBPT THEN Revert
                  ELSE [bpt |-> out, amounts |-> request.amountsIn]
      BY <1>1 DEF doJoin
  <2>3. out \in Nat
      BY <1>0, <2>1, BptOut
  <2> HIDE DEF out
  <2>4. outcome = [bpt |-> out, amounts |-> request.amountsIn]
      BY <2>2 DEF Revert
  <2> QED BY <2>1, <2>3, <2>4
<1>2. CASE request.kind = "TOKEN_IN_FOR_EXACT_BPT_OUT"
  <2>1. request.bptOut \in Nat /\ request.index \in Tokens
      BY <1>2 DEF JoinUserData
  <2> DEFINE in == calcTokenInGivenExactBptOut(balances[request.index], HALF, request.bptOut, supply, fee)
  <2>2. outcome = IF in = Reverted THEN Revert
                  ELSE [bpt |-> request.bptOut, amounts |-> Only(request.index, in)]
      BY <1>2 DEF doJoin
  <2>3. in # Reverted
      BY <2>2 DEF Revert
  <2>4. ~ (divUp(supply + request.bptOut, supply) > MaxInvariantRatio)
      BY <2>3 DEF calcTokenInGivenExactBptOut
  <2>5. in \in Nat
    <3>1. supply + request.bptOut \in Nat /\ MaxInvariantRatio \in Nat
        BY <2>1, PoolAssumption
    <3>2. divUp(supply + request.bptOut, supply) \in Nat
        BY <3>1, Quotients
    <3>3. divUp(supply + request.bptOut, supply) <= MaxInvariantRatio
        BY <2>4, <3>1, <3>2
    <3>4. balances[request.index] \in Nat
        BY <1>0, <2>1
    <3> QED BY <1>0, <2>1, <3>3, <3>4, TokenIn
  <2> HIDE DEF in
  <2>6. Only(request.index, in) \in [Tokens -> Nat]
      BY <2>1, <2>5, OneOnly
  <2> QED BY <2>1, <2>2, <2>3, <2>6
<1>3. CASE request.kind = "ALL_TOKENS_IN_FOR_EXACT_BPT_OUT"
  <2>1. request.bptOut \in Nat
      BY <1>3 DEF JoinUserData
  <2> DEFINE ins == calcAllTokensInGivenExactBptOut(balances, request.bptOut, supply)
  <2>2. outcome = [bpt |-> request.bptOut, amounts |-> ins]
      BY <1>3 DEF doJoin
  <2>3. ins \in [Tokens -> Nat]
      BY <1>0, <2>1, AllTokensIn
  <2> QED BY <2>1, <2>2, <2>3
<1>4. CASE request.kind = "INIT"
    BY <1>4 DEF doJoin, Revert
<1>5. request.kind \in {"INIT", "EXACT_TOKENS_IN_FOR_BPT_OUT", "TOKEN_IN_FOR_EXACT_BPT_OUT",
                        "ALL_TOKENS_IN_FOR_EXACT_BPT_OUT"}
    BY DEF JoinUserData
<1> QED BY <1>1, <1>2, <1>3, <1>4, <1>5

\* Nothing leaves for no BPT.
LEMMA ExitOutcome ==
    ASSUME PoolTypes, Backed, NEW request \in ExitUserData, NEW supply \in Nat \ {0},
           bpt.lp < supply, doExit(request, supply).bpt # Reverted, doExit(request, supply).bpt <= bpt.lp
    PROVE  /\ doExit(request, supply).bpt \in Nat /\ doExit(request, supply).amounts \in [Tokens -> Nat]
           /\ doExit(request, supply).bpt = 0 => doExit(request, supply).amounts = [i \in Tokens |-> 0]
<1> DEFINE outcome == doExit(request, supply)
           fee == swapFeePercentage
<1>0. balances \in [Tokens -> Nat \ {0}] /\ fee \in 0..(ONE - 1) /\ bpt.lp \in Nat
    BY Backing, Supply
<1>1. CASE request.kind = "EXACT_BPT_IN_FOR_ONE_TOKEN_OUT"
  <2>1. request.bptIn \in Nat /\ request.index \in Tokens
      BY <1>1 DEF ExitUserData
  <2> DEFINE out == calcTokenOutGivenExactBptIn(balances[request.index], HALF, request.bptIn, supply, fee)
  <2>2. outcome = IF out = Reverted THEN Revert
                  ELSE [bpt |-> request.bptIn, amounts |-> Only(request.index, out)]
      BY <1>1 DEF doExit
  <2>3. out # Reverted
      BY <2>2 DEF Revert
  <2>4. ~ (divUp(supply - request.bptIn, supply) < MinInvariantRatio)
      BY <2>3 DEF calcTokenOutGivenExactBptIn
  <2>5. outcome = [bpt |-> request.bptIn, amounts |-> Only(request.index, out)]
    <3> HIDE DEF out
    <3> QED BY <2>2, <2>3
  <2>6. request.bptIn <= supply
    <3> HIDE DEF out
    <3>1. outcome.bpt = request.bptIn
        BY <2>5
    <3> QED BY <1>0, <2>1, <3>1
  <2>7. out \in Nat /\ (request.bptIn = 0 => out = 0)
    <3>1. balances[request.index] \in Nat
        BY <1>0, <2>1
    <3> QED BY <1>0, <2>1, <2>4, <2>6, <3>1, TokenOut
  <2> HIDE DEF out
  <2>8. Only(request.index, out) \in [Tokens -> Nat] /\ (out = 0 => Only(request.index, out) = [j \in Tokens |-> 0])
      BY <2>1, <2>7, OneOnly
  <2> QED BY <2>1, <2>5, <2>7, <2>8
<1>2. CASE request.kind = "EXACT_BPT_IN_FOR_TOKENS_OUT"
  <2>1. request.bptIn \in Nat
      BY <1>2 DEF ExitUserData
  <2> DEFINE outs == calcTokensOutGivenExactBptIn(balances, request.bptIn, supply)
  <2>2. outcome = [bpt |-> request.bptIn, amounts |-> outs]
      BY <1>2 DEF doExit
  <2>3. request.bptIn < supply
    <3> HIDE DEF outs
    <3>1. outcome.bpt = request.bptIn
        BY <2>2
    <3> QED BY <1>0, <2>1, <3>1
  <2>4. outs \in [Tokens -> Nat] /\ (request.bptIn = 0 => outs = [i \in Tokens |-> 0])
      BY <1>0, <2>1, <2>3, TokensOut
  <2> HIDE DEF outs
  <2> QED BY <2>1, <2>2, <2>4
<1>3. CASE request.kind = "BPT_IN_FOR_EXACT_TOKENS_OUT"
  <2>1. request.amountsOut \in [Tokens -> Nat]
      BY <1>3 DEF ExitUserData
  <2> DEFINE in == calcBptInGivenExactTokensOut(balances, Weights, request.amountsOut, supply, fee)
  <2>2. outcome = IF in = Reverted \/ in > request.maxBPT THEN Revert
                  ELSE [bpt |-> in, amounts |-> request.amountsOut]
      BY <1>3 DEF doExit
  <2>3. in # Reverted
      BY <2>2 DEF Revert
  <2>4. in \in Nat \ {0}
      BY <1>0, <2>1, <2>3, BptIn
  <2> HIDE DEF in
  <2>5. outcome = [bpt |-> in, amounts |-> request.amountsOut]
      BY <2>2 DEF Revert
  <2> QED BY <2>1, <2>4, <2>5
<1>4. CASE request.kind = "RECOVERY_MODE"
    BY <1>4 DEF doExit, Revert
<1>5. request.kind \in {"EXACT_BPT_IN_FOR_ONE_TOKEN_OUT", "EXACT_BPT_IN_FOR_TOKENS_OUT",
                        "BPT_IN_FOR_EXACT_TOKENS_OUT", "RECOVERY_MODE"}
    BY DEF ExitUserData
<1> QED BY <1>1, <1>2, <1>3, <1>4, <1>5

------------------------------------------------------------------------------
(* The operations keep the invariant.                                      *)

\* What a join or exit leaves: it stores the invariant of the balances it leads to.
LEMMA Settles ==
    ASSUME PoolTypes, Backed, FeesCanBePaid, Operate,
           NEW outcome, outcome.bpt \in Nat, outcome.amounts \in [Tokens -> Nat],
           NEW change \in {1, -1}, bpt.lp + change * outcome.bpt >= 0,
           change = -1 /\ outcome.bpt = 0 => outcome.amounts = [i \in Tokens |-> 0],
           balances' \in [Tokens -> Nat],
           balances' = [i \in Tokens |-> balances[i] + change * outcome.amounts[i]],
           Settle(getActualSupply, outcome, change)
    PROVE  /\ PoolTypes' /\ Backed'
           /\ lastPostJoinExitInvariant' = Invariant' /\ athRateProduct' = RaisedAth
           /\ PaysItsFees
<1> DEFINE supply == getActualSupply
           postSupply == supply + change * outcome.bpt
           isJoin == postSupply >= supply
           postBalances == [i \in Tokens |-> balances[i] + (IF isJoin THEN 1 ELSE -1) * outcome.amounts[i]]
           postInvariant == calculateInvariant(Weights, postBalances)
           post   == PostJoinExitProtocolFees(postInvariant, supply, postSupply)
           minted == supply - TotalSupply + post
<1>1. /\ postInvariant > 0
      /\ bpt' = [bpt EXCEPT !.lp = bpt.lp + change * outcome.bpt, !.collector = bpt.collector + minted]
      /\ lastPostJoinExitInvariant' = postInvariant
      /\ athRateProduct' = RaisedAth
      /\ cache' = cache
    BY Paid DEF Settle, updatePostJoinExit, PoolTypes
<1>2. /\ supply \in Nat \ {0} /\ supply - TotalSupply \in Nat
      /\ TotalSupply \in Nat /\ bpt.lp \in Nat /\ bpt.lp < TotalSupply /\ bpt.lp < supply
      /\ bpt.collector \in Nat
    BY Due, Supply
<1> HIDE DEF supply
<1>3. postSupply \in Nat /\ change * outcome.bpt \in Int /\ bpt.lp + change * outcome.bpt \in Nat
    BY <1>2
<1>4. postBalances = balances'
  <2>1. CASE change = 1
    <3>1. isJoin
        BY <1>2, <2>1
    <3> HIDE DEF isJoin
    <3> QED BY <2>1, <3>1
  <2>2. CASE change = -1 /\ outcome.bpt = 0
    <3>1. outcome.amounts = [i \in Tokens |-> 0]
        BY <2>2
    <3>2. \A i \in Tokens : balances[i] \in Nat
        BY DEF PoolTypes
    <3>3. \A i \in Tokens : balances[i] + (IF isJoin THEN 1 ELSE -1) * outcome.amounts[i] = balances[i]
      <4> HIDE DEF isJoin
      <4> QED BY <3>1, <3>2
    <3>4. \A i \in Tokens : balances[i] + change * outcome.amounts[i] = balances[i]
        BY <2>2, <3>1, <3>2
    <3> HIDE DEF isJoin
    <3> QED BY <3>3, <3>4
  <2>3. CASE change = -1 /\ outcome.bpt # 0
    <3>1. ~ isJoin
        BY <1>2, <2>3
    <3> HIDE DEF isJoin
    <3> QED BY <2>3, <3>1
  <2> QED BY <2>1, <2>2, <2>3
<1> HIDE DEF postBalances, postSupply
<1>5. /\ postInvariant = Invariant' /\ postInvariant \in Nat
      /\ balances'[1] > 0 /\ balances'[2] > 0
  <2>1. postInvariant = calculateInvariant(Weights, balances')
      BY <1>4
  <2>2. Invariant' = calculateInvariant(Weights, balances')
      BY DEF Invariant
  <2> DEFINE b == balances'
  <2>3. b \in [Tokens -> Nat] /\ postInvariant = calculateInvariant(Weights, b)
      BY <2>1
  <2> HIDE DEF b, postInvariant
  <2>4. /\ calculateInvariant(Weights, b) \in Nat
        /\ calculateInvariant(Weights, b) > 0 => b[1] > 0 /\ b[2] > 0
      BY <2>3, InvariantIs
  <2>5. postInvariant \in Nat /\ b[1] > 0 /\ b[2] > 0
      BY <1>1, <2>3, <2>4
  <2> QED BY <2>1, <2>2, <2>5 DEF b
<1> HIDE DEF postInvariant
<1>6. post \in Nat
  <2>1. CASE getProtocolFeePercentageCache("swap") = 0
      BY <2>1 DEF PostJoinExitProtocolFees
  <2>2. CASE getProtocolFeePercentageCache("swap") # 0
    <3> DEFINE growth == divDown(postInvariant, Invariant)
               percentage == getProtocolFeePercentageCache("swap")
    <3>1. post = calcDueProtocolFees(growth, supply, postSupply, percentage)
        BY <2>2 DEF PostJoinExitProtocolFees
    <3>2. Invariant \in Nat \ {0}
        BY InvariantNow DEF FeesCanBePaid
    <3>3. growth \in Nat
        BY <1>5, <3>2, Quotients
    <3>4. percentage \in 0..HALF
        BY Percentage
    <3> HIDE DEF growth, percentage
    <3> QED BY <1>2, <1>3, <3>1, <3>3, <3>4, DueFees
  <2> QED BY <2>1, <2>2
<1>12. post = PostJoinExitProtocolFees(Invariant', supply, postSupply)
    BY <1>5
<1> HIDE DEF post
<1>7. minted \in Nat /\ minted = PreJoinExitProtocolFees + post
    BY <1>2, <1>6, Due DEF supply
<1> HIDE DEF minted
<1>8. /\ bpt' \in [lp : Nat, collector : Nat, locked : Nat] /\ bpt'.locked = bpt.locked
      /\ bpt'.lp = bpt.lp + change * outcome.bpt /\ bpt'.collector = bpt.collector + minted
  <2> DEFINE lp2 == bpt.lp + change * outcome.bpt
             collector2 == bpt.collector + minted
  <2>1. lp2 \in Nat /\ collector2 \in Nat
      BY <1>2, <1>3, <1>7
  <2>2. bpt' = [bpt EXCEPT !.lp = lp2, !.collector = collector2]
      BY <1>1
  <2> HIDE DEF lp2, collector2
  <2>3. /\ bpt' \in [lp : Nat, collector : Nat, locked : Nat] /\ bpt'.locked = bpt.locked
        /\ bpt'.lp = lp2 /\ bpt'.collector = collector2
      BY <2>1, <2>2 DEF PoolTypes
  <2> QED BY <2>3 DEF lp2, collector2
<1>9. RaisedAth \in Nat /\ RaisedAth > 0
    BY Raised DEF PoolTypes
<1>10. PoolTypes'
    BY <1>1, <1>5, <1>8, <1>9 DEF PoolTypes, Operate, modeVars, outsideVars
<1>11. Backed'
    BY <1>1, <1>5, <1>8, <1>9 DEF Backed, Tokens
<1>13. PaysItsFees
  <2>1. supply + (bpt'.lp - bpt.lp) = postSupply
      BY <1>2, <1>3, <1>8 DEF postSupply
  <2>2. PreJoinExitProtocolFees \in Nat
      BY Due
  <2>3. bpt'.collector >= bpt.collector + PreJoinExitProtocolFees + post
      BY <1>2, <1>6, <1>7, <1>8, <2>2
  <2> QED BY <1>12, <2>1, <2>3 DEF PaysItsFees, supply
<1> QED BY <1>1, <1>5, <1>10, <1>11, <1>13

\* What every step is to keep, and what joins, exits and a refreshed cache leave.
Settled ==
    /\ PoolTypes' /\ Backed'
    /\ Invariant' = lastPostJoinExitInvariant' /\ RateProduct' <= athRateProduct'
    /\ Initialized => athRateProduct' >= athRateProduct
    /\ Initialized => PaysItsFees

LEMMA JoinSettles ==
    ASSUME PoolInv, NEW request \in JoinUserData, join(request)
    PROVE  Settled
<1>0. PoolTypes
    BY DEF PoolInv
<1>1. rate' = rate /\ rate \in Rates /\ RateProduct' = RateProduct
    BY <1>0 DEF join, Operate, outsideVars, PoolTypes, RateProduct
<1>2. CASE ~Initialized /\ onInitializePool(request) /\ joinPool(request.amountsIn)
  <2> DEFINE b == balances'
             invariant == calculateInvariant(Weights, request.amountsIn)
  <2>1. request.amountsIn \in [Tokens -> Nat]
      BY <1>2 DEF onInitializePool, JoinUserData
  <2>2. \A i \in Tokens : balances[i] = 0
      BY <1>2, Supply, <1>0 DEF Empty
  <2>3. b = request.amountsIn
      BY <1>2, <2>1, <2>2 DEF joinPool
  <2>4. /\ invariant > 0 /\ 2 * invariant >= MinimumBpt
        /\ bpt' = mintInitial(2 * invariant) /\ lastPostJoinExitInvariant' = invariant
        /\ athRateProduct' = RateProduct /\ cache' = cache
      BY <1>2 DEF onInitializePool
  <2>5. invariant \in Nat /\ b[1] > 0 /\ b[2] > 0 /\ b \in [Tokens -> Nat]
      BY <2>1, <2>3, <2>4, InvariantIs
  <2>6. Invariant' = invariant
      BY <2>3 DEF Invariant
  <2> HIDE DEF b, invariant
  <2>7. MinimumBpt \in Nat
      BY PoolAssumption
  <2>8. bpt' \in [lp : Nat, collector : Nat, locked : Nat] /\ bpt'.locked = MinimumBpt
      BY <2>4, <2>5, <2>7 DEF mintInitial
  <2>9. RateProduct \in Nat /\ RateProduct > 0
      BY <1>1, RateProductIs
  <2>10. PoolTypes'
      BY <1>0, <2>4, <2>5, <2>8, <2>9 DEF PoolTypes, join, Operate, modeVars, outsideVars, b
  <2>11. Backed'
      BY <2>4, <2>5, <2>8, <2>9 DEF Backed, Tokens, b
  <2> QED BY <1>1, <1>2, <2>4, <2>6, <2>9, <2>10, <2>11 DEF Settled
<1>3. CASE Initialized /\ FeesCanBePaid
           /\ LET outcome == doJoin(request, getActualSupply)
              IN  outcome.bpt # Reverted /\ Settle(getActualSupply, outcome, 1) /\ joinPool(outcome.amounts)
  <2> DEFINE outcome == doJoin(request, getActualSupply)
  <2>1. Backed /\ FeesCanBePaid
      BY <1>0, <1>3, Supply
  <2>2. getActualSupply \in Nat \ {0}
      BY <1>0, <2>1, Due
  <2>3. outcome.bpt \in Nat /\ outcome.amounts \in [Tokens -> Nat]
      BY <1>0, <1>3, <2>1, <2>2, JoinOutcome
  <2>4. Settle(getActualSupply, outcome, 1) /\ joinPool(outcome.amounts)
      BY <1>3
  <2> HIDE DEF outcome
  <2>5. balances \in [Tokens -> Nat] /\ bpt.lp \in Nat
      BY <1>0, Supply DEF PoolTypes
  <2>6. balances' = [i \in Tokens |-> balances[i] + 1 * outcome.amounts[i]] /\ balances' \in [Tokens -> Nat]
      BY <2>3, <2>4, <2>5 DEF joinPool
  <2>7. bpt.lp + 1 * outcome.bpt >= 0 /\ 1 # -1
      BY <2>3, <2>5
  <2>8. Operate
      BY DEF join
  <2>9. /\ PoolTypes' /\ Backed'
        /\ lastPostJoinExitInvariant' = Invariant' /\ athRateProduct' = RaisedAth
        /\ PaysItsFees
      BY <1>0, <2>1, <2>3, <2>4, <2>6, <2>7, <2>8, Settles
  <2>10. RaisedAth >= athRateProduct /\ RaisedAth >= RateProduct /\ RateProduct \in Nat /\ RaisedAth \in Nat
      BY <1>0, <1>1, Raised, RateProductIs DEF PoolTypes
  <2> QED BY <1>1, <2>9, <2>10 DEF Settled
<1> QED BY <1>2, <1>3 DEF join

LEMMA ExitSettles ==
    ASSUME PoolInv, NEW request \in ExitUserData, exit(request)
    PROVE  Settled
<1> DEFINE outcome == doExit(request, getActualSupply)
<1>0. PoolTypes /\ Initialized /\ FeesCanBePaid /\ Operate
    BY DEF PoolInv, exit
<1>1. rate' = rate /\ rate \in Rates /\ RateProduct' = RateProduct
    BY <1>0 DEF Operate, outsideVars, PoolTypes, RateProduct
<1>2. Backed
    BY <1>0, Supply
<1>3. getActualSupply \in Nat \ {0} /\ bpt.lp < getActualSupply /\ bpt.lp \in Nat
    BY <1>0, <1>2, Due, Supply
<1>4. /\ outcome.bpt # Reverted /\ outcome.bpt <= bpt.lp
      /\ Settle(getActualSupply, outcome, -1) /\ exitPool(outcome.amounts)
    BY DEF exit
<1>5. /\ outcome.bpt \in Nat /\ outcome.amounts \in [Tokens -> Nat]
      /\ outcome.bpt = 0 => outcome.amounts = [i \in Tokens |-> 0]
    BY <1>0, <1>2, <1>3, <1>4, ExitOutcome
<1> HIDE DEF outcome
<1>6. balances \in [Tokens -> Nat] /\ \A i \in Tokens : outcome.amounts[i] <= balances[i]
    BY <1>0, <1>4 DEF PoolTypes, exitPool
<1>7. balances' = [i \in Tokens |-> balances[i] - outcome.amounts[i]]
    BY <1>4 DEF exitPool
<1>8. balances' = [i \in Tokens |-> balances[i] + -1 * outcome.amounts[i]] /\ balances' \in [Tokens -> Nat]
    BY <1>5, <1>6, <1>7
<1>9. bpt.lp + -1 * outcome.bpt >= 0
    BY <1>3, <1>4, <1>5
<1>10. /\ PoolTypes' /\ Backed'
       /\ lastPostJoinExitInvariant' = Invariant' /\ athRateProduct' = RaisedAth
       /\ PaysItsFees
    BY <1>0, <1>2, <1>4, <1>5, <1>8, <1>9, Settles
<1>11. RaisedAth >= athRateProduct /\ RaisedAth >= RateProduct
    BY <1>0, <1>1, Raised DEF PoolTypes
<1> QED BY <1>1, <1>10, <1>11 DEF Settled

\* The highest rate product never falls; what growth is measured by, or the BPT of lp, change
\* only in a step that pays, but when Recovery Mode is disabled; and the BPT of lp or the
\* cache change, but for exits in Recovery Mode, only in a step that settles.
KeepsFees ==
    /\ Initialized => athRateProduct' >= athRateProduct
    /\ (bpt.lp' # bpt.lp \/ cache' # cache) /\ ~recoveryMode => Settled
    /\ Initialized /\ (bpt'.lp # bpt.lp \/ feeVars' # feeVars) => PaysItsFees \/ disableRecoveryMode

LEMMA SettledKeeps == ASSUME Settled PROVE PoolInv' /\ KeepsFees
BY DEF Settled, PoolInv, KeepsFees

LEMMA RecoveryExitKeeps ==
    ASSUME PoolInv, NEW request \in ExitUserData, recoveryModeExit(request)
    PROVE  PoolInv' /\ KeepsFees
<1> DEFINE outs == calcTokensOutGivenExactBptIn(balances, request.bptIn, TotalSupply)
<1>0. PoolTypes /\ Backed /\ recoveryMode
    BY Supply DEF PoolInv, recoveryModeExit
<1>1. /\ request.bptIn \in Nat /\ request.bptIn <= bpt.lp /\ bpt.lp \in Nat
      /\ TotalSupply \in Nat \ {0} /\ bpt.lp < TotalSupply
      /\ balances \in [Tokens -> Nat \ {0}]
    BY <1>0, Supply, Backing DEF recoveryModeExit, ExitUserData
<1>2. request.bptIn < TotalSupply
    BY <1>1
<1>3. outs \in [Tokens -> Nat] /\ \A i \in Tokens : outs[i] < balances[i]
    BY <1>1, <1>2, TokensOut
<1>4. /\ balances' = [i \in Tokens |-> balances[i] - outs[i]]
      /\ bpt' = [bpt EXCEPT !.lp = bpt.lp - request.bptIn]
      /\ UNCHANGED feeVars /\ UNCHANGED <<modeVars, outsideVars>>
    BY DEF recoveryModeExit, exitPool, Operate
<1> HIDE DEF outs
<1>5. balances' \in [Tokens -> Nat] /\ \A i \in Tokens : balances'[i] > 0
    BY <1>1, <1>3, <1>4
<1>6. bpt' \in [lp : Nat, collector : Nat, locked : Nat] /\ bpt'.locked = bpt.locked
    BY <1>0, <1>1, <1>4 DEF PoolTypes
<1>7. PoolTypes'
    BY <1>0, <1>4, <1>5, <1>6 DEF PoolTypes, feeVars, modeVars, outsideVars
<1>8. Backed'
    BY <1>0, <1>4, <1>5, <1>6 DEF Backed, feeVars
<1>9. PaysItsFees
  <2>1. bpt'.collector = bpt.collector /\ bpt.collector \in Nat
      BY <1>0, <1>4 DEF PoolTypes
  <2> QED BY <1>0, <2>1, RecoveryIsFree DEF PaysItsFees
<1>10. KeepsFees
    BY <1>0, <1>4, <1>9 DEF KeepsFees, feeVars, PoolTypes
<1> QED BY <1>7, <1>8, <1>10 DEF PoolInv

\* Of a swap that does not revert, what goes out is less than there is.
LEMMA SwapAmountsAre ==
    ASSUME PoolTypes, Backed, NEW token \in Tokens, NEW amount \in Nat,
           NEW kind \in {"GIVEN_IN", "GIVEN_OUT"},
           onSwap(buildSwapParams(kind, token, amount)) # Reverted
    PROVE  /\ onSwap(buildSwapParams(kind, token, amount)) \in Nat
           /\ Other(token) \in Tokens /\ Other(token) # token
           /\ kind = "GIVEN_IN" => onSwap(buildSwapParams(kind, token, amount)) < balances[Other(token)]
           /\ kind = "GIVEN_OUT" => amount < balances[Other(token)]
<1> DEFINE params == buildSwapParams(kind, token, amount)
           balanceIn  == balances[token]
           balanceOut == balances[Other(token)]
<1>0. Other(token) \in Tokens /\ Other(token) # token
    BY DEF Tokens, Other
<1>1. /\ balanceIn \in Nat \ {0} /\ balanceOut \in Nat \ {0}
      /\ swapFeePercentage \in 0..(ONE - 1) /\ swapFeePercentage \in Nat
    BY <1>0, Backing, Units
<1>2. /\ params.kind = kind /\ params.amount = amount
      /\ params.balanceTokenIn = balanceIn /\ params.balanceTokenOut = balanceOut
    BY DEF buildSwapParams
<1> HIDE DEF params, balanceIn, balanceOut
<1>3. CASE kind = "GIVEN_IN"
  <2> DEFINE given == SubtractSwapFee(amount)
  <2>1. onSwap(params) = calcOutGivenIn(balanceIn, HALF, balanceOut, HALF, given)
      BY <1>2, <1>3 DEF onSwap
  <2>2. given \in Nat
    <3>1. swapFeePercentage <= ONE
        BY <1>1, Units
    <3>2. mulUp(amount, swapFeePercentage) \in Nat /\ mulUp(amount, swapFeePercentage) <= amount
        BY <1>1, <3>1, Products
    <3> QED BY <3>2 DEF SubtractSwapFee
  <2> HIDE DEF given
  <2>3. onSwap(params) # Reverted
      BY DEF params
  <2>4. given <= mulDown(balanceIn, MaxInRatio)
    <3>1. mulDown(balanceIn, MaxInRatio) \in Nat
        BY <1>1, SwapLimits
    <3>2. ~ (given > mulDown(balanceIn, MaxInRatio))
        BY <2>1, <2>3 DEF calcOutGivenIn
    <3> QED BY <2>2, <3>1, <3>2
  <2>5. onSwap(params) \in Nat /\ onSwap(params) < balanceOut
      BY <1>1, <2>1, <2>2, <2>4, OutGivenIn
  <2> QED BY <1>0, <1>3, <2>5 DEF params, balanceOut
<1>4. CASE kind = "GIVEN_OUT"
  <2> DEFINE in == calcInGivenOut(balanceIn, HALF, balanceOut, HALF, amount)
  <2>1. onSwap(params) = IF in = Reverted THEN Reverted ELSE AddSwapFee(in)
      BY <1>2, <1>4 DEF onSwap
  <2>2. onSwap(params) # Reverted
      BY DEF params
  <2>3. in # Reverted
      BY <2>1, <2>2
  <2>4. amount <= mulDown(balanceOut, MaxOutRatio)
    <3>1. mulDown(balanceOut, MaxOutRatio) \in Nat
        BY <1>1, SwapLimits
    <3>2. ~ (amount > mulDown(balanceOut, MaxOutRatio))
        BY <2>3 DEF calcInGivenOut
    <3> QED BY <3>1, <3>2
  <2>5. in \in Nat /\ amount < balanceOut
      BY <1>1, <2>4, InGivenOut
  <2> HIDE DEF in
  <2>6. AddSwapFee(in) \in Nat
    <3>1. complement(swapFeePercentage) \in Nat \ {0}
        BY <1>1, Complement, Units
    <3> QED BY <2>5, <3>1, Quotients DEF AddSwapFee
  <2> QED BY <1>0, <1>4, <2>1, <2>3, <2>5, <2>6 DEF params, balanceOut
<1> QED BY <1>3, <1>4

LEMMA SwapKeeps ==
    ASSUME PoolInv, NEW token \in Tokens, NEW amount \in Nat,
           NEW kind \in {"GIVEN_IN", "GIVEN_OUT"}, swap(buildSwapParams(kind, token, amount))
    PROVE  PoolInv' /\ KeepsFees
<1> DEFINE params == buildSwapParams(kind, token, amount)
           calculated == onSwap(params)
           in  == IF kind = "GIVEN_IN" THEN amount ELSE calculated
           out == IF kind = "GIVEN_IN" THEN calculated ELSE amount
           other == Other(token)
<1>0. PoolTypes /\ Backed
    BY Supply DEF PoolInv, swap
<1>1. params.kind = kind /\ params.amount = amount /\ params.tokenIn = token /\ params.tokenOut = other
    BY DEF buildSwapParams
<1>2. /\ calculated # Reverted
      /\ balances' = [balances EXCEPT ![token] = balances[token] + in, ![other] = balances[other] - out]
      /\ UNCHANGED <<bpt, feeVars>> /\ UNCHANGED <<modeVars, outsideVars>>
    BY <1>1 DEF swap, Operate
<1>3. /\ calculated \in Nat /\ other \in Tokens /\ other # token
      /\ kind = "GIVEN_IN" => calculated < balances[other]
      /\ kind = "GIVEN_OUT" => amount < balances[other]
    BY <1>0, <1>2, SwapAmountsAre
<1> HIDE DEF calculated, other
<1>4. in \in Nat /\ out \in Nat /\ out < balances[other]
    BY <1>3
<1> HIDE DEF in, out
<1>5. /\ balances \in [Tokens -> Nat \ {0}]
      /\ balances[token] \in Nat \ {0} /\ balances[other] \in Nat \ {0}
    BY <1>0, <1>3, Backing
<1>6. balances' \in [Tokens -> Nat] /\ \A i \in Tokens : balances'[i] > 0
  <2>1. balances[token] + in \in Nat \ {0} /\ balances[other] - out \in Nat \ {0}
      BY <1>4, <1>5
  <2>2. balances' \in [Tokens -> Nat \ {0}]
      BY <1>2, <1>5, <2>1
  <2> QED BY <2>2
<1>7. PoolTypes'
    BY <1>0, <1>2, <1>6 DEF PoolTypes, feeVars, modeVars, outsideVars
<1>8. Backed'
    BY <1>0, <1>2, <1>6 DEF Backed, feeVars
<1>9. KeepsFees
    BY <1>0, <1>2 DEF KeepsFees, feeVars, PoolTypes
<1> QED BY <1>7, <1>8, <1>9 DEF PoolInv

\* Refreshing the cache needs the Pool to be there: without tokens its invariant is zero.
LEMMA RefreshKeeps ==
    ASSUME PoolInv, UpdateProtocolFeePercentageCache
    PROVE  PoolInv' /\ KeepsFees
<1>0. PoolTypes /\ FeesCanBePaid
    BY DEF PoolInv, UpdateProtocolFeePercentageCache
<1>1. Invariant \in Nat /\ Invariant > 0 /\ \A i \in Tokens : balances[i] > 0
    BY <1>0, InvariantNow DEF FeesCanBePaid
<1>2. Backed
    BY <1>0, <1>1 DEF PoolInv, Empty, Tokens
<1>3. PreJoinExitProtocolFees \in Nat /\ bpt.collector \in Nat
    BY <1>0, <1>2, Due, Supply
<1>4. /\ bpt' = [bpt EXCEPT !.collector = bpt.collector + PreJoinExitProtocolFees]
      /\ lastPostJoinExitInvariant' = Invariant /\ athRateProduct' = RaisedAth /\ cache' = provider
      /\ UNCHANGED balances /\ UNCHANGED <<modeVars, outsideVars>>
    BY <1>0, Paid DEF UpdateProtocolFeePercentageCache, Administer, PoolTypes
<1>5. /\ RaisedAth \in Nat /\ RaisedAth > 0 /\ RaisedAth >= athRateProduct /\ RaisedAth >= RateProduct
      /\ rate \in Rates
    BY <1>0, Raised DEF PoolTypes
<1>6. bpt' \in [lp : Nat, collector : Nat, locked : Nat] /\ bpt'.locked = bpt.locked
    BY <1>0, <1>3, <1>4 DEF PoolTypes
<1>7. PoolTypes'
    BY <1>0, <1>1, <1>4, <1>5, <1>6 DEF PoolTypes, modeVars, outsideVars
<1>8. Backed'
    BY <1>1, <1>2, <1>4, <1>5, <1>6 DEF Backed
<1>9. Invariant' = Invariant /\ RateProduct' = RateProduct
    BY <1>4 DEF Invariant, RateProduct, outsideVars
<1>10. PaysItsFees
  <2>1. /\ bpt'.collector = bpt.collector + PreJoinExitProtocolFees
        /\ bpt'.lp = bpt.lp /\ bpt.lp \in Nat
      BY <1>0, <1>4 DEF PoolTypes
  <2>2. getActualSupply \in Nat \ {0}
      BY <1>0, <1>2, Due
  <2>3. getActualSupply + (bpt'.lp - bpt.lp) = getActualSupply
      BY <2>1, <2>2
  <2>4. PostJoinExitProtocolFees(Invariant', getActualSupply, getActualSupply) = 0
      BY <1>0, <1>1, <1>9, <2>2, NothingTraded
  <2> QED BY <1>3, <2>1, <2>3, <2>4 DEF PaysItsFees
<1>11. Settled
    BY <1>4, <1>5, <1>7, <1>8, <1>9, <1>10 DEF Settled
<1> QED BY <1>11, SettledKeeps

LEMMA SwapFeeKeeps ==
    ASSUME PoolInv, NEW fee \in SwapFees, SetSwapFeePercentage(fee)
    PROVE  PoolInv' /\ KeepsFees
<1>0. fee \in Nat /\ MaxSwapFee \in Nat
    BY PoolAssumption
<1>1. fee \in 0..MaxSwapFee
    BY <1>0 DEF SetSwapFeePercentage
<1>2. /\ balances' = balances /\ swapFeePercentage' = fee
      /\ UNCHANGED <<bpt, feeVars, recoveryMode, stopped, outsideVars>>
    BY DEF SetSwapFeePercentage, Administer
<1>3. PoolTypes'
    BY <1>1, <1>2 DEF PoolInv, PoolTypes, feeVars, outsideVars
<1>4. Empty' \/ Backed'
    BY <1>2 DEF PoolInv, Empty, Backed, TotalSupply, feeVars
<1>5. KeepsFees
    BY <1>2 DEF KeepsFees, feeVars, PoolInv, PoolTypes
<1> QED BY <1>3, <1>4, <1>5 DEF PoolInv

\* A Pool without tokens cannot leave Recovery Mode.
LEMMA RecoveryModeKeeps ==
    ASSUME PoolInv, NEW enabled \in BOOLEAN, SetRecoveryMode(enabled)
    PROVE  PoolInv' /\ KeepsFees
<1>1. /\ balances' = balances /\ recoveryMode' = enabled
      /\ UNCHANGED <<bpt, swapFeePercentage, stopped, outsideVars>>
    BY DEF SetRecoveryMode, Administer
<1>2. CASE enabled
  <2>1. UNCHANGED feeVars
      BY <1>2 DEF SetRecoveryMode
  <2>2. PoolTypes'
      BY <1>1, <2>1 DEF PoolInv, PoolTypes, feeVars, outsideVars
  <2>3. Empty' \/ Backed'
      BY <1>1, <2>1 DEF PoolInv, Empty, Backed, TotalSupply, feeVars
  <2>4. KeepsFees
      BY <1>1, <2>1 DEF KeepsFees, feeVars, PoolInv, PoolTypes
  <2> QED BY <2>2, <2>3, <2>4 DEF PoolInv
<1>3. CASE ~enabled
  <2>1. /\ Invariant > 0 /\ lastPostJoinExitInvariant' = Invariant
        /\ athRateProduct' = RaisedAth /\ cache' = cache
      BY <1>3 DEF SetRecoveryMode, OnDisableRecoveryMode, AthOnDisable
  <2>2. PoolTypes /\ Invariant \in Nat /\ \A i \in Tokens : balances[i] > 0
      BY <2>1, InvariantNow DEF PoolInv
  <2>3. Backed
      BY <2>2 DEF PoolInv, Empty, Tokens
  <2>4. RaisedAth \in Nat /\ RaisedAth > 0 /\ RaisedAth >= athRateProduct
      BY <2>2, Raised DEF PoolTypes
  <2>5. PoolTypes'
      BY <1>1, <2>1, <2>2, <2>4 DEF PoolTypes, outsideVars
  <2>6. Backed'
      BY <1>1, <2>1, <2>3, <2>4 DEF Backed
  <2>7. KeepsFees
      BY <1>1, <1>3, <2>1, <2>4 DEF KeepsFees, disableRecoveryMode
  <2> QED BY <2>5, <2>6, <2>7 DEF PoolInv
<1> QED BY <1>2, <1>3

LEMMA OtherAdministrationKeeps ==
    ASSUME PoolInv, UNCHANGED <<balances, bpt, feeVars, swapFeePercentage, recoveryMode>>,
           provider' \in Percentages, rate' \in Rates
    PROVE  PoolInv' /\ KeepsFees
<1>1. PoolTypes'
    BY DEF PoolInv, PoolTypes, feeVars
<1>2. Empty' \/ Backed'
    BY DEF PoolInv, Empty, Backed, TotalSupply, feeVars
<1>3. KeepsFees
    BY DEF KeepsFees, feeVars, PoolInv, PoolTypes
<1> QED BY <1>1, <1>2, <1>3 DEF PoolInv

LEMMA PauseKeeps ==
    ASSUME PoolInv, NEW newPaused, SetPaused(newPaused)
    PROVE  PoolInv' /\ KeepsFees
<1>1. /\ UNCHANGED <<balances, bpt, feeVars, swapFeePercentage, recoveryMode>>
      /\ provider' = provider /\ rate' = rate
    BY DEF SetPaused, Administer, outsideVars
<1> QED BY <1>1, OtherAdministrationKeeps DEF PoolInv, PoolTypes

LEMMA ProviderKeeps ==
    ASSUME PoolInv, NEW feeType \in {"swap", "yield"}, NEW percentage \in FeePercentages,
           setFeeTypePercentage(feeType, percentage)
    PROVE  PoolInv' /\ KeepsFees
<1>1. /\ UNCHANGED <<balances, bpt, feeVars, swapFeePercentage, recoveryMode>>
      /\ provider' = [provider EXCEPT ![feeType] = percentage] /\ rate' = rate
    BY DEF setFeeTypePercentage, Administer, modeVars
<1>2. percentage \in 0..getFeeTypeMaximumPercentage(feeType)
  <2>1. percentage \in Nat
      BY PoolAssumption
  <2>2. getFeeTypeMaximumPercentage(feeType) \in Nat
      BY Units DEF getFeeTypeMaximumPercentage
  <2> QED BY <2>1, <2>2 DEF setFeeTypePercentage
<1>3. provider \in Percentages /\ rate \in Rates
    BY DEF PoolInv, PoolTypes
<1>4. provider' \in Percentages
  <2>1. CASE feeType = "swap"
      BY <1>1, <1>2, <1>3, <2>1 DEF Percentages
  <2>2. CASE feeType = "yield"
      BY <1>1, <1>2, <1>3, <2>2 DEF Percentages
  <2> QED BY <2>1, <2>2
<1> QED BY <1>1, <1>3, <1>4, OtherAdministrationKeeps

LEMMA RateKeeps ==
    ASSUME PoolInv, NEW newRate \in Rates, RateChanges(newRate)
    PROVE  PoolInv' /\ KeepsFees
<1>1. /\ UNCHANGED <<balances, bpt, feeVars, swapFeePercentage, recoveryMode>>
      /\ provider' = provider /\ rate' = newRate
    BY DEF RateChanges, Administer, modeVars
<1> QED BY <1>1, OtherAdministrationKeeps DEF PoolInv, PoolTypes

\* The requests that PoolNext chooses from are unsigned, those for all of lp's BPT too.
LEMMA ExitRequestsAre ==
    ASSUME PoolTypes
    PROVE  /\ ExitRequests \cup {buildMultiExitGivenInParams(bpt.lp)} \subseteq ExitUserData
           /\ ExitRequests \cup {buildRecoveryModeExitParams(bpt.lp)} \subseteq ExitUserData
<1>1. bpt.lp \in Nat /\ ExitRequests \subseteq ExitUserData
    BY Supply, PoolAssumption
<1>2. ASSUME NEW bptIn \in Nat
      PROVE  buildMultiExitGivenInParams(bptIn) \in ExitUserData /\ buildRecoveryModeExitParams(bptIn) \in ExitUserData
    BY DEF buildMultiExitGivenInParams, buildRecoveryModeExitParams, exitExactBPTInForTokensOut,
           exitInRecoveryMode, ExitUserData
<1> QED BY <1>1, <1>2

LEMMA PoolStep ==
    ASSUME PoolInv, [PoolNext]_poolVars
    PROVE  PoolInv' /\ KeepsFees
<1>0. PoolTypes
    BY DEF PoolInv
<1>1. ASSUME NEW request \in JoinRequests, join(request) PROVE PoolInv' /\ KeepsFees
    BY <1>1, JoinSettles, SettledKeeps, PoolAssumption
<1>2. ASSUME NEW request \in ExitRequests \cup {buildMultiExitGivenInParams(bpt.lp)}, exit(request)
      PROVE  PoolInv' /\ KeepsFees
    BY <1>0, <1>2, ExitSettles, SettledKeeps, ExitRequestsAre
<1>3. ASSUME NEW request \in ExitRequests \cup {buildRecoveryModeExitParams(bpt.lp)}, recoveryModeExit(request)
      PROVE  PoolInv' /\ KeepsFees
    BY <1>0, <1>3, RecoveryExitKeeps, ExitRequestsAre
<1>4. ASSUME NEW token \in Tokens, NEW amount \in SwapAmounts,
             swapGivenIn(token, amount) \/ swapGivenOut(token, amount)
      PROVE  PoolInv' /\ KeepsFees
  <2>1. amount \in Nat
      BY PoolAssumption
  <2> QED BY <1>4, <2>1, SwapKeeps DEF swapGivenIn, swapGivenOut
<1>5. CASE UpdateProtocolFeePercentageCache
    BY <1>5, RefreshKeeps
<1>6. ASSUME NEW fee \in SwapFees, SetSwapFeePercentage(fee) PROVE PoolInv' /\ KeepsFees
    BY <1>6, SwapFeeKeeps
<1>7. CASE enableRecoveryMode \/ disableRecoveryMode
    BY <1>7, RecoveryModeKeeps DEF enableRecoveryMode, disableRecoveryMode
<1>8. CASE pause \/ unpause
    BY <1>8, PauseKeeps DEF pause, unpause
<1>9. ASSUME NEW feeType \in {"swap", "yield"}, NEW percentage \in FeePercentages,
             setFeeTypePercentage(feeType, percentage)
      PROVE  PoolInv' /\ KeepsFees
    BY <1>9, ProviderKeeps
<1>10. ASSUME NEW newRate \in Rates, RateChanges(newRate) PROVE PoolInv' /\ KeepsFees
    BY <1>10, RateKeeps
<1>11. CASE UNCHANGED poolVars
    BY <1>0, <1>11, OtherAdministrationKeeps DEF poolVars, modeVars, outsideVars, PoolTypes
<1> QED BY <1>1, <1>2, <1>3, <1>4, <1>5, <1>6, <1>7, <1>8, <1>9, <1>10, <1>11 DEF PoolNext

LEMMA PoolStart == PoolInit => PoolInv
<1> SUFFICES ASSUME PoolInit PROVE PoolInv
    OBVIOUS
<1>1. balances \in [Tokens -> Nat] /\ \A i \in Tokens : balances[i] = 0
    BY DEF PoolInit, Tokens
<1>2. bpt = [lp |-> 0, collector |-> 0, locked |-> 0] /\ lastPostJoinExitInvariant = 0
    BY DEF PoolInit
<1>3. MaxSwapFee \in Nat /\ InitialFees \subseteq Percentages
    BY PoolAssumption
<1>4. PoolTypes
  <2>1. bpt \in [lp : Nat, collector : Nat, locked : Nat] /\ lastPostJoinExitInvariant \in Nat
      BY <1>2
  <2>2. athRateProduct \in Nat /\ recoveryMode \in BOOLEAN /\ rate \in Rates
      BY DEF PoolInit
  <2>3. cache \in Percentages /\ provider \in Percentages /\ swapFeePercentage \in 0..MaxSwapFee
      BY <1>3 DEF PoolInit
  <2> QED BY <1>1, <2>1, <2>2, <2>3 DEF PoolTypes
<1>5. Empty
    BY <1>1, <1>2 DEF Empty, TotalSupply
<1> QED BY <1>4, <1>5 DEF PoolInv

\* In every state a Pool is either empty or backed.
THEOREM PoolInvariant == PoolSpec => []PoolInv
BY PoolStart, PoolStep, PTL DEF PoolSpec

\* A Pool is initialized once, and is never without tokens or BPT afterwards.
THEOREM PoolNeverDrained == PoolSpec => []NeverDrained
<1>1. PoolInv => NeverDrained
  <2> SUFFICES ASSUME PoolInv PROVE NeverDrained
      OBVIOUS
  <2>1. PoolTypes /\ (Backed => TotalSupply >= MinimumBpt) /\ (Initialized => Backed)
      BY Supply DEF PoolInv
  <2>2. CASE Backed
      BY <2>1, <2>2 DEF NeverDrained, Backed
  <2>3. CASE ~Backed
      BY <2>1, <2>3 DEF NeverDrained, PoolInv, Empty
  <2> QED BY <2>2, <2>3
<1> QED BY <1>1, PoolInvariant, PTL

LEMMA StoredIsSettled ==
    PoolTypes /\ Backed /\ Invariant = lastPostJoinExitInvariant /\ RateProduct <= athRateProduct
        => PreJoinExitProtocolFees = 0
BY NothingDue DEF Backed

LEMMA StoredIsSettledNext ==
    (PoolTypes /\ Backed /\ Invariant = lastPostJoinExitInvariant /\ RateProduct <= athRateProduct
        => PreJoinExitProtocolFees = 0)'
BY StoredIsSettled, PTL

\* The protocol gets its part of all growth, and of none of it twice: what is due is minted
\* before anything moves that it is measured by, and then nothing is due (_beforeJoinExit,
\* _afterJoinExit, _beforeProtocolFeeCacheUpdate).
THEOREM PoolFeesChargedOnce == PoolSpec => FeesChargedOnce
<1>1. PoolInv /\ [PoolNext]_poolVars
      => [Initialized' /\ (bpt.lp' # bpt.lp \/ cache' # cache) /\ ~recoveryMode
            => PreJoinExitProtocolFees' = 0]_poolVars
  <2> SUFFICES ASSUME PoolInv, [PoolNext]_poolVars,
                      Initialized' /\ (bpt.lp' # bpt.lp \/ cache' # cache) /\ ~recoveryMode
               PROVE  PreJoinExitProtocolFees' = 0
      OBVIOUS
  <2>1. Settled
      BY PoolStep DEF KeepsFees
  <2> QED BY <2>1, StoredIsSettledNext DEF Settled
<1>2. PoolInv /\ [PoolNext]_poolVars => [Initialized => athRateProduct' >= athRateProduct]_poolVars
    BY PoolStep DEF KeepsFees
<1>3. PoolInv /\ [PoolNext]_poolVars
      => [Initialized /\ (bpt'.lp # bpt.lp \/ feeVars' # feeVars)
            => PaysItsFees \/ disableRecoveryMode]_poolVars
    BY PoolStep DEF KeepsFees
<1>4. PoolSpec => FreeOfDebt
    BY <1>1, PoolInvariant, PTL DEF PoolSpec, FreeOfDebt
<1>5. PoolSpec => ProtocolIsPaid
    BY <1>3, PoolInvariant, PTL DEF PoolSpec, ProtocolIsPaid
<1>6. PoolSpec => YieldChargedOnce
    BY <1>2, PoolInvariant, PTL DEF PoolSpec, YieldChargedOnce
<1> QED BY <1>4, <1>5, <1>6 DEF FeesChargedOnce

------------------------------------------------------------------------------
(* The limits that the client computes.                                    *)

\* The largest join is within the ratio, for the supply it is measured with is no smaller
\* than the one it was computed for.
LEMMA JoinLimit ==
    ASSUME NEW total \in Nat \ {0}, NEW supply \in Nat, supply >= total
    PROVE  /\ mulDown(MaxInvariantRatio, total) - total \in Nat
           /\ divUp(supply + (mulDown(MaxInvariantRatio, total) - total), supply) <= MaxInvariantRatio
           /\ divUp(total + (mulDown(MaxInvariantRatio, total) - total + 1), total) > MaxInvariantRatio
<1> DEFINE M == MaxInvariantRatio
           m == mulDown(M, total)
<1>0. ONE \in Nat \ {0} /\ M \in Nat /\ M >= ONE
    BY PoolAssumption
<1> HIDE DEF M
<1>1. m \in Nat /\ m * ONE <= M * total /\ M * total < m * ONE + ONE
    BY <1>0, Products
<1>2. m >= total
  <2>1. total * ONE <= M * total
    <3>1. ONE * total <= M * total
        BY <1>0, Monotone
    <3> QED BY <1>0, <3>1
  <2> QED BY <1>0, <2>1, FloorIs DEF mulDown
<1> HIDE DEF m
<1>3. divUp(supply + (m - total), supply) <= M
  <2>1. (supply - total) * ONE <= (supply - total) * M
      BY <1>0, Monotone
  <2>2. /\ (supply - total) * ONE + m * ONE = (supply + (m - total)) * ONE
        /\ (supply - total) * M + M * total = M * supply
      BY <1>0, <1>1
  <2> DEFINE x == (supply - total) * ONE
             y == (supply - total) * M
             z == m * ONE
             w == M * total
  <2>3. x \in Int /\ y \in Int /\ z \in Int /\ w \in Int
      BY <1>0, <1>1
  <2>4. x <= y /\ z <= w /\ x + z = (supply + (m - total)) * ONE /\ y + w = M * supply
      BY <1>1, <2>1, <2>2
  <2> HIDE DEF x, y, z, w
  <2>5. (supply + (m - total)) * ONE <= M * supply
      BY <2>3, <2>4
  <2>6. (supply + (m - total)) * ONE \in Int
      BY <1>0, <1>1
  <2> QED BY <1>0, <2>5, <2>6, CeilIs DEF divUp
<1>4. divUp(total + (m - total + 1), total) > M
  <2>1. total + (m - total + 1) = m + 1 /\ (m + 1) * ONE = m * ONE + ONE /\ (m + 1) * ONE \in Int
      BY <1>0, <1>1
  <2>2. M * total < (m + 1) * ONE
      BY <1>1, <2>1
  <2>3. M < CeilDiv((m + 1) * ONE, total) /\ CeilDiv((m + 1) * ONE, total) \in Int
    <3> DEFINE p == (m + 1) * ONE
    <3>1. p \in Int /\ M \in Int /\ M * total < p
        BY <1>0, <2>1, <2>2
    <3> HIDE DEF p, M
    <3>2. M < CeilDiv(p, total) /\ CeilDiv(p, total) \in Int
        BY <3>1, CeilIs
    <3> QED BY <3>2 DEF p
  <2> QED BY <1>0, <2>1, <2>3 DEF divUp
<1> QED BY <1>1, <1>2, <1>3, <1>4 DEF M, m

\* The largest exit leaves the ratio that must remain, of no smaller a supply.
LEMMA ExitLimit ==
    ASSUME NEW total \in Nat \ {0}, NEW supply \in Nat, supply >= total
    PROVE  LET most == total - mulDown(MinInvariantRatio, total)
               unit == 1 + total \div ONE
           IN  /\ most - 1 \in Nat /\ most - 1 < total /\ most \in Nat /\ unit \in Nat
               /\ ~ (divUp(supply - (most - 1), supply) < MinInvariantRatio)
               /\ divUp(total - (most + unit), total) < MinInvariantRatio
<1> DEFINE M == MinInvariantRatio
           m == mulDown(M, total)
           unit == 1 + total \div ONE
<1>0. ONE \in Nat \ {0} /\ M \in Nat /\ M < ONE
    BY PoolAssumption
<1> HIDE DEF M
<1>1. m \in Nat /\ m * ONE <= M * total /\ M * total < m * ONE + ONE
    BY <1>0, Products
<1>2. m < total
  <2>1. M * total < total * ONE
      BY <1>0
  <2> QED BY <1>0, <2>1, FloorIs DEF mulDown
<1> HIDE DEF m
<1>3. unit \in Nat /\ total < unit * ONE
  <2> DEFINE q == total \div ONE
  <2>1. q \in Nat /\ total < q * ONE + ONE
      BY <1>0, Floor
  <2> HIDE DEF q
  <2>2. unit = 1 + q
      BY DEF q
  <2> QED BY <1>0, <2>1, <2>2
<1> HIDE DEF unit
<1>4. ~ (divUp(supply - (total - m - 1), supply) < M)
  <2> DEFINE a == supply - (total - m - 1)
  <2>1. (supply - total) * M <= (supply - total) * ONE
      BY <1>0, Monotone
  <2>2. /\ (supply - total) * ONE + m * ONE + ONE = a * ONE
        /\ (supply - total) * M + M * total = M * supply
        /\ (M - 1) * supply = M * supply - supply
      BY <1>0, <1>1
  <2> DEFINE x == (supply - total) * ONE
             y == (supply - total) * M
             z == m * ONE
             w == M * total
  <2>3. x \in Int /\ y \in Int /\ z \in Int /\ w \in Int /\ a * ONE \in Int /\ M * supply \in Int
      BY <1>0, <1>1
  <2>4. y <= x /\ w < z + ONE /\ x + z + ONE = a * ONE /\ y + w = M * supply
      BY <1>1, <2>1, <2>2
  <2> HIDE DEF x, y, z, w
  <2>5. (M - 1) * supply < a * ONE
      BY <1>0, <2>2, <2>3, <2>4
  <2> HIDE DEF a
  <2>6. M - 1 < CeilDiv(a * ONE, supply) /\ CeilDiv(a * ONE, supply) \in Int
    <3> DEFINE p == a * ONE
               n == M - 1
    <3>1. p \in Int /\ n \in Int /\ supply \in Nat \ {0} /\ n * supply < p
        BY <1>0, <2>3, <2>5
    <3> HIDE DEF p, n
    <3> QED BY <3>1, CeilIs DEF p, n
  <2> QED BY <1>0, <2>6 DEF divUp, a
<1>5. divUp(total - (total - m + unit), total) < M
  <2> DEFINE a == total - (total - m + unit)
  <2>1. a * ONE = m * ONE - unit * ONE /\ a * ONE \in Int
      BY <1>0, <1>1, <1>3
  <2>2. (M - 1) * total = M * total - total
      BY <1>0
  <2> DEFINE z == m * ONE
             w == M * total
             u == unit * ONE
  <2>3. z \in Int /\ w \in Int /\ u \in Int
      BY <1>0, <1>1, <1>3
  <2>4. z <= w /\ total < u /\ a * ONE = z - u /\ (M - 1) * total = w - total
      BY <1>1, <1>3, <2>1, <2>2
  <2> HIDE DEF z, w, u
  <2>5. a * ONE <= (M - 1) * total
      BY <2>3, <2>4
  <2> HIDE DEF a
  <2>6. CeilDiv(a * ONE, total) <= M - 1 /\ CeilDiv(a * ONE, total) \in Int
    <3> DEFINE p == a * ONE
               n == M - 1
    <3>1. p \in Int /\ n \in Int /\ p <= n * total
        BY <1>0, <2>1, <2>5
    <3> HIDE DEF p, n
    <3> QED BY <3>1, CeilIs DEF p, n
  <2> QED BY <1>0, <2>6 DEF divUp, a
<1> QED BY <1>1, <1>2, <1>3, <1>4, <1>5 DEF m, M, unit

\* What the Pool makes of a join or an exit with one token.
LEMMA OneTokenJoin ==
    ASSUME PoolTypes, Backed, NEW bptOut \in Nat, NEW supply \in Nat \ {0}
    PROVE  doJoin(buildJoinGivenOutParams(bptOut, 1), supply).bpt # Reverted
             <=> divUp(supply + bptOut, supply) <= MaxInvariantRatio
<1> DEFINE request == buildJoinGivenOutParams(bptOut, 1)
           in == calcTokenInGivenExactBptOut(balances[1], HALF, bptOut, supply, swapFeePercentage)
           ratio == divUp(supply + bptOut, supply)
<1>1. request.kind = "TOKEN_IN_FOR_EXACT_BPT_OUT" /\ request.bptOut = bptOut /\ request.index = 1
    BY DEF buildJoinGivenOutParams, joinTokenInForExactBPTOut
<1> HIDE DEF request
<1>2. doJoin(request, supply) = IF in = Reverted THEN Revert ELSE [bpt |-> bptOut, amounts |-> Only(1, in)]
    BY <1>1 DEF doJoin
<1>3. ratio > MaxInvariantRatio => in = Reverted
    BY DEF calcTokenInGivenExactBptOut
<1>4. ratio \in Nat /\ MaxInvariantRatio \in Nat
  <2>1. supply + bptOut \in Nat
      OBVIOUS
  <2> QED BY <2>1, Quotients, PoolAssumption
<1>5. ratio <= MaxInvariantRatio => in \in Nat
  <2>1. balances[1] \in Nat /\ swapFeePercentage \in 0..(ONE - 1)
      BY Backing
  <2> QED BY <2>1, TokenIn
<1> HIDE DEF in, ratio
<1>6. doJoin(request, supply).bpt # Reverted <=> in # Reverted
    BY <1>2 DEF Revert, Reverted
<1>7. in # Reverted <=> ratio <= MaxInvariantRatio
    BY <1>3, <1>4, <1>5 DEF Reverted
<1> QED BY <1>6, <1>7 DEF request, ratio

LEMMA OneTokenExit ==
    ASSUME PoolTypes, Backed, NEW bptIn \in Nat, NEW supply \in Nat \ {0}
    PROVE  doExit(buildSingleExitGivenInParams(bptIn, 1), supply).bpt # Reverted
             <=> bptIn <= supply /\ ~ (divUp(supply - bptIn, supply) < MinInvariantRatio)
<1> DEFINE request == buildSingleExitGivenInParams(bptIn, 1)
           out == calcTokenOutGivenExactBptIn(balances[1], HALF, bptIn, supply, swapFeePercentage)
           ratio == divUp(supply - bptIn, supply)
<1>1. request.kind = "EXACT_BPT_IN_FOR_ONE_TOKEN_OUT" /\ request.bptIn = bptIn /\ request.index = 1
    BY DEF buildSingleExitGivenInParams, exitExactBPTInForOneTokenOut
<1> HIDE DEF request
<1>2. doExit(request, supply) = IF out = Reverted THEN Revert ELSE [bpt |-> bptIn, amounts |-> Only(1, out)]
    BY <1>1 DEF doExit
<1>3. bptIn > supply \/ ratio < MinInvariantRatio => out = Reverted
    BY DEF calcTokenOutGivenExactBptIn
<1>4. bptIn <= supply /\ ~ (ratio < MinInvariantRatio) => out \in Nat
  <2>1. balances[1] \in Nat /\ swapFeePercentage \in 0..(ONE - 1)
      BY Backing
  <2> QED BY <2>1, TokenOut
<1> HIDE DEF out, ratio
<1>5. doExit(request, supply).bpt # Reverted <=> out # Reverted
    BY <1>2 DEF Revert, Reverted
<1>6. out # Reverted <=> bptIn <= supply /\ ~ (ratio < MinInvariantRatio)
    BY <1>3, <1>4 DEF Reverted
<1> QED BY <1>5, <1>6 DEF request, ratio

LEMMA LargestSwaps ==
    ASSUME PoolTypes, Backed
    PROVE  /\ onSwap(buildSwapParams("GIVEN_IN", 1, getMaxIn(1))) # Reverted
           /\ onSwap(buildSwapParams("GIVEN_OUT", 1, getMaxOut(2))) # Reverted
           /\ onSwap(buildSwapParams("GIVEN_OUT", 1, getMaxOut(2) + 1)) = Reverted
<1> DEFINE in  == getMaxIn(1)
           out == getMaxOut(2)
           b1  == balances[1]
           b2  == balances[2]
<1>1. b1 \in Nat \ {0} /\ b2 \in Nat \ {0} /\ swapFeePercentage \in 0..(ONE - 1) /\ swapFeePercentage \in Nat
    BY Backing, Units
<1>2. Other(1) = 2
    BY DEF Other
<1>3. in = mulDown(b1, MaxInRatio) /\ out = mulDown(b2, MaxOutRatio)
    BY DEF getMaxIn, getMaxOut
<1>4. ASSUME NEW kind, NEW amount
      PROVE  /\ buildSwapParams(kind, 1, amount).kind = kind /\ buildSwapParams(kind, 1, amount).amount = amount
             /\ buildSwapParams(kind, 1, amount).balanceTokenIn = b1
             /\ buildSwapParams(kind, 1, amount).balanceTokenOut = b2
    BY <1>2 DEF buildSwapParams
<1> HIDE DEF in, out, b1, b2
<1>5. in \in Nat /\ out \in Nat
    BY <1>1, <1>3, SwapLimits
<1>6. onSwap(buildSwapParams("GIVEN_IN", 1, in)) # Reverted
  <2> DEFINE given == SubtractSwapFee(in)
  <2>1. onSwap(buildSwapParams("GIVEN_IN", 1, in)) = calcOutGivenIn(b1, HALF, b2, HALF, given)
      BY <1>4 DEF onSwap
  <2>2. given \in Nat /\ given <= in
    <3>1. swapFeePercentage <= ONE
        BY <1>1, Units
    <3>2. mulUp(in, swapFeePercentage) \in Nat /\ mulUp(in, swapFeePercentage) <= in
        BY <1>1, <1>5, <3>1, Products
    <3> QED BY <1>5, <3>2 DEF SubtractSwapFee
  <2> HIDE DEF given
  <2>3. calcOutGivenIn(b1, HALF, b2, HALF, given) \in Nat
      BY <1>1, <1>3, <2>2, OutGivenIn
  <2> QED BY <2>1, <2>3 DEF Reverted
<1>7. onSwap(buildSwapParams("GIVEN_OUT", 1, out)) # Reverted
  <2> DEFINE needed == calcInGivenOut(b1, HALF, b2, HALF, out)
  <2>1. onSwap(buildSwapParams("GIVEN_OUT", 1, out)) = IF needed = Reverted THEN Reverted ELSE AddSwapFee(needed)
      BY <1>4 DEF onSwap
  <2>2. needed \in Nat
      BY <1>1, <1>3, <1>5, InGivenOut
  <2> HIDE DEF needed
  <2>3. AddSwapFee(needed) \in Nat
    <3>1. complement(swapFeePercentage) \in Nat \ {0}
        BY <1>1, Complement, Units
    <3> QED BY <2>2, <3>1, Quotients DEF AddSwapFee
  <2> QED BY <2>1, <2>2, <2>3 DEF Reverted
<1>8. onSwap(buildSwapParams("GIVEN_OUT", 1, out + 1)) = Reverted
  <2>1. out + 1 > mulDown(b2, MaxOutRatio)
      BY <1>3, <1>5
  <2>2. calcInGivenOut(b1, HALF, b2, HALF, out + 1) = Reverted
      BY <2>1 DEF calcInGivenOut
  <2> QED BY <1>4, <2>2 DEF onSwap
<1> QED BY <1>6, <1>7, <1>8 DEF in, out

\* What the client takes for the limits of an operation is accepted, whatever the balances,
\* the supply and the fees due; and with none due nothing beyond the limits is.
THEOREM PoolLimitsAreAccepted == PoolSpec => []LimitsAreAccepted
<1> DEFINE Joins(bptOut) == doJoin(buildJoinGivenOutParams(bptOut, 1), getActualSupply).bpt # Reverted
           Exits(bptIn)  == doExit(buildSingleExitGivenInParams(bptIn, 1), getActualSupply).bpt # Reverted
           unit == 1 + TotalSupply \div ONE
           most == getMaxInvariantIncrease
           least == getMaxInvariantDecrease
<1>1. ASSUME PoolInv, Initialized, FeesCanBePaid
      PROVE  /\ Joins(most) /\ Exits(least - 1)
             /\ PreJoinExitProtocolFees = 0 => ~Joins(most + 1) /\ ~Exits(least + unit)
  <2> DEFINE supply == getActualSupply
             total  == TotalSupply
  <2>1. PoolTypes /\ Backed
      BY <1>1, Supply DEF PoolInv
  <2>2. /\ total \in Nat \ {0} /\ supply \in Nat \ {0} /\ supply >= total
        /\ PreJoinExitProtocolFees = 0 => supply = total
      BY <1>1, <2>1, Due, Supply
  <2>3. most = mulDown(MaxInvariantRatio, total) - total
      BY DEF getMaxInvariantIncrease
  <2>4. least = total - mulDown(MinInvariantRatio, total)
      BY DEF getMaxInvariantDecrease
  <2> HIDE DEF most, least, total, supply
  <2>5. /\ most \in Nat /\ divUp(supply + most, supply) <= MaxInvariantRatio
        /\ divUp(total + (most + 1), total) > MaxInvariantRatio
    <3>1. supply \in Nat /\ total \in Nat \ {0} /\ supply >= total
        BY <2>2
    <3> QED BY <2>3, <3>1, JoinLimit
  <2>6. /\ least - 1 \in Nat /\ least - 1 < total /\ least \in Nat /\ unit \in Nat
        /\ ~ (divUp(supply - (least - 1), supply) < MinInvariantRatio)
        /\ divUp(total - (least + unit), total) < MinInvariantRatio
    <3>1. supply \in Nat /\ total \in Nat \ {0} /\ supply >= total
        BY <2>2
    <3>2. unit = 1 + total \div ONE
        BY DEF total
    <3> QED BY <2>4, <3>1, <3>2, ExitLimit
  <2> HIDE DEF unit
  <2>7. Joins(most)
      BY <2>1, <2>2, <2>5, OneTokenJoin DEF supply
  <2>8. Exits(least - 1)
    <3> DEFINE n == least - 1
    <3>1. n \in Nat /\ n <= supply /\ ~ (divUp(supply - n, supply) < MinInvariantRatio)
        BY <2>2, <2>6
    <3> HIDE DEF n
    <3>2. Exits(n)
        BY <2>1, <2>2, <3>1, OneTokenExit DEF supply
    <3> QED BY <3>2 DEF n
  <2>9. ASSUME PreJoinExitProtocolFees = 0 PROVE ~Joins(most + 1)
    <3> DEFINE n == most + 1
    <3>1. n \in Nat /\ divUp(supply + n, supply) > MaxInvariantRatio /\ MaxInvariantRatio \in Nat
        BY <2>2, <2>5, <2>9, PoolAssumption
    <3> HIDE DEF n
    <3>2. divUp(supply + n, supply) \in Nat
      <4>1. supply + n \in Nat
          BY <2>2, <3>1
      <4> QED BY <2>2, <4>1, Quotients
    <3>3. ~ (divUp(supply + n, supply) <= MaxInvariantRatio)
        BY <3>1, <3>2
    <3>4. ~Joins(n)
        BY <2>1, <2>2, <3>1, <3>3, OneTokenJoin DEF supply
    <3> QED BY <3>4 DEF n
  <2>10. ASSUME PreJoinExitProtocolFees = 0 PROVE ~Exits(least + unit)
    <3> DEFINE n == least + unit
    <3>1. n \in Nat /\ divUp(supply - n, supply) < MinInvariantRatio
        BY <2>2, <2>6, <2>10
    <3> HIDE DEF n
    <3>2. ~Exits(n)
        BY <2>1, <2>2, <3>1, OneTokenExit DEF supply
    <3> QED BY <3>2 DEF n
  <2> QED BY <2>7, <2>8, <2>9, <2>10
<1>2. ASSUME PoolInv PROVE LimitsAreAccepted
  <2> SUFFICES ASSUME Initialized, FeesCanBePaid
               PROVE  /\ Joins(most) /\ Exits(least - 1)
                      /\ onSwap(buildSwapParams("GIVEN_IN", 1, getMaxIn(1))) # Reverted
                      /\ onSwap(buildSwapParams("GIVEN_OUT", 1, getMaxOut(2))) # Reverted
                      /\ ~ (onSwap(buildSwapParams("GIVEN_OUT", 1, getMaxOut(2) + 1)) # Reverted)
                      /\ PreJoinExitProtocolFees = 0 => ~Joins(most + 1) /\ ~Exits(least + unit)
      BY DEF LimitsAreAccepted
  <2>1. PoolTypes /\ Backed
      BY <1>2, Supply DEF PoolInv
  <2> HIDE DEF Joins, Exits, most, least, unit
  <2> QED BY <1>1, <1>2, <2>1, LargestSwaps
<1> QED BY <1>2, PoolInvariant, PTL

------------------------------------------------------------------------------
(* Weights.                                                                *)

LEMMA TotalOfIntegers ==
    ASSUME NEW f, NEW n \in Nat, DOMAIN f = 1..n, \A i \in 1..n : f[i] \in Int
    PROVE  Total(f) \in Int
<1> DEFINE T == TotalTable(f)
           Good == {k \in Nat : k <= n => T[1..k] \in Int}
<1>1. T[{}] = 0 /\ (\A k \in 1..n : T[1..k] = T[1..(k - 1)] + f[k]) /\ Total(f) = T[1..n]
    BY TotalIs
<1> HIDE DEF T
<1>2. 0 \in Good
  <2>1. 1..0 = {}
      OBVIOUS
  <2> QED BY <1>1, <2>1
<1>3. ASSUME NEW k \in Nat, k \in Good PROVE k + 1 \in Good
  <2>1. ASSUME k + 1 <= n PROVE T[1..(k + 1)] \in Int
    <3>1. k + 1 \in 1..n /\ (k + 1) - 1 = k
        BY <2>1
    <3>2. T[1..(k + 1)] = T[1..k] + f[k + 1]
        BY <1>1, <3>1
    <3> QED BY <1>3, <2>1, <3>1, <3>2
  <2> QED BY <2>1
<1>4. n \in Good
  <2> HIDE DEF Good
  <2> QED BY <1>2, <1>3, EveryNumber
<1> QED BY <1>1, <1>4

LEMMA TotalOfAppend ==
    ASSUME NEW f, NEW n \in Nat, DOMAIN f = 1..n, NEW g, DOMAIN g = 1..(n + 1),
           \A i \in 1..n : g[i] = f[i]
    PROVE  Total(g) = Total(f) + g[n + 1]
<1> DEFINE T == TotalTable(f)
           U == TotalTable(g)
           Good == {k \in Nat : k <= n => T[1..k] = U[1..k]}
<1>1. T[{}] = 0 /\ (\A k \in 1..n : T[1..k] = T[1..(k - 1)] + f[k]) /\ Total(f) = T[1..n]
    BY TotalIs
<1>2. U[{}] = 0 /\ (\A k \in 1..(n + 1) : U[1..k] = U[1..(k - 1)] + g[k]) /\ Total(g) = U[1..(n + 1)]
    BY TotalIs
<1> HIDE DEF T, U
<1>3. 0 \in Good
  <2>1. 1..0 = {}
      OBVIOUS
  <2> QED BY <1>1, <1>2, <2>1
<1>4. ASSUME NEW k \in Nat, k \in Good PROVE k + 1 \in Good
  <2>1. ASSUME k + 1 <= n PROVE T[1..(k + 1)] = U[1..(k + 1)]
    <3>1. k + 1 \in 1..n /\ k + 1 \in 1..(n + 1) /\ (k + 1) - 1 = k
        BY <2>1
    <3>2. T[1..(k + 1)] = T[1..k] + f[k + 1] /\ U[1..(k + 1)] = U[1..k] + g[k + 1]
        BY <1>1, <1>2, <3>1
    <3> QED BY <1>4, <2>1, <3>1, <3>2
  <2> QED BY <2>1
<1>5. n \in Good
  <2> HIDE DEF Good
  <2> QED BY <1>3, <1>4, EveryNumber
<1>6. n + 1 \in 1..(n + 1) /\ (n + 1) - 1 = n
    OBVIOUS
<1>7. U[1..(n + 1)] = U[1..n] + g[n + 1]
    BY <1>2, <1>6
<1> QED BY <1>1, <1>2, <1>5, <1>7

LEMMA TotalOfEqual ==
    ASSUME NEW f, NEW n \in Nat, DOMAIN f = 1..n, NEW c \in Int, \A i \in 1..n : f[i] = c
    PROVE  Total(f) = n * c
<1> DEFINE T == TotalTable(f)
           Good == {k \in Nat : k <= n => T[1..k] = k * c}
<1>1. T[{}] = 0 /\ (\A k \in 1..n : T[1..k] = T[1..(k - 1)] + f[k]) /\ Total(f) = T[1..n]
    BY TotalIs
<1> HIDE DEF T
<1>2. 0 \in Good
  <2>1. 1..0 = {} /\ 0 * c = 0
      OBVIOUS
  <2> QED BY <1>1, <2>1
<1>3. ASSUME NEW k \in Nat, k \in Good PROVE k + 1 \in Good
  <2>1. ASSUME k + 1 <= n PROVE T[1..(k + 1)] = (k + 1) * c
    <3>1. k + 1 \in 1..n /\ (k + 1) - 1 = k /\ (k + 1) * c = k * c + c
        BY <2>1
    <3>2. T[1..(k + 1)] = T[1..k] + c
        BY <1>1, <3>1
    <3> QED BY <1>3, <2>1, <3>1, <3>2
  <2> QED BY <2>1
<1>4. n \in Good
  <2> HIDE DEF Good
  <2> QED BY <1>2, <1>3, EveryNumber
<1> QED BY <1>1, <1>4

LEMMA Normalized ==
    ASSUME NEW list \in WeightLists
    PROVE  isNormalizedWeights(toNormalizedWeights(list))
<1>1. list \in Seq(Nat) /\ list # <<>> /\ Total(list) > 0
    BY WeightsAssumption
<1> DEFINE n == Len(list)
           total == Total(list)
<1>2. n \in Nat \ {0} /\ DOMAIN list = 1..n /\ \A i \in 1..n : list[i] \in Nat
    BY <1>1
<1> HIDE DEF n
<1>3. total \in Nat \ {0}
  <2>1. Total(list) \in Int
    <3>1. \A i \in 1..n : list[i] \in Int
        BY <1>2
    <3> QED BY <1>2, <3>1, TotalOfIntegers
  <2> QED BY <1>1, <2>1
<1> HIDE DEF total
<1>4. CASE n = MaxWeightedTokens
  <2> DEFINE c == ONE \div MaxWeightedTokens
             f == [i \in DOMAIN list |-> c]
  <2>1. toNormalizedWeights(list) = f
      BY <1>4 DEF toNormalizedWeights, n
  <2>2. c \in Int /\ MaxWeightedTokens * c = ONE
      BY WeightsAssumption, Floor
  <2> HIDE DEF c
  <2>3. DOMAIN f = 1..n /\ \A i \in 1..n : f[i] = c
      BY <1>2
  <2> HIDE DEF f
  <2>4. Total(f) = n * c
      BY <1>2, <2>2, <2>3, TotalOfEqual
  <2> QED BY <1>4, <2>1, <2>2, <2>4 DEF isNormalizedWeights
<1>5. CASE n # MaxWeightedTokens /\ total = ONE
  <2>1. toNormalizedWeights(list) = list
      BY <1>5 DEF toNormalizedWeights, n, total
  <2> QED BY <1>5, <2>1 DEF isNormalizedWeights, total
<1>6. CASE n # MaxWeightedTokens /\ total # ONE
  <2> DEFINE m == n - 1
             first == [i \in 1..m |-> (list[i] * ONE) \div total]
             last  == ONE - Total(first)
             all   == Append(first, last)
  <2>1. toNormalizedWeights(list) = all
      BY <1>6 DEF toNormalizedWeights, n, total
  <2>2. m \in Nat /\ DOMAIN first = 1..m
      BY <1>2
  <2>3. ASSUME NEW i \in 1..m PROVE first[i] \in Int
    <3>1. list[i] * ONE \in Int
        BY <1>2, WeightsAssumption
    <3>2. (list[i] * ONE) \div total \in Int
        BY <1>3, <3>1, Floor
    <3> QED BY <3>2
  <2>4. first \in Seq(Int)
      BY <2>2, <2>3
  <2>5. Total(first) \in Int
    <3> HIDE DEF first, m
    <3> QED BY <2>2, <2>3, TotalOfIntegers
  <2> HIDE DEF first, m
  <2>6. last \in Int
      BY <2>5, WeightsAssumption
  <2> HIDE DEF last
  <2>7. Len(first) = m
      BY <2>2, <2>4
  <2>8. DOMAIN all = 1..(m + 1) /\ (\A i \in 1..m : all[i] = first[i]) /\ all[m + 1] = last
      BY <2>2, <2>4, <2>6, <2>7
  <2> HIDE DEF all
  <2>9. Total(all) = Total(first) + last
      BY <2>2, <2>8, TotalOfAppend
  <2>10. Total(first) + last = ONE
      BY <2>5, WeightsAssumption DEF last
  <2> QED BY <2>1, <2>9, <2>10 DEF isNormalizedWeights
<1> QED BY <1>4, <1>5, <1>6

\* Weights add up to one when they are normalized, whatever they were and however many.
THEOREM NormalizedWeightsAddUp == MathSpec => []WeightsAddUp
<1> DEFINE Listed == weightLists \subseteq WeightLists
<1>1. MathInit => Listed
    BY DEF MathInit
<1>2. Listed /\ [FALSE]_mathVars => Listed'
    BY DEF mathVars
<1>3. Listed => WeightsAddUp
    BY Normalized DEF WeightsAddUp
<1> QED BY <1>1, <1>2, <1>3, PTL DEF MathSpec

------------------------------------------------------------------------------
(* Trades.                                                                 *)

LEMMA Cancel ==
    ASSUME NEW p \in Int, NEW q \in Int, NEW b \in Nat \ {0}, p * b <= q * b
    PROVE  p <= q
<1> SUFFICES ASSUME q < p PROVE FALSE
    OBVIOUS
<1>1. q * b < p * b
    OBVIOUS
<1> QED BY <1>1

\* What is paid for an amount in is no more than the curve gives.
LEMMA CurveGivenIn ==
    ASSUME NEW x \in Nat \ {0}, NEW y \in Nat \ {0}, NEW in \in Nat, NEW out \in Nat,
           in <= mulDown(x, MaxInRatio), out = calcOutGivenIn(x, HALF, y, HALF, in)
    PROVE  out < y /\ (x + in) * (y - out) >= x * y
<1> DEFINE d    == x + in
           base == divUp(x, d)
           c    == complement(base)
<1>0. ONE \in Nat \ {0} /\ d \in Nat \ {0} /\ x <= d
    BY Units
<1>1. out < y
    BY OutGivenIn
<1>2. out = mulDown(y, complement(powUp(base, divDown(HALF, HALF))))
  <2>1. ~ (in > mulDown(x, MaxInRatio))
      BY SwapLimits
  <2> QED BY <2>1 DEF calcOutGivenIn
<1>3. base \in Nat /\ base <= ONE /\ x * ONE <= base * d
    BY <1>0, Quotients
<1> HIDE DEF base, d
<1>4. powUp(base, divDown(HALF, HALF)) = base
    BY Exponents, SimplePowers
<1>5. c = ONE - base /\ c \in Nat
    BY <1>0, <1>3 DEF complement
<1> HIDE DEF c
<1>6. out * ONE <= y * c
    BY <1>2, <1>4, <1>5, Products DEF c
<1>7. out * d <= y * in
  <2>1. c * d <= in * ONE
    <3>1. c * d = ONE * d - base * d /\ ONE * d = x * ONE + in * ONE
        BY <1>0, <1>3, <1>5 DEF d
    <3> DEFINE bd == base * d
    <3>2. bd \in Int /\ c * d = ONE * d - bd /\ x * ONE <= bd
        BY <1>0, <1>3, <3>1
    <3> HIDE DEF bd
    <3> QED BY <1>0, <3>1, <3>2
  <2>2. (out * ONE) * d <= (y * c) * d
    <3>1. out * ONE \in Int /\ y * c \in Int /\ d \in Nat
        BY <1>0, <1>5
    <3> QED BY <1>6, <3>1, Monotone
  <2>3. y * (c * d) <= y * (in * ONE)
    <3>1. c * d \in Int /\ in * ONE \in Int
        BY <1>0, <1>5
    <3> QED BY <2>1, <3>1, Monotone
  <2>4. (out * ONE) * d = (out * d) * ONE /\ (y * c) * d = y * (c * d) /\ y * (in * ONE) = (y * in) * ONE
      BY <1>0, <1>5
  <2>5. (out * d) * ONE <= (y * in) * ONE
    <3> DEFINE a1 == (out * ONE) * d
               a2 == y * (c * d)
               a3 == (y * in) * ONE
    <3>1. a1 \in Int /\ a2 \in Int /\ a3 \in Int /\ a1 <= a2 /\ a2 <= a3
        BY <1>0, <1>5, <2>2, <2>3, <2>4
    <3>2. a1 <= a3
      <4> HIDE DEF a1, a2, a3
      <4> QED BY <3>1
    <3> QED BY <2>4, <3>2
  <2>6. out * d \in Int /\ y * in \in Int
      BY <1>0
  <2> QED BY <1>0, <2>5, <2>6, Cancel
<1>8. d * (y - out) = x * y + y * in - out * d
    BY <1>0 DEF d
<1>9. d * (y - out) >= x * y
  <2> DEFINE a == out * d
             b == y * in
             e == x * y
  <2>1. a \in Int /\ b \in Int /\ e \in Int /\ a <= b /\ d * (y - out) = e + b - a
      BY <1>0, <1>7, <1>8
  <2> HIDE DEF a, b, e
  <2>2. d * (y - out) >= e
      BY <2>1
  <2> QED BY <2>2 DEF e
<1> QED BY <1>1, <1>9 DEF d

\* What is asked for an amount out is no less than the curve takes.
LEMMA CurveGivenOut ==
    ASSUME NEW x \in Nat \ {0}, NEW y \in Nat \ {0}, NEW in \in Nat, NEW out \in Nat,
           out <= mulDown(y, MaxOutRatio), in = calcInGivenOut(x, HALF, y, HALF, out)
    PROVE  out < y /\ (x + in) * (y - out) >= x * y
<1> DEFINE d    == y - out
           base == divUp(y, d)
           c    == base - ONE
<1>1. out < y
    BY InGivenOut
<1>0. ONE \in Nat \ {0} /\ d \in Nat \ {0} /\ d <= y
    BY <1>1, Units
<1>2. in = mulUp(x, powUp(base, divUp(HALF, HALF)) - ONE)
  <2>1. ~ (out > mulDown(y, MaxOutRatio))
      BY SwapLimits
  <2> QED BY <2>1 DEF calcInGivenOut
<1>3. base \in Nat /\ base >= ONE /\ y * ONE <= base * d
    BY <1>0, Quotients
<1> HIDE DEF base, d
<1>4. powUp(base, divUp(HALF, HALF)) = base
    BY Exponents, SimplePowers
<1>5. c \in Nat
    BY <1>0, <1>3
<1>6. x * c <= in * ONE
    BY <1>2, <1>4, <1>5, Products
<1>7. x * out <= in * d
  <2>1. out * ONE <= c * d
    <3>1. c * d = base * d - ONE * d /\ ONE * d = y * ONE - out * ONE
        BY <1>0, <1>3 DEF d
    <3> DEFINE bd == base * d
    <3>2. bd \in Int /\ c * d = bd - ONE * d /\ y * ONE <= bd
        BY <1>0, <1>3, <3>1
    <3> HIDE DEF bd, c
    <3> QED BY <1>0, <3>1, <3>2
  <2> HIDE DEF c
  <2>2. (x * c) * d <= (in * ONE) * d
    <3>1. in * ONE \in Int /\ x * c \in Int /\ d \in Nat
        BY <1>0, <1>5
    <3> QED BY <1>6, <3>1, Monotone
  <2>3. x * (out * ONE) <= x * (c * d)
    <3>1. c * d \in Int /\ out * ONE \in Int
        BY <1>0, <1>5
    <3> QED BY <2>1, <3>1, Monotone
  <2>4. (in * ONE) * d = (in * d) * ONE /\ (x * c) * d = x * (c * d) /\ x * (out * ONE) = (x * out) * ONE
      BY <1>0, <1>5
  <2>5. (x * out) * ONE <= (in * d) * ONE
    <3> DEFINE a1 == (x * out) * ONE
               a2 == x * (c * d)
               a3 == (in * ONE) * d
    <3>1. a1 \in Int /\ a2 \in Int /\ a3 \in Int /\ a1 <= a2 /\ a2 <= a3
        BY <1>0, <1>5, <2>2, <2>3, <2>4
    <3>2. a1 <= a3
      <4> HIDE DEF a1, a2, a3
      <4> QED BY <3>1
    <3> QED BY <2>4, <3>2
  <2>6. x * out \in Int /\ in * d \in Int
      BY <1>0
  <2> QED BY <1>0, <2>5, <2>6, Cancel
<1>8. (x + in) * d = x * y - x * out + in * d
    BY <1>0 DEF d
<1>9. (x + in) * d >= x * y
  <2> DEFINE a == x * out
             b == in * d
             e == x * y
  <2>1. a \in Int /\ b \in Int /\ e \in Int /\ a <= b /\ (x + in) * d = e - a + b
      BY <1>0, <1>7, <1>8
  <2> HIDE DEF a, b, e
  <2>2. (x + in) * d >= e
      BY <2>1
  <2> QED BY <2>2 DEF e
<1> QED BY <1>1, <1>9 DEF d

\* The fee comes on top of what the curve asks for, or off what it is given.
LEMMA SwapFee ==
    ASSUME NEW amount \in Nat, swapFeePercentage \in 0..(ONE - 1)
    PROVE  /\ SubtractSwapFee(amount) \in Nat /\ SubtractSwapFee(amount) <= amount
           /\ AddSwapFee(amount) \in Nat /\ AddSwapFee(amount) >= amount
<1>0. ONE \in Nat \ {0} /\ swapFeePercentage \in Nat /\ swapFeePercentage <= ONE /\ swapFeePercentage < ONE
    BY Units
<1>1. mulUp(amount, swapFeePercentage) \in Nat /\ mulUp(amount, swapFeePercentage) <= amount
    BY <1>0, Products
<1> DEFINE c == complement(swapFeePercentage)
<1>2. c \in Nat \ {0} /\ c <= ONE
    BY <1>0, Complement
<1> HIDE DEF c
<1>3. divUp(amount, c) \in Nat /\ amount * ONE <= divUp(amount, c) * c
    BY <1>2, Quotients
<1>4. divUp(amount, c) >= amount
  <2> DEFINE q == divUp(amount, c)
  <2>1. q * c <= q * ONE /\ q \in Nat
      BY <1>0, <1>2, <1>3, Monotone
  <2> HIDE DEF q
  <2>2. amount * ONE <= q * ONE
    <3> DEFINE a == amount * ONE
               b == q * c
               e == q * ONE
    <3>1. a \in Int /\ b \in Int /\ e \in Int /\ a <= b /\ b <= e
        BY <1>0, <1>2, <1>3, <2>1 DEF q
    <3>2. a <= e
      <4> HIDE DEF a, b, e
      <4> QED BY <3>1
    <3> QED BY <3>2
  <2>3. amount <= q
      BY <1>0, <2>1, <2>2, Cancel
  <2> QED BY <2>1, <2>3 DEF q
<1> QED BY <1>1, <1>3, <1>4 DEF SubtractSwapFee, AddSwapFee, c

LEMMA MoreIn ==
    ASSUME NEW x \in Nat, NEW in \in Nat, NEW more \in Nat, in <= more, NEW left \in Nat, NEW least \in Int,
           (x + in) * left >= least
    PROVE  (x + more) * left >= least
<1>1. (x + in) * left <= (x + more) * left
    BY Monotone
<1> QED BY <1>1

LEMMA SwapOnCurve ==
    ASSUME PoolInv, NEW token \in Tokens, NEW amount \in Nat,
           NEW kind \in {"GIVEN_IN", "GIVEN_OUT"}, swap(buildSwapParams(kind, token, amount))
    PROVE  balances'[1] * balances'[2] >= balances[1] * balances[2]
<1> DEFINE params == buildSwapParams(kind, token, amount)
           calculated == onSwap(params)
           in  == IF kind = "GIVEN_IN" THEN amount ELSE calculated
           out == IF kind = "GIVEN_IN" THEN calculated ELSE amount
           other == Other(token)
           x == balances[token]
           y == balances[other]
<1>0. PoolTypes /\ Backed
    BY Supply DEF PoolInv, swap
<1>1. /\ params.kind = kind /\ params.amount = amount /\ params.tokenIn = token /\ params.tokenOut = other
      /\ params.balanceTokenIn = x /\ params.balanceTokenOut = y
    BY DEF buildSwapParams
<1>2. /\ calculated # Reverted
      /\ balances' = [balances EXCEPT ![token] = x + in, ![other] = y - out]
    BY <1>1 DEF swap
<1>3. x \in Nat \ {0} /\ y \in Nat \ {0} /\ swapFeePercentage \in 0..(ONE - 1) /\ other \in Tokens /\ other # token
    BY <1>0, Backing DEF Other, Tokens
<1> HIDE DEF params
<1>4. ASSUME kind = "GIVEN_IN" PROVE (x + in) * (y - out) >= x * y
  <2> DEFINE given == SubtractSwapFee(amount)
  <2>1. calculated = calcOutGivenIn(x, HALF, y, HALF, given)
      BY <1>1, <1>4 DEF onSwap
  <2>2. given \in Nat /\ given <= amount
      BY <1>3, SwapFee
  <2> HIDE DEF given, calculated, x, y
  <2>3. given <= mulDown(x, MaxInRatio)
    <3>1. ~ (given > mulDown(x, MaxInRatio))
        BY <1>2, <2>1 DEF calcOutGivenIn
    <3> QED BY <1>3, <2>2, <3>1, SwapLimits
  <2>4. calculated \in Nat /\ calculated < y
      BY <1>3, <2>1, <2>2, <2>3, OutGivenIn
  <2>5. (x + given) * (y - calculated) >= x * y
      BY <1>3, <2>1, <2>2, <2>3, <2>4, CurveGivenIn
  <2>6. y - calculated \in Nat /\ x * y \in Int
      BY <1>3, <2>4
  <2>7. (x + amount) * (y - calculated) >= x * y
      BY <1>3, <2>2, <2>5, <2>6, MoreIn
  <2> QED BY <1>4, <2>7
<1>5. ASSUME kind = "GIVEN_OUT" PROVE (x + in) * (y - out) >= x * y
  <2> DEFINE needed == calcInGivenOut(x, HALF, y, HALF, amount)
  <2>1. calculated = IF needed = Reverted THEN Reverted ELSE AddSwapFee(needed)
      BY <1>1, <1>5 DEF onSwap
  <2> HIDE DEF calculated, x, y
  <2>2. needed # Reverted /\ calculated = AddSwapFee(needed)
      BY <1>2, <2>1
  <2>3. amount <= mulDown(y, MaxOutRatio)
    <3>1. ~ (amount > mulDown(y, MaxOutRatio))
        BY <2>2 DEF calcInGivenOut
    <3> QED BY <1>3, <3>1, SwapLimits
  <2>4. needed \in Nat /\ amount < y
      BY <1>3, <2>3, InGivenOut
  <2>5. (x + needed) * (y - amount) >= x * y
      BY <1>3, <2>3, <2>4, CurveGivenOut
  <2> HIDE DEF needed
  <2>6. calculated \in Nat /\ needed <= calculated
      BY <1>3, <2>2, <2>4, SwapFee
  <2>7. y - amount \in Nat /\ x * y \in Int
      BY <1>3, <2>4
  <2>8. (x + calculated) * (y - amount) >= x * y
      BY <1>3, <2>4, <2>5, <2>6, <2>7, MoreIn
  <2> QED BY <1>5, <2>8
<1>6. (x + in) * (y - out) >= x * y
    BY <1>4, <1>5
<1> HIDE DEF in, out, other
<1>7. balances'[token] = x + in /\ balances'[other] = y - out
    BY <1>0, <1>2, <1>3 DEF PoolTypes
<1>8. balances'[token] * balances'[other] >= balances[token] * balances[other]
    BY <1>6, <1>7
<1>9. CASE token = 1
  <2>1. other = 2
      BY <1>9 DEF other, Other
  <2> QED BY <1>8, <1>9, <2>1
<1>10. CASE token = 2
  <2> DEFINE a == balances[1]
             b == balances[2]
             a2 == balances'[1]
             b2 == balances'[2]
  <2>1. other = 1
      BY <1>10 DEF other, Other
  <2>2. b2 * a2 >= b * a
      BY <1>8, <1>10, <2>1
  <2>3. a \in Nat /\ b \in Nat
      BY <1>0 DEF PoolTypes, Tokens
  <2>4. a2 \in Nat /\ b2 \in Nat
    <3>1. PoolTypes'
        BY SwapKeeps DEF PoolInv
    <3> QED BY <3>1 DEF PoolTypes, Tokens
  <2> HIDE DEF a, b, a2, b2
  <2>5. a2 * b2 >= a * b
      BY <2>2, <2>3, <2>4
  <2> QED BY <2>5 DEF a, b, a2, b2
<1> QED BY <1>9, <1>10 DEF Tokens

LEMMA MoreOfBoth ==
    ASSUME NEW a \in Nat, NEW b \in Nat, NEW c \in Nat, NEW d \in Nat
    PROVE  (a + c) * (b + d) >= a * b
<1>1. (a + c) * (b + d) = a * b + a * d + c * b + c * d
    OBVIOUS
<1>2. a * b \in Nat /\ a * d \in Nat /\ c * b \in Nat /\ c * d \in Nat
    OBVIOUS
<1> QED BY <1>1, <1>2

LEMMA JoinAdds ==
    ASSUME PoolInv, NEW request \in JoinUserData, join(request)
    PROVE  balances'[1] * balances'[2] >= balances[1] * balances[2]
<1>0. PoolTypes
    BY DEF PoolInv
<1>1. PICK amounts \in [Tokens -> Nat] : joinPool(amounts)
  <2>1. CASE ~Initialized /\ onInitializePool(request) /\ joinPool(request.amountsIn)
      BY <2>1 DEF onInitializePool, JoinUserData
  <2>2. CASE Initialized /\ FeesCanBePaid
             /\ LET outcome == doJoin(request, getActualSupply)
                IN  outcome.bpt # Reverted /\ Settle(getActualSupply, outcome, 1) /\ joinPool(outcome.amounts)
    <3>1. Backed /\ FeesCanBePaid
        BY <1>0, <2>2, Supply
    <3>2. getActualSupply \in Nat \ {0}
        BY <1>0, <3>1, Due
    <3>3. doJoin(request, getActualSupply).amounts \in [Tokens -> Nat]
        BY <1>0, <2>2, <3>1, <3>2, JoinOutcome
    <3> QED BY <2>2, <3>3
  <2> QED BY <2>1, <2>2 DEF join
<1> DEFINE a == balances[1]
           b == balances[2]
           c == amounts[1]
           d == amounts[2]
<1>2. /\ a \in Nat /\ b \in Nat /\ c \in Nat /\ d \in Nat
      /\ balances'[1] = a + c /\ balances'[2] = b + d
    BY <1>0, <1>1 DEF PoolTypes, Tokens, joinPool
<1> HIDE DEF a, b, c, d
<1>3. (a + c) * (b + d) >= a * b
    BY <1>2, MoreOfBoth
<1> QED BY <1>2, <1>3 DEF a, b

\* For no BPT nothing is sent.
LEMMA ExitOfNothing ==
    ASSUME PoolInv, NEW request \in ExitUserData,
           exit(request) \/ recoveryModeExit(request), bpt'.lp >= bpt.lp
    PROVE  balances' = balances
<1>0. PoolTypes /\ Backed /\ balances \in [Tokens -> Nat] /\ bpt.lp \in Nat
    BY Supply DEF PoolInv, PoolTypes, exit, recoveryModeExit
<1>1. CASE exit(request)
  <2> DEFINE outcome == doExit(request, getActualSupply)
  <2>1. FeesCanBePaid
      BY <1>1 DEF exit
  <2>2. getActualSupply \in Nat \ {0} /\ bpt.lp < getActualSupply
      BY <1>0, <2>1, Due, Supply
  <2>3. /\ outcome.bpt # Reverted /\ outcome.bpt <= bpt.lp
        /\ Settle(getActualSupply, outcome, -1) /\ exitPool(outcome.amounts)
      BY <1>1 DEF exit
  <2>4. outcome.bpt \in Nat /\ (outcome.bpt = 0 => outcome.amounts = [i \in Tokens |-> 0])
      BY <1>0, <2>2, <2>3, ExitOutcome
  <2> HIDE DEF outcome
  <2>5. bpt'.lp = bpt.lp + (-1) * outcome.bpt
    <3> DEFINE supply == getActualSupply
               postSupply == supply + (-1) * outcome.bpt
               isJoin == postSupply >= supply
               postBalances == [i \in Tokens |-> balances[i] + (IF isJoin THEN 1 ELSE -1) * outcome.amounts[i]]
               minted == supply - TotalSupply
                          + PostJoinExitProtocolFees(calculateInvariant(Weights, postBalances), supply, postSupply)
               collector2 == bpt.collector + minted
    <3>1. bpt' = [bpt EXCEPT !.lp = bpt.lp + (-1) * outcome.bpt, !.collector = collector2]
        BY <1>0, <2>3, Paid DEF Settle, PoolTypes
    <3> HIDE DEF collector2
    <3> QED BY <1>0, <3>1 DEF PoolTypes
  <2>6. outcome.bpt = 0
      BY <1>0, <2>4, <2>5
  <2> QED BY <1>0, <2>3, <2>4, <2>6 DEF exitPool
<1>2. CASE recoveryModeExit(request)
  <2> DEFINE outs == calcTokensOutGivenExactBptIn(balances, request.bptIn, TotalSupply)
  <2>1. /\ request.bptIn \in Nat /\ bpt'.lp = bpt.lp - request.bptIn
        /\ exitPool(outs)
      BY <1>0, <1>2 DEF recoveryModeExit, ExitUserData, PoolTypes
  <2>2. request.bptIn = 0
      BY <1>0, <2>1
  <2>3. TotalSupply \in Nat \ {0} /\ balances \in [Tokens -> Nat \ {0}] /\ request.bptIn < TotalSupply
      BY <1>0, <2>2, Supply, Backing
  <2>4. outs = [i \in Tokens |-> 0]
      BY <2>1, <2>2, <2>3, TokensOut
  <2> HIDE DEF outs
  <2> QED BY <1>0, <2>1, <2>4 DEF exitPool
<1> QED BY <1>1, <1>2

LEMMA TradeStep ==
    ASSUME PoolInv, [PoolNext]_poolVars, bpt'.lp >= bpt.lp
    PROVE  balances'[1] * balances'[2] >= balances[1] * balances[2]
<1> DEFINE Kept == balances'[1] * balances'[2] >= balances[1] * balances[2]
<1>0. PoolTypes
    BY DEF PoolInv
<1>1. ASSUME balances' = balances PROVE Kept
  <2> DEFINE p == balances[1] * balances[2]
  <2>1. p \in Int
      BY <1>0 DEF PoolTypes, Tokens
  <2>2. balances'[1] * balances'[2] = p
      BY <1>1
  <2> HIDE DEF p
  <2>3. p >= p
      BY <2>1
  <2> QED BY <2>2, <2>3 DEF p
<1>2. ASSUME NEW request \in JoinRequests, join(request) PROVE Kept
    BY <1>2, JoinAdds, PoolAssumption
<1>3. ASSUME NEW request \in ExitRequests \cup {buildMultiExitGivenInParams(bpt.lp)}, exit(request) PROVE Kept
    BY <1>0, <1>1, <1>3, ExitOfNothing, ExitRequestsAre
<1>4. ASSUME NEW request \in ExitRequests \cup {buildRecoveryModeExitParams(bpt.lp)}, recoveryModeExit(request)
      PROVE  Kept
    BY <1>0, <1>1, <1>4, ExitOfNothing, ExitRequestsAre
<1>5. ASSUME NEW token \in Tokens, NEW amount \in SwapAmounts,
             swapGivenIn(token, amount) \/ swapGivenOut(token, amount)
      PROVE  Kept
  <2>1. amount \in Nat
      BY PoolAssumption
  <2> QED BY <1>5, <2>1, SwapOnCurve DEF swapGivenIn, swapGivenOut
<1> SUFFICES Kept
    OBVIOUS
<1> HIDE DEF Kept
<1>6. CASE UpdateProtocolFeePercentageCache
    BY <1>1, <1>6 DEF UpdateProtocolFeePercentageCache, Administer
<1>7. CASE \E fee \in SwapFees : SetSwapFeePercentage(fee)
    BY <1>1, <1>7 DEF SetSwapFeePercentage, Administer
<1>8. CASE enableRecoveryMode \/ disableRecoveryMode
    BY <1>1, <1>8 DEF enableRecoveryMode, disableRecoveryMode, SetRecoveryMode, Administer
<1>9. CASE pause \/ unpause
    BY <1>1, <1>9 DEF pause, unpause, SetPaused, Administer
<1>10. CASE \E feeType \in {"swap", "yield"}, percentage \in FeePercentages : setFeeTypePercentage(feeType, percentage)
    BY <1>1, <1>10 DEF setFeeTypePercentage, Administer
<1>11. CASE \E newRate \in Rates : RateChanges(newRate)
    BY <1>1, <1>11 DEF RateChanges, Administer
<1>12. CASE UNCHANGED poolVars
    BY <1>1, <1>12 DEF poolVars
<1> QED BY <1>2, <1>3, <1>4, <1>5, <1>6, <1>7, <1>8, <1>9, <1>10, <1>11, <1>12 DEF PoolNext

\* No order of swaps, joins and whatever is administered, however often repeated, takes
\* from the product of the balances: only LPs do, with the BPT they give up.
THEOREM PoolTradesKeepProduct == PoolSpec => TradesKeepProduct
<1>1. PoolInv /\ [PoolNext]_poolVars
      => [bpt'.lp >= bpt.lp => balances'[1] * balances'[2] >= balances[1] * balances[2]]_poolVars
    BY TradeStep
<1> QED BY <1>1, PoolInvariant, PTL DEF PoolSpec, TradesKeepProduct
==============================================================================
