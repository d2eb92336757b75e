------------------------ MODULE PublishedFiles_proofs ------------------------
(***************************************************************************)
(* What pkg/deployments publishes is right, for any contracts, pools,      *)
(* tasks, files and build-infos:                                           *)
(*   - the recorded action ids of a checked network are those the          *)
(*     contracts ask about;                                                *)
(*   - the ABI and bytecode files are those of what the tasks deploy, once *)
(*     checked or extracted;                                               *)
(*   - the sources submitted for a contract are those it was compiled from.*)
(***************************************************************************)
EXTENDS ActionIds, Artifacts, SourceTrimming,
        FiniteSetTheorems, SequenceTheorems, WellFoundedInduction, TLAPS

------------------------------------------------------------------------------
(* The elements of a sequence at some of its places.                       *)

\* Induction over numbers, for a set of them.
LEMMA EveryNumber ==
    ASSUME NEW Good, 0 \in Good, \A n \in Nat : n \in Good => n + 1 \in Good
    PROVE  \A n \in Nat : n \in Good
<1> DEFINE Bad == {n \in Nat : n \notin Good}
<1> SUFFICES ASSUME Bad # {} PROVE FALSE
    OBVIOUS
<1>1. Bad \subseteq Nat /\ IsWellFoundedOn(OpToRel(<, Nat), Nat)
    BY NatLessThanWellFounded
<1> HIDE DEF Bad
<1>2. PICK n \in Bad : \A m \in Bad : ~ (<<m, n>> \in OpToRel(<, Nat))
    BY <1>1, WFMin
<1>3. n \in Nat /\ n \notin Good /\ n # 0
    BY DEF Bad
<1>4. n - 1 \in Nat /\ n - 1 < n /\ (n - 1) + 1 = n
    BY <1>3
<1>5. <<n - 1, n>> \in OpToRel(<, Nat)
    BY <1>3, <1>4 DEF OpToRel
<1>6. n - 1 \in Good
    BY <1>2, <1>4, <1>5 DEF Bad
<1> QED BY <1>3, <1>4, <1>6

\* A set of places has a first one and a last one.
LEMMA FirstPlace ==
    ASSUME NEW I \in SUBSET Nat, I # {}
    PROVE  \E i \in I : \A j \in I : i <= j
<1>1. IsWellFoundedOn(OpToRel(<, Nat), Nat)
    BY NatLessThanWellFounded
<1>2. PICK i \in I : \A j \in I : ~ (<<j, i>> \in OpToRel(<, Nat))
    BY <1>1, WFMin
<1>3. ASSUME NEW j \in I PROVE i <= j
  <2>1. i \in Nat /\ j \in Nat
      OBVIOUS
  <2>2. ASSUME j < i PROVE <<j, i>> \in OpToRel(<, Nat)
      BY <2>1, <2>2 DEF OpToRel
  <2>3. ~ (j < i)
      BY <1>2, <2>2
  <2> QED BY <2>1, <2>3
<1> QED BY <1>3

LEMMA LastPlace ==
    ASSUME NEW n \in Nat, NEW I \in SUBSET (1..n), I # {}
    PROVE  \E i \in I : \A j \in I : j <= i
<1> DEFINE J == {n - i : i \in I}
<1>0. \A i \in I : n - i \in Nat
    OBVIOUS
<1>1. J \in SUBSET Nat /\ J # {}
    BY <1>0
<1> HIDE DEF J
<1>2. PICK m \in J : \A j \in J : m <= j
    BY <1>1, FirstPlace
<1>3. PICK i \in I : m = n - i
    BY <1>2 DEF J
<1>4. ASSUME NEW j \in I PROVE j <= i
  <2>1. n - i <= n - j
      BY <1>2, <1>3 DEF J
  <2> QED BY <2>1
<1> QED BY <1>3, <1>4

\* How many of the places are not after one of them.
Rank(I, i) == Cardinality({j \in I : j <= i})

\* Each place of a set has a rank of its own, and each rank its place.
LEMMA Ranks ==
    ASSUME NEW n \in Nat, NEW I \in SUBSET (1..n)
    PROVE  /\ IsFiniteSet(I) /\ Cardinality(I) \in Nat
           /\ \A i \in I : Rank(I, i) \in 1..Cardinality(I)
           /\ \A i, j \in I : Rank(I, i) = Rank(I, j) => i = j
           /\ \A k \in 1..Cardinality(I) : \E i \in I : Rank(I, i) = k
<1>1. IsFiniteSet(I) /\ Cardinality(I) \in Nat
  <2>1. IsFiniteSet(1..n)
      BY FS_Interval
  <2>2. IsFiniteSet(I)
      BY <2>1, FS_Subset
  <2> QED BY <2>2, FS_CardinalityType
<1> DEFINE Upto(i) == {j \in I : j <= i}
<1>2. ASSUME NEW i \in I
      PROVE  /\ IsFiniteSet(Upto(i)) /\ Cardinality(Upto(i)) \in Nat
             /\ Cardinality(Upto(i)) <= Cardinality(I) /\ Cardinality(Upto(i)) # 0
  <2>1. Upto(i) \in SUBSET I /\ i \in Upto(i)
      OBVIOUS
  <2> HIDE DEF Upto
  <2>2. IsFiniteSet(Upto(i)) /\ Cardinality(Upto(i)) <= Cardinality(I)
      BY <1>1, <2>1, FS_Subset
  <2>3. Cardinality(Upto(i)) \in Nat
      BY <2>2, FS_CardinalityType
  <2>4. Cardinality(Upto(i)) # 0
      BY <2>1, <2>2, FS_EmptySet
  <2> QED BY <2>2, <2>3, <2>4
<1>3. \A i \in I : Rank(I, i) = Cardinality(Upto(i))
    BY DEF Rank
<1>4. ASSUME NEW i \in I, NEW j \in I, i < j PROVE Rank(I, i) # Rank(I, j)
  <2>0. I \subseteq Int
      OBVIOUS
  <2>1. Upto(i) \in SUBSET Upto(j) /\ j \in Upto(j) /\ j \notin Upto(i)
    <3>1. i \in Int /\ j \in Int
        BY <2>0
    <3>2. ASSUME NEW k \in Upto(i) PROVE k \in Upto(j)
        BY <1>4, <2>0, <3>1
    <3>3. j \in Upto(j) /\ j \notin Upto(i)
        BY <1>4, <3>1
    <3> QED BY <3>2, <3>3
  <2> HIDE DEF Upto
  <2>2. Cardinality(Upto(i)) # Cardinality(Upto(j))
      BY <1>2, <2>1, FS_Subset
  <2> QED BY <1>3, <2>2
<1>5. ASSUME NEW i \in I, NEW j \in I, Rank(I, i) = Rank(I, j) PROVE i = j
  <2>1. i \in Nat /\ j \in Nat
      OBVIOUS
  <2> QED BY <1>4, <1>5, <2>1
<1> HIDE DEF Upto
<1>6. \A i \in I : Rank(I, i) \in 1..Cardinality(I)
    BY <1>1, <1>2, <1>3
<1> DEFINE r == [i \in I |-> Rank(I, i)]
<1> HIDE DEF Rank
<1>7. r \in Injection(I, 1..Cardinality(I))
  <2>1. r \in [I -> 1..Cardinality(I)]
      BY <1>6
  <2>2. \A i, j \in I : r[i] = r[j] => i = j
      BY <1>5
  <2> QED BY <2>1, <2>2 DEF Injection, IsInjective
<1>8. IsFiniteSet(1..Cardinality(I)) /\ Cardinality(1..Cardinality(I)) = Cardinality(I)
    BY <1>1, FS_Interval
<1> HIDE DEF r
<1>9. r \in Surjection(I, 1..Cardinality(I))
    BY <1>7, <1>8, FS_Injection
<1>10. \A k \in 1..Cardinality(I) : \E i \in I : Rank(I, i) = k
  <2>1. r \in {M \in [I -> 1..Cardinality(I)] : \A t \in 1..Cardinality(I) : \E i \in I : M[i] = t}
      BY <1>9 DEF Surjection
  <2> QED BY <2>1 DEF r
<1> QED BY <1>1, <1>5, <1>6, <1>10

\* What stands at some places of a sequence: each of them once, by its rank.
LEMMA ThoseAre ==
    ASSUME NEW s, NEW n \in Nat, NEW I \in SUBSET (1..n)
    PROVE  /\ DOMAIN Those(s, I) = 1..Cardinality(I)
           /\ \A k \in 1..Cardinality(I) : \E i \in I : Rank(I, i) = k /\ Those(s, I)[k] = s[i]
           /\ \A i \in I : Rank(I, i) \in 1..Cardinality(I) /\ Those(s, I)[Rank(I, i)] = s[i]
<1> DEFINE Nth(k) == CHOOSE i \in I : Rank(I, i) = k
<1>1. Those(s, I) = [k \in 1..Cardinality(I) |-> s[Nth(k)]]
    BY DEF Those, Rank
<1>2. ASSUME NEW k \in 1..Cardinality(I) PROVE Nth(k) \in I /\ Rank(I, Nth(k)) = k
  <2>1. \E i \in I : Rank(I, i) = k
    <3> HIDE DEF Nth
    <3> QED BY Ranks
  <2> QED BY <2>1
<1> HIDE DEF Nth
<1>3. ASSUME NEW i \in I PROVE Rank(I, i) \in 1..Cardinality(I) /\ Nth(Rank(I, i)) = i
  <2>1. Rank(I, i) \in 1..Cardinality(I)
      BY Ranks
  <2>2. Nth(Rank(I, i)) \in I /\ Rank(I, Nth(Rank(I, i))) = Rank(I, i)
      BY <1>2, <2>1
  <2> QED BY <2>1, <2>2, Ranks
<1> DEFINE T == Those(s, I)
<1>4. DOMAIN T = 1..Cardinality(I) /\ \A k \in 1..Cardinality(I) : T[k] = s[Nth(k)]
    BY <1>1
<1> HIDE DEF T
<1>5. \A k \in 1..Cardinality(I) : \E i \in I : Rank(I, i) = k /\ T[k] = s[i]
    BY <1>2, <1>4
<1>6. \A i \in I : Rank(I, i) \in 1..Cardinality(I) /\ T[Rank(I, i)] = s[i]
    BY <1>3, <1>4
<1> QED BY <1>4, <1>5, <1>6 DEF T

\* Two places of a set are more than one.
LEMMA TwoPlaces ==
    ASSUME NEW n \in Nat, NEW I \in SUBSET (1..n), NEW p \in I, NEW q \in I, p # q
    PROVE  Cardinality(I) > 1
<1>1. IsFiniteSet(I) /\ Cardinality(I) \in Nat
    BY Ranks
<1>2. Cardinality(I) # 0
    BY <1>1, FS_EmptySet
<1>3. Cardinality(I) # 1
  <2>1. ASSUME Cardinality(I) = 1 PROVE \E x : I = {x}
      BY <1>1, <2>1, FS_Singleton
  <2> QED BY <2>1
<1> QED BY <1>1, <1>2, <1>3

------------------------------------------------------------------------------
(* Sequences one after the other.                                          *)

\* What FlattenSeq computes is read from a table of what the first sequences make up together.
FlattenStep(seqs, g) ==
    [i \in 1..Len(seqs) |-> IF i = 1 THEN seqs[i] ELSE g[i - 1] \o seqs[i]]

FlattenTable(seqs) == CHOOSE g : g = FlattenStep(seqs, g)

\* FlattenSeq reads the last place of the table.
LEMMA FlattenFromTable ==
    ASSUME NEW seqs
    PROVE  FlattenSeq(seqs) = IF Len(seqs) = 0 THEN seqs ELSE FlattenTable(seqs)[Len(seqs)]
BY SMT DEF FlattenSeq, FlattenTable, FlattenStep

\* The table is there: one that is right for the first m sequences exists for every m.
LEMMA FlattenTableExists ==
    ASSUME NEW S, NEW n \in Nat, NEW seqs \in [1..n -> Seq(S)]
    PROVE  \E g \in [1..n -> Seq(S)] : g = FlattenStep(seqs, g)
<1>0. Len(seqs) = n
    OBVIOUS
<1> DEFINE Good == {m \in Nat : \E g \in [1..n -> Seq(S)] :
                                    \A i \in 1..n : i <= m => g[i] = FlattenStep(seqs, g)[i]}
<1>1. 0 \in Good
  <2>1. seqs \in [1..n -> Seq(S)] /\ \A i \in 1..n : ~ (i <= 0)
      OBVIOUS
  <2> QED BY <2>1
<1>2. ASSUME NEW m \in Nat, m \in Good PROVE m + 1 \in Good
  <2>1. PICK g \in [1..n -> Seq(S)] : \A i \in 1..n : i <= m => g[i] = FlattenStep(seqs, g)[i]
      BY <1>2
  <2> DEFINE h == [i \in 1..n |-> IF i = 1 THEN seqs[i] ELSE g[i - 1] \o seqs[i]]
  <2>2. h \in [1..n -> Seq(S)]
    <3>1. ASSUME NEW i \in 1..n, i # 1 PROVE g[i - 1] \o seqs[i] \in Seq(S)
      <4>1. i - 1 \in 1..n
          BY <3>1
      <4>2. g[i - 1] \in Seq(S) /\ seqs[i] \in Seq(S)
          BY <4>1
      <4> QED BY <4>2, ConcatProperties
    <3> QED BY <3>1
  <2>3. ASSUME NEW i \in 1..n, i <= m + 1 PROVE h[i] = FlattenStep(seqs, h)[i]
    <3>1. CASE i = 1
        BY <1>0, <3>1 DEF FlattenStep
    <3>2. CASE i # 1
      <4>1. i - 1 \in 1..n /\ i - 1 <= m
          BY <2>3, <3>2
      <4>2. g[i - 1] = h[i - 1]
          BY <1>0, <2>1, <4>1 DEF FlattenStep
      <4>3. h[i] = g[i - 1] \o seqs[i]
          BY <3>2
      <4>4. FlattenStep(seqs, h)[i] = h[i - 1] \o seqs[i]
          BY <1>0, <3>2 DEF FlattenStep
      <4> QED BY <4>2, <4>3, <4>4
    <3> QED BY <3>1, <3>2
  <2> HIDE DEF h
  <2>4. \A i \in 1..n : i <= m + 1 => h[i] = FlattenStep(seqs, h)[i]
      BY <2>3
  <2>5. \E f \in [1..n -> Seq(S)] : \A i \in 1..n : i <= m + 1 => f[i] = FlattenStep(seqs, f)[i]
      BY <2>2, <2>4, Zenon
  <2>6. m + 1 \in Nat
      OBVIOUS
  <2> QED BY <2>5, <2>6
<1>3. n \in Good
  <2> HIDE DEF Good
  <2> QED BY <1>1, <1>2, EveryNumber
<1>4. PICK g \in [1..n -> Seq(S)] : \A i \in 1..n : i <= n => g[i] = FlattenStep(seqs, g)[i]
    BY <1>3
<1>5. \A i \in 1..n : g[i] = FlattenStep(seqs, g)[i]
    BY <1>4
<1>6. g = FlattenStep(seqs, g)
    BY <1>0, <1>5 DEF FlattenStep
<1> QED BY <1>6

\* All elements of the sequences are in the one they are put together to.
HasAll(flat, seqs, n) ==
    \A i \in 1..n : \A k \in 1..Len(seqs[i]) : \E p \in 1..Len(flat) : flat[p] = seqs[i][k]

LEMMA FlattenHasAll ==
    ASSUME NEW S, NEW n \in Nat, NEW seqs \in [1..n -> Seq(S)]
    PROVE  FlattenSeq(seqs) \in Seq(S) /\ HasAll(FlattenSeq(seqs), seqs, n)
<1>0. Len(seqs) = n
    OBVIOUS
<1>1. CASE n = 0
  <2>1. seqs = <<>>
      BY <1>1
  <2>2. FlattenSeq(seqs) = <<>>
      BY <1>0, <1>1, <2>1, FlattenFromTable
  <2> QED BY <1>1, <2>2 DEF HasAll
<1>2. CASE n # 0
  <2> DEFINE g == FlattenTable(seqs)
  <2>1. PICK h \in [1..n -> Seq(S)] : h = FlattenStep(seqs, h)
      BY FlattenTableExists
  <2>2. g = FlattenStep(seqs, g)
      BY <2>1 DEF FlattenTable
  <2> HIDE DEF g
  <2>3. \A i \in 1..n : g[i] = IF i = 1 THEN seqs[i] ELSE g[i - 1] \o seqs[i]
      BY <1>0, <2>2 DEF FlattenStep
  <2> DEFINE Has(m) == /\ g[m] \in Seq(S)
                       /\ \A i \in 1..m : \A k \in 1..Len(seqs[i]) :
                             \E p \in 1..Len(g[m]) : g[m][p] = seqs[i][k]
             Good == {m \in Nat : m + 1 \in 1..n => Has(m + 1)}
  <2>4. ASSUME 1 \in 1..n PROVE Has(1)
    <3>1. g[1] = seqs[1] /\ seqs[1] \in Seq(S)
        BY <2>3, <2>4
    <3>2. \A i \in 1..1 : i = 1
        OBVIOUS
    <3> QED BY <3>1, <3>2
  <2>5. ASSUME NEW m \in 2..n, Has(m - 1) PROVE Has(m)
    <3> DEFINE a == g[m - 1]
               b == seqs[m]
    <3>1. m \in 1..n /\ m # 1 /\ m - 1 \in 1..n /\ m \in Int
        OBVIOUS
    <3>2. a \in Seq(S) /\ b \in Seq(S) /\ g[m] = a \o b
        BY <2>3, <2>5, <3>1
    <3>3. \A i \in 1..(m - 1) : \A k \in 1..Len(seqs[i]) : \E p \in 1..Len(a) : a[p] = seqs[i][k]
        BY <2>5
    <3> HIDE DEF a, b
    <3>4. Len(a) \in Nat /\ Len(b) \in Nat
        BY <3>2, LenProperties
    <3>5. /\ g[m] \in Seq(S)
          /\ Len(g[m]) = Len(a) + Len(b)
          /\ \A p \in 1..Len(a) + Len(b) : g[m][p] = IF p <= Len(a) THEN a[p] ELSE b[p - Len(a)]
        BY <3>2, ConcatProperties
    <3>6. ASSUME NEW i \in 1..m, NEW k \in 1..Len(seqs[i])
          PROVE  \E p \in 1..Len(g[m]) : g[m][p] = seqs[i][k]
      <4>1. CASE i = m
        <5>0. k \in 1..Len(b)
            BY <4>1 DEF b
        <5>1. k + Len(a) \in 1..Len(a) + Len(b) /\ ~ (k + Len(a) <= Len(a)) /\ (k + Len(a)) - Len(a) = k
            BY <3>4, <5>0
        <5>2. g[m][k + Len(a)] = b[k]
            BY <3>5, <5>1
        <5> QED BY <3>5, <4>1, <5>1, <5>2 DEF b
      <4>2. CASE i # m
        <5>1. i \in 1..(m - 1)
            BY <3>1, <4>2
        <5>2. PICK p \in 1..Len(a) : a[p] = seqs[i][k]
            BY <3>3, <5>1
        <5>3. p \in 1..Len(a) + Len(b) /\ p <= Len(a)
            BY <3>4
        <5>4. g[m][p] = a[p]
            BY <3>5, <5>3
        <5> QED BY <3>5, <5>2, <5>3, <5>4
      <4> QED BY <4>1, <4>2
    <3> QED BY <3>5, <3>6
  <2> HIDE DEF Has
  <2>6. \A m \in Nat : m \in Good
    <3>1. 0 \in Good
      <4>1. 0 + 1 = 1
          OBVIOUS
      <4> QED BY <2>4, <4>1
    <3>2. ASSUME NEW m \in Nat, m \in Good PROVE m + 1 \in Good
      <4>1. SUFFICES ASSUME (m + 1) + 1 \in 1..n PROVE Has((m + 1) + 1)
          OBVIOUS
      <4>2. m + 1 \in 1..n /\ (m + 1) + 1 \in 2..n /\ ((m + 1) + 1) - 1 = m + 1
          BY <4>1
      <4>3. Has(m + 1)
          BY <3>2, <4>2
      <4> DEFINE k == (m + 1) + 1
      <4>4. k \in 2..n /\ Has(k - 1)
          BY <4>2, <4>3
      <4> HIDE DEF k
      <4>5. Has(k)
          BY <2>5, <4>4
      <4> QED BY <4>5 DEF k
    <3> HIDE DEF Good
    <3> QED BY <3>1, <3>2, EveryNumber
  <2>7. Has(n)
    <3>1. n - 1 \in Nat /\ (n - 1) + 1 = n /\ n \in 1..n
        BY <1>2
    <3>2. n - 1 \in Good
        BY <2>6, <3>1
    <3> QED BY <3>1, <3>2
  <2>8. FlattenSeq(seqs) = g[n]
      BY <1>0, <1>2, FlattenFromTable DEF g
  <2>9. g[n] \in Seq(S) /\ HasAll(g[n], seqs, n)
      BY <2>7 DEF Has, HasAll
  <2> QED BY <2>8, <2>9
<1> QED BY <1>1, <1>2

------------------------------------------------------------------------------
(* Collisions and ids.                                                     *)

\* Two places with one id are both listed with it.
LEMMA SharedIsListed ==
    ASSUME NEW n \in Nat, NEW instances, DOMAIN instances = 1..n,
           NEW p \in 1..n, NEW q \in 1..n, p # q, instances[p].id = instances[q].id
    PROVE  \E k \in DOMAIN getDuplicateActionIds(instances) :
              LET item == getDuplicateActionIds(instances)[k]
              IN  /\ item.id = instances[p].id
                  /\ instances[p].info \in Range(item.infos)
                  /\ instances[q].info \in Range(item.infos)
<1> DEFINE id == instances[p].id
           W  == WithId(instances, id)
           F  == FirstPlaces(1, instances)
           first == Those(instances, F)
           all   == Those(instances, W)
<1>1. W \in SUBSET (1..n) /\ F \in SUBSET (1..n) /\ p \in W /\ q \in W
    BY DEF WithId, FirstPlaces
<1>2. \A i \in W : instances[i].id = id
    BY DEF WithId
<1>3. PICK f \in W : \A j \in W : f <= j
  <2>1. W \in SUBSET Nat /\ W # {}
      BY <1>1
  <2> HIDE DEF W
  <2> QED BY <2>1, FirstPlace
<1>4. Cardinality(W) > 1
  <2> HIDE DEF W
  <2> QED BY <1>1, TwoPlaces
<1>5. f \in F
    BY <1>1, <1>2, <1>3, <1>4 DEF FirstPlaces
<1> HIDE DEF W, F
<1>0. ASSUME NEW I \in SUBSET (1..n), NEW i \in I
      PROVE  \E j \in DOMAIN Those(instances, I) : Those(instances, I)[j] = instances[i]
  <2>1. /\ DOMAIN Those(instances, I) = 1..Cardinality(I)
        /\ Rank(I, i) \in 1..Cardinality(I)
        /\ Those(instances, I)[Rank(I, i)] = instances[i]
      BY ThoseAre
  <2> QED BY <2>1
<1>6. PICK k \in DOMAIN first : first[k] = instances[f]
    BY <1>0, <1>1, <1>5
<1>7. /\ \E j \in DOMAIN all : all[j] = instances[p]
      /\ \E j \in DOMAIN all : all[j] = instances[q]
    BY <1>0, <1>1
<1> DEFINE listed == getDuplicateActionIds(instances)
<1>8. /\ DOMAIN listed = DOMAIN first
      /\ listed[k].id = id
      /\ listed[k].infos = [j \in DOMAIN all |-> all[j].info]
  <2>1. first[k].id = id
      BY <1>2, <1>3, <1>6
  <2>2. listed = [m \in DOMAIN first |->
            [id |-> first[m].id,
             infos |-> [j \in DOMAIN Those(instances, WithId(instances, first[m].id)) |->
                           Those(instances, WithId(instances, first[m].id))[j].info]]]
      BY DEF getDuplicateActionIds, SharedByMoreThan, F
  <2> HIDE DEF first
  <2>3. listed[k] = [id |-> first[k].id,
             infos |-> [j \in DOMAIN Those(instances, WithId(instances, first[k].id)) |->
                           Those(instances, WithId(instances, first[k].id))[j].info]]
      BY <1>6, <2>2
  <2> QED BY <2>1, <2>2, <2>3 DEF W
<1>9. /\ instances[p].info \in Range(listed[k].infos)
      /\ instances[q].info \in Range(listed[k].infos)
  <2> HIDE DEF all, listed
  <2> QED BY <1>7, <1>8 DEF Range
<1> QED BY <1>6, <1>8, <1>9

\* The ids of a contract are those of its functions that are not ignored, each listed once.
LEMMA IdsOfFunctions ==
    ASSUME NEW c \in Contracts, NEW a
    PROVE  LET now == getActionIds(c, a)
           IN  /\ now.useAdaptor = (c \notin Aware)
               /\ now.actionIds \in Seq(Range(now.actionIds))
               /\ \A i, j \in DOMAIN now.actionIds : now.actionIds[i][1] = now.actionIds[j][1] => i = j
               /\ \A f \in Range(Abi[c]) \ ignored :
                     <<f, <<Disambiguator(getActionIdSource(c, a).source), f>> >> \in Range(now.actionIds)
<1> DEFINE s == Abi[c]
           I == {i \in DOMAIN s : s[i] \notin ignored}
           T == Those(s, I)
           d == Disambiguator(getActionIdSource(c, a).source)
           now == getActionIds(c, a)
<1>1. s \in Seq(Range(s)) /\ \A i, j \in DOMAIN s : s[i] = s[j] => i = j
    BY ActionIdsAssumption
<1>2. Len(s) \in Nat /\ DOMAIN s = 1..Len(s)
    BY <1>1, LenProperties
<1> HIDE DEF s
<1>3. I \in SUBSET (1..Len(s))
    BY <1>2
<1>4. /\ now.useAdaptor = (c \notin Aware)
      /\ now.actionIds = [i \in DOMAIN T |-> <<T[i], <<d, T[i]>> >>]
    BY DEF getActionIds, getActionIdSource, getActionIdsFromSource, s
<1> HIDE DEF I, d, now
<1>5. /\ DOMAIN T = 1..Cardinality(I) /\ Cardinality(I) \in Nat
      /\ \A k \in 1..Cardinality(I) : \E i \in I : Rank(I, i) = k /\ T[k] = s[i]
      /\ \A i \in I : Rank(I, i) \in 1..Cardinality(I) /\ T[Rank(I, i)] = s[i]
    BY <1>2, <1>3, ThoseAre, Ranks
<1> HIDE DEF T
<1>6. now.actionIds \in Seq(Range(now.actionIds))
  <2>1. now.actionIds \in [1..Cardinality(I) -> Range(now.actionIds)]
      BY <1>4, <1>5 DEF Range
  <2> QED BY <1>5, <2>1
<1>7. ASSUME NEW k \in DOMAIN T, NEW l \in DOMAIN T, T[k] = T[l] PROVE k = l
  <2>1. PICK i \in I : Rank(I, i) = k /\ T[k] = s[i]
      BY <1>5
  <2>2. PICK j \in I : Rank(I, j) = l /\ T[l] = s[j]
      BY <1>5
  <2>3. i \in DOMAIN s /\ j \in DOMAIN s
      BY <1>2, <1>3
  <2>4. i = j
      BY <1>1, <1>7, <2>1, <2>2, <2>3
  <2> QED BY <2>1, <2>2, <2>4
<1>8. \A i, j \in DOMAIN now.actionIds : now.actionIds[i][1] = now.actionIds[j][1] => i = j
    BY <1>4, <1>7
<1>9. ASSUME NEW f \in Range(s) \ ignored PROVE <<f, <<d, f>> >> \in Range(now.actionIds)
  <2>1. PICK i \in DOMAIN s : s[i] = f
      BY DEF Range
  <2>2. i \in I
      BY <2>1 DEF I
  <2>3. PICK k \in DOMAIN T : T[k] = f
      BY <1>5, <2>1, <2>2
  <2> QED BY <1>4, <2>3 DEF Range
<1> QED BY <1>4, <1>6, <1>8, <1>9 DEF s, d, now

------------------------------------------------------------------------------
(* The inductive invariant.                                                *)

\* An entry names a contract, says truly whether the adaptor was asked, and lists each function once.
EntryOK(e) ==
    /\ e.contract \in Contracts
    /\ e.useAdaptor = (e.contract \notin Aware)
    /\ e.actionIds \in Seq(Range(e.actionIds))
    /\ \A i, j \in DOMAIN e.actionIds : e.actionIds[i][1] = e.actionIds[j][1] => i = j

\* The file has one entry for a contract.
FileInv ==
    /\ file \in Seq(Range(file))
    /\ \A i \in DOMAIN file : EntryOK(file[i])
    /\ \A i, j \in DOMAIN file : file[i].contract = file[j].contract => i = j

\* A run saves contracts, and what it has computed is an entry.
SavingInv ==
    /\ saving = [queue |-> saving.queue, entry |-> saving.entry]
    /\ saving.queue \in Seq(Range(saving.queue))
    /\ \A i \in DOMAIN saving.queue : saving.queue[i].contract \in Contracts
    /\ saving.entry # None => EntryOK(saving.entry)

PoolsInv == \A p \in pools : p.of \in Pools

VerdictInv == verdict = "passed" => (\A i \in DOMAIN file : IdsMatch(file[i])) /\ Unique

IdInv == FileInv /\ SavingInv /\ PoolsInv /\ VerdictInv

\* There are no records, and no run, to begin with.
LEMMA IdInitInv == IdInit => IdInv
<1> SUFFICES ASSUME IdInit PROVE IdInv
    OBVIOUS
<1>1. file = <<>> /\ pools = {} /\ verdict = "none" /\ saving = [queue |-> <<>>, entry |-> None]
    BY DEF IdInit, Idle
<1>2. FileInv
    BY <1>1 DEF FileInv
<1>3. SavingInv
    BY <1>1 DEF SavingInv
<1>4. PoolsInv
    BY <1>1 DEF PoolsInv
<1>5. VerdictInv
    BY <1>1 DEF VerdictInv
<1> QED BY <1>2, <1>3, <1>4, <1>5 DEF IdInv

\* An element put into a sequence.
LEMMA Inserted ==
    ASSUME NEW s, s \in Seq(Range(s)), NEW q \in 1..(Len(s) + 1), NEW e
    PROVE  /\ InsertAt(s, q, e) \in Seq(Range(InsertAt(s, q, e)))
           /\ DOMAIN InsertAt(s, q, e) = 1..(Len(s) + 1)
           /\ \A i \in 1..(Len(s) + 1) :
                 InsertAt(s, q, e)[i] = IF i < q THEN s[i] ELSE IF i = q THEN e ELSE s[i - 1]
<1> DEFINE S == Range(s) \cup {e}
           n == Len(s)
           a == SubSeq(s, 1, q - 1)
           b == SubSeq(s, q, n)
           t == InsertAt(s, q, e)
<1>1. n \in Nat /\ s \in [1..n -> Range(s)] /\ DOMAIN s = 1..n
    BY LenProperties
<1>2. q \in Int /\ q - 1 \in Int /\ q - 1 <= n /\ 1 <= q
    BY <1>1
<1>3. /\ a \in Seq(S) /\ Len(a) = q - 1
      /\ \A i \in 1..(q - 1) : a[i] = s[i]
  <2>1. \A i \in 1..(q - 1) : s[i] \in S
      BY <1>1, <1>2
  <2>2. /\ a \in Seq(S) /\ Len(a) = IF 1 <= q - 1 THEN (q - 1) - 1 + 1 ELSE 0
        /\ \A i \in 1..((q - 1) - 1 + 1) : a[i] = s[1 + i - 1]
    <3> HIDE DEF S
    <3> QED BY <1>2, <2>1, SubSeqProperties
  <2>3. (q - 1) - 1 + 1 = q - 1 /\ \A i \in 1..(q - 1) : 1 + i - 1 = i
      BY <1>2
  <2> HIDE DEF a
  <2> QED BY <1>2, <2>2, <2>3
<1>4. /\ b \in Seq(S) /\ Len(b) = n - q + 1
      /\ \A i \in 1..(n - q + 1) : b[i] = s[q + i - 1]
  <2>1. \A i \in q..n : s[i] \in S
      BY <1>1, <1>2
  <2>2. /\ b \in Seq(S) /\ Len(b) = IF q <= n THEN n - q + 1 ELSE 0
        /\ \A i \in 1..(n - q + 1) : b[i] = s[q + i - 1]
    <3> HIDE DEF S
    <3> QED BY <1>1, <1>2, <2>1, SubSeqProperties
  <2>3. ~ (q <= n) => n - q + 1 = 0
      BY <1>1, <1>2
  <2> HIDE DEF b
  <2> QED BY <2>2, <2>3
<1>5. <<e>> \in Seq(S) /\ Len(<<e>>) = 1 /\ <<e>>[1] = e
    OBVIOUS
<1> HIDE DEF S
<1> DEFINE m == a \o <<e>>
<1>6. t = m \o b
    BY DEF InsertAt
<1> HIDE DEF a, b, t
<1>7. /\ m \in Seq(S) /\ Len(m) = q
      /\ \A i \in 1..q : m[i] = IF i < q THEN s[i] ELSE e
  <2>1. /\ m \in Seq(S) /\ Len(m) = (q - 1) + 1
        /\ \A i \in 1..((q - 1) + 1) : m[i] = IF i <= q - 1 THEN a[i] ELSE <<e>>[i - (q - 1)]
      BY <1>3, <1>5, ConcatProperties
  <2>2. (q - 1) + 1 = q
      BY <1>2
  <2>3. ASSUME NEW i \in 1..q PROVE m[i] = IF i < q THEN s[i] ELSE e
    <3>1. CASE i < q
      <4>1. i \in 1..(q - 1) /\ i <= q - 1
          BY <1>2, <3>1
      <4> QED BY <1>3, <2>1, <2>2, <3>1, <4>1
    <3>2. CASE i = q
      <4>1. i \in 1..((q - 1) + 1) /\ ~ (i <= q - 1) /\ ~ (i < q)
          BY <1>2, <2>2, <3>2
      <4>2. m[i] = <<e>>[i - (q - 1)]
          BY <2>1, <4>1
      <4>3. i - (q - 1) = 1
          BY <1>2, <3>2
      <4> QED BY <1>5, <4>1, <4>2, <4>3
    <3>3. i < q \/ i = q
        BY <1>2
    <3> QED BY <3>1, <3>2, <3>3
  <2> QED BY <2>1, <2>2, <2>3
<1> HIDE DEF m
<1>8. /\ t \in Seq(S) /\ Len(t) = q + (n - q + 1)
      /\ \A i \in 1..(q + (n - q + 1)) : t[i] = IF i <= q THEN m[i] ELSE b[i - q]
    BY <1>4, <1>6, <1>7, ConcatProperties
<1>9. q + (n - q + 1) = n + 1
    BY <1>1, <1>2
<1>10. t \in Seq(S) /\ Len(t) = n + 1 /\ DOMAIN t = 1..(n + 1)
  <2>1. t \in Seq(S) /\ Len(t) = n + 1
      BY <1>8, <1>9
  <2> QED BY <2>1, LenProperties
<1>11. ASSUME NEW i \in 1..(n + 1) PROVE t[i] = IF i < q THEN s[i] ELSE IF i = q THEN e ELSE s[i - 1]
  <2>1. t[i] = IF i <= q THEN m[i] ELSE b[i - q]
      BY <1>8, <1>9
  <2>2. CASE i <= q
    <3>1. i \in 1..q
        BY <1>2, <2>2
    <3> QED BY <1>2, <1>7, <2>1, <2>2, <3>1
  <2>3. CASE i > q
    <3>1. i - q \in 1..(n - q + 1) /\ q + (i - q) - 1 = i - 1 /\ ~ (i <= q) /\ ~ (i < q) /\ i # q
        BY <1>1, <1>2, <2>3
    <3> QED BY <1>4, <2>1, <3>1
  <2> QED BY <1>2, <2>2, <2>3
<1>12. t \in Seq(Range(t))
  <2>1. n + 1 \in Nat
      BY <1>1
  <2>2. t \in [1..(n + 1) -> Range(t)]
    <3>1. t = [i \in 1..(n + 1) |-> t[i]]
      <4>1. t \in [1..(n + 1) -> S]
          BY <1>10, LenProperties
      <4> QED BY <4>1
    <3> QED BY <1>10, <3>1 DEF Range
  <2> QED BY <2>1, <2>2
<1> QED BY <1>10, <1>11, <1>12 DEF t

\* A write leaves entries that are right, one for each contract.
LEMMA WrittenFile ==
    ASSUME FileInv, NEW entry, EntryOK(entry)
    PROVE  LET new == WriteEntry(entry)
           IN  /\ new \in Seq(Range(new))
               /\ \A i \in DOMAIN new : EntryOK(new[i])
               /\ \A i, j \in DOMAIN new : new[i].contract = new[j].contract => i = j
<1> DEFINE new == WriteEntry(entry)
           n == Len(file)
<1>1. /\ n \in Nat /\ DOMAIN file = 1..n /\ file \in Seq(Range(file))
      /\ \A i \in DOMAIN file : EntryOK(file[i])
      /\ \A i, j \in DOMAIN file : file[i].contract = file[j].contract => i = j
    BY LenProperties DEF FileInv
<1>2. CASE entry.contract \in RecordedIds
  <2>1. new = [i \in DOMAIN file |-> IF file[i].contract = entry.contract THEN entry ELSE file[i]]
      BY <1>2 DEF WriteEntry
  <2> HIDE DEF new
  <2>2. new \in [1..n -> Range(new)]
      BY <1>1, <2>1 DEF Range
  <2>3. new \in Seq(Range(new))
      BY <1>1, <2>2
  <2>4. \A i \in DOMAIN new : EntryOK(new[i])
      BY <1>1, <2>1
  <2>5. \A i \in DOMAIN file : new[i].contract = file[i].contract
      BY <2>1
  <2>6. \A i, j \in DOMAIN new : new[i].contract = new[j].contract => i = j
      BY <1>1, <2>1, <2>5
  <2> QED BY <2>3, <2>4, <2>6 DEF new
<1>3. CASE entry.contract \notin RecordedIds
  <2> DEFINE mates == {i \in DOMAIN file : file[i].contract[1] = entry.contract[1]}
             last  == IF mates = {} THEN n ELSE CHOOSE i \in mates : \A j \in mates : j <= i
             q == last + 1
  <2>1. new = InsertAt(file, q, entry)
      BY <1>3 DEF WriteEntry
  <2>2. q \in 1..(n + 1)
    <3>1. CASE mates = {}
        BY <1>1, <3>1
    <3>2. CASE mates # {}
      <4>1. mates \in SUBSET (1..n)
          BY <1>1
      <4> HIDE DEF mates
      <4>2. \E i \in mates : \A j \in mates : j <= i
          BY <1>1, <3>2, <4>1, LastPlace
      <4>3. last \in mates
          BY <3>2, <4>2
      <4> HIDE DEF last
      <4>4. last \in 1..n
          BY <4>1, <4>3
      <4> QED BY <1>1, <4>4
    <3> QED BY <3>1, <3>2
  <2> HIDE DEF q
  <2>3. /\ new \in Seq(Range(new)) /\ DOMAIN new = 1..(n + 1)
        /\ \A i \in 1..(n + 1) : new[i] = IF i < q THEN file[i] ELSE IF i = q THEN entry ELSE file[i - 1]
      BY <1>1, <2>1, <2>2, Inserted
  <2> HIDE DEF new
  <2> DEFINE Old(i) == IF i < q THEN i ELSE i - 1
  <2>4. ASSUME NEW i \in 1..(n + 1), i # q PROVE Old(i) \in DOMAIN file /\ new[i] = file[Old(i)]
    <3>1. Old(i) \in 1..n
        BY <1>1, <2>2, <2>4
    <3>2. new[i] = file[Old(i)]
        BY <2>3, <2>4
    <3> QED BY <1>1, <3>1, <3>2
  <2>5. new[q] = entry
      BY <2>2, <2>3
  <2>6. ASSUME NEW i \in 1..(n + 1), NEW j \in 1..(n + 1), i # q, j # q, Old(i) = Old(j) PROVE i = j
      BY <1>1, <2>2, <2>6
  <2> HIDE DEF Old
  <2>7. \A i \in DOMAIN new : EntryOK(new[i])
      BY <1>1, <2>3, <2>4, <2>5
  <2>8. ASSUME NEW i \in 1..(n + 1), i # q PROVE new[i].contract # entry.contract
      BY <1>3, <2>4, <2>8 DEF RecordedIds
  <2>9. ASSUME NEW i \in DOMAIN new, NEW j \in DOMAIN new, new[i].contract = new[j].contract PROVE i = j
    <3>1. CASE i = q \/ j = q
        BY <2>3, <2>5, <2>8, <2>9, <3>1
    <3>2. CASE i # q /\ j # q
        BY <1>1, <2>3, <2>4, <2>6, <2>9, <3>2
    <3> QED BY <3>1, <3>2
  <2> QED BY <2>3, <2>7, <2>9 DEF new
<1> QED BY <1>2, <1>3

\* What a check found stays so while contracts, files and expectations do.
LEMMA StillMatching ==
    ASSUME deployed' = deployed, \A p \in pools : p \in pools', file' = file, expected' = expected,
           \A i \in DOMAIN file : IdsMatch(file[i]), Unique
    PROVE  (\A i \in DOMAIN file : IdsMatch(file[i]))' /\ Unique'
<1>1. ASSUME NEW i \in DOMAIN file PROVE IdsMatch(file[i])'
  <2>1. IdsMatch(file[i])
      OBVIOUS
  <2> QED BY <2>1 DEF IdsMatch, Readable, checkFactoryOutput, isPoolFromFactory, getActionIds,
                      getActionIdSource, getActionIdsFromSource, Disambiguator, Address
<1>2. Unique'
  <2>1. Instances' = Instances
      BY DEF Instances
  <2> QED BY <2>1 DEF Unique
<1> QED BY <1>1, <1>2

\* What was found by a check that passed, after a step that changes nothing of it.
LEMMA VerdictKept ==
    ASSUME VerdictInv,
           verdict' # "none" => /\ verdict' = verdict /\ deployed' = deployed
                                /\ \A p \in pools : p \in pools'
                                /\ file' = file /\ expected' = expected
    PROVE  VerdictInv'
<1> SUFFICES ASSUME verdict' = "passed" PROVE (\A i \in DOMAIN file : IdsMatch(file[i]))' /\ Unique'
    BY DEF VerdictInv
<1>1. verdict = "passed" /\ verdict' # "none"
    OBVIOUS
<1>2. (\A i \in DOMAIN file : IdsMatch(file[i])) /\ Unique
    BY <1>1 DEF VerdictInv
<1>3. deployed' = deployed /\ (\A p \in pools : p \in pools') /\ file' = file /\ expected' = expected
    BY <1>1
<1> QED BY <1>2, <1>3, StillMatching

\* Every command, every run cut short and every change of the chain preserves it.
LEMMA IdNextInv == IdInv /\ [IdNext]_idVars => IdInv'
<1> SUFFICES ASSUME IdInv, [IdNext]_idVars PROVE IdInv'
    OBVIOUS
<1> USE DEF IdInv
<1>a. Contracts = Range(Outputs) \cup Pools /\ Outputs \in Seq(Range(Outputs))
    BY ActionIdsAssumption DEF Contracts
<1>f. ASSUME file' = file PROVE FileInv'
    BY <1>f DEF FileInv, EntryOK
<1>s. ASSUME saving' = saving PROVE SavingInv'
    BY <1>s DEF SavingInv, EntryOK
<1>i. ASSUME saving' = Idle PROVE SavingInv'
  <2>1. saving' = [queue |-> <<>>, entry |-> None]
      BY <1>i DEF Idle
  <2> QED BY <2>1 DEF SavingInv
<1>q. ASSUME NEW queue, queue \in Seq(Range(queue)), StartSaving(queue),
             \A i \in DOMAIN queue : queue[i].contract \in Contracts
      PROVE  IdInv'
  <2>1. SavingInv'
    <3>1. saving' = [queue |-> queue, entry |-> None]
        BY <1>q DEF StartSaving
    <3> QED BY <1>q, <3>1 DEF SavingInv
  <2>2. FileInv' /\ PoolsInv' /\ VerdictInv'
      BY <1>q, <1>f, VerdictKept DEF StartSaving, PoolsInv
  <2> QED BY <2>1, <2>2
<1>1. CASE StartSaving(AllJobs)
  <2>1. /\ AllJobs = [i \in DOMAIN Outputs |-> Job(Outputs[i], None)]
        /\ DOMAIN Outputs = 1..Len(Outputs) /\ Len(Outputs) \in Nat
      BY <1>a, LenProperties DEF AllJobs
  <2>2. AllJobs \in [1..Len(Outputs) -> Range(AllJobs)]
      BY <2>1 DEF Range
  <2>3. AllJobs \in Seq(Range(AllJobs))
      BY <2>1, <2>2
  <2>4. \A i \in DOMAIN AllJobs : AllJobs[i].contract \in Contracts
      BY <1>a, <2>1 DEF Range, Job
  <2> QED BY <1>1, <1>q, <2>3, <2>4
<1>2. ASSUME NEW c \in Contracts, NEW a, StartSaving(<<Job(c, a)>>) PROVE IdInv'
  <2> DEFINE single == <<Job(c, a)>>
  <2>1. single \in Seq(Range(single))
    <3>1. Job(c, a) \in Range(single)
        BY DEF Range
    <3> QED BY <3>1
  <2>2. \A i \in DOMAIN single : single[i].contract \in Contracts
      BY DEF Job
  <2> HIDE DEF single
  <2> QED BY <1>2, <1>q, <2>1, <2>2 DEF single
<1>3. CASE ComputeIds
  <2>1. saving.queue # <<>> /\ saving.queue \in Seq(Range(saving.queue))
      BY <1>3 DEF ComputeIds, SavingInv
  <2> DEFINE job == Head(saving.queue)
             ids == getActionIds(job.contract, job.factoryOutput)
             entry == [contract |-> job.contract, useAdaptor |-> ids.useAdaptor,
                       factoryOutput |-> job.factoryOutput, actionIds |-> ids.actionIds]
  <2>2. job.contract \in Contracts
    <3>1. job = saving.queue[1] /\ 1 \in DOMAIN saving.queue
        BY <2>1
    <3> QED BY <3>1 DEF SavingInv
  <2>3. EntryOK(entry)
    <3> HIDE DEF job
    <3> QED BY <2>2, IdsOfFunctions DEF EntryOK
  <2>4. saving' = Idle \/ saving' = [saving EXCEPT !.entry = entry]
      BY <1>3 DEF ComputeIds
  <2> HIDE DEF entry
  <2>5. SavingInv'
    <3>1. CASE saving' = Idle
        BY <1>i, <3>1
    <3>2. CASE saving' = [saving EXCEPT !.entry = entry]
      <4>1. saving' = [queue |-> saving.queue, entry |-> entry]
          BY <3>2 DEF SavingInv
      <4> QED BY <2>3, <4>1 DEF SavingInv, EntryOK
    <3> QED BY <2>4, <3>1, <3>2
  <2>6. FileInv' /\ PoolsInv' /\ VerdictInv'
      BY <1>3, <1>f, VerdictKept DEF ComputeIds, PoolsInv
  <2> QED BY <2>5, <2>6
<1>4. CASE saveActionIds
  <2>1. EntryOK(saving.entry)
      BY <1>4 DEF saveActionIds, SavingInv
  <2>2. FileInv'
    <3>1. file' = WriteEntry(saving.entry)
        BY <1>4 DEF saveActionIds
    <3>2. /\ file' \in Seq(Range(file'))
          /\ \A i \in DOMAIN file' : EntryOK(file'[i])
          /\ \A i, j \in DOMAIN file' : file'[i].contract = file'[j].contract => i = j
        BY <2>1, <3>1, WrittenFile
    <3> QED BY <3>2 DEF FileInv, EntryOK
  <2>3. SavingInv'
    <3> DEFINE q == saving.queue
               t == Tail(q)
    <3>1. saving' = [queue |-> t, entry |-> None]
        BY <1>4 DEF saveActionIds
    <3>2. q # <<>> => /\ Len(t) \in Nat /\ DOMAIN t = 1..Len(t) /\ t \in Seq(Range(q))
                      /\ \A i \in DOMAIN t : i + 1 \in DOMAIN q /\ t[i] = q[i + 1]
      <4>1. q \in Seq(Range(q))
          BY DEF SavingInv
      <4> HIDE DEF q
      <4> QED BY <4>1, HeadTailProperties, LenProperties
    <3>3. q = <<>> => t = <<>>
        OBVIOUS
    <3> HIDE DEF t
    <3>4. t \in Seq(Range(t)) /\ \A i \in DOMAIN t : t[i].contract \in Contracts
      <4>1. CASE q = <<>>
          BY <3>3, <4>1
      <4>2. CASE q # <<>>
        <5>1. t \in [1..Len(t) -> Range(t)]
            BY <3>2, <4>2, LenProperties DEF Range
        <5> QED BY <3>2, <4>2, <5>1 DEF SavingInv
      <4> QED BY <4>1, <4>2
    <3> QED BY <3>1, <3>4 DEF SavingInv
  <2>4. VerdictInv'
      BY <1>4, VerdictKept DEF saveActionIds
  <2>5. PoolsInv'
      BY <1>4 DEF saveActionIds, PoolsInv
  <2> QED BY <2>2, <2>3, <2>4, <2>5
<1>5. CASE Die
    BY <1>5, <1>f, <1>i, VerdictKept DEF Die, PoolsInv
<1>6. ASSUME NEW c \in Range(Outputs), Redeploy(c) PROVE IdInv'
    BY <1>6, <1>f, <1>s, VerdictKept DEF Redeploy, PoolsInv
<1>7. ASSUME NEW c \in Pools, CreatePool(c) PROVE IdInv'
  <2>1. PICK p : pools' = pools \cup {p} /\ p.of = c
    <3> DEFINE factory == Address(FactoryOf[c])
               p == [of |-> c, factory |-> factory,
                     index |-> 1 + Cardinality({x \in pools : x.of = c /\ x.factory = factory})]
    <3>1. pools' = pools \cup {p}
        BY <1>7 DEF CreatePool
    <3>2. p.of = c
        OBVIOUS
    <3> HIDE DEF p
    <3> QED BY <3>1, <3>2
  <2>2. PoolsInv'
      BY <2>1 DEF PoolsInv
  <2>3. FileInv' /\ SavingInv' /\ VerdictInv'
      BY <1>7, <1>f, <1>s, <2>1, VerdictKept DEF CreatePool
  <2> QED BY <2>2, <2>3
<1>8. CASE checkActionIds
  <2>1. VerdictInv'
    <3> SUFFICES ASSUME verdict' = "passed"
                 PROVE  (\A i \in DOMAIN file : IdsMatch(file[i]))' /\ Unique'
        BY DEF VerdictInv
    <3>1. (\A i \in DOMAIN file : IdsMatch(file[i])) /\ Unique
        BY <1>8 DEF checkActionIds
    <3> QED BY <1>8, <3>1, StillMatching DEF checkActionIds
  <2>2. FileInv' /\ SavingInv' /\ PoolsInv'
      BY <1>8, <1>f, <1>s DEF checkActionIds, PoolsInv
  <2> QED BY <2>1, <2>2
<1>9. CASE AcceptCollisions
    BY <1>9, <1>f, <1>s, VerdictKept DEF AcceptCollisions, PoolsInv
<1>10. CASE UNCHANGED idVars
    BY <1>10, <1>f, <1>s, VerdictKept DEF idVars, PoolsInv
<1>11. \A p \in pools : p.of \in Contracts
    BY <1>a DEF PoolsInv
<1>12. Range(Outputs) \subseteq Contracts
    BY <1>a
<1> QED BY <1>1, <1>2, <1>3, <1>4, <1>5, <1>6, <1>7, <1>8, <1>9, <1>10, <1>11, <1>12 DEF IdNext

------------------------------------------------------------------------------
(* What follows from it.                                                   *)

\* The entry that is looked up is the one there is.
LEMMA RecordedEntry ==
    ASSUME FileInv, NEW c \in RecordedIds
    PROVE  \E i \in DOMAIN file : file[i].contract = c /\ EntryOf(c) = file[i]
<1>1. PICK i \in DOMAIN file : file[i].contract = c
    BY DEF RecordedIds
<1>2. \A j \in DOMAIN file : file[j].contract = c => j = i
    BY <1>1 DEF FileInv
<1>3. (CHOOSE j \in DOMAIN file : file[j].contract = c) = i
    BY <1>1, <1>2
<1> QED BY <1>1, <1>3 DEF EntryOf

\* The id recorded of a function is the one its contract asks about.
LEMMA RecordedIsAsked ==
    ASSUME IdInv, \A i \in DOMAIN file : IdsMatch(file[i]),
           NEW c \in RecordedIds, NEW f \in Range(Abi[c]) \ ignored
    PROVE  /\ \E k \in DOMAIN EntryOf(c).actionIds : EntryOf(c).actionIds[k] = <<f, actionId(c, f)>>
           /\ \A a \in InstancesOf(c) : actionId(c, f) = OnChainId(a, f)
<1>1. PICK i \in DOMAIN file : file[i].contract = c /\ EntryOf(c) = file[i]
    BY RecordedEntry DEF IdInv
<1> DEFINE e == file[i]
           x == e.factoryOutput
           d == Disambiguator(getActionIdSource(c, x).source)
           now == getActionIds(c, x)
<1>2. EntryOK(e) /\ IdsMatch(e) /\ c \in Contracts
    BY <1>1 DEF IdInv, FileInv, EntryOK
<1>3. /\ Readable(c, x)
      /\ \A k \in Range(now.actionIds) : k \in Range(e.actionIds)
    BY <1>1, <1>2 DEF IdsMatch
<1>4. <<f, <<d, f>> >> \in Range(now.actionIds)
    BY <1>2, IdsOfFunctions
<1> HIDE DEF now
<1>5. <<f, <<d, f>> >> \in Range(e.actionIds)
    BY <1>3, <1>4
<1>6. PICK j \in DOMAIN e.actionIds : e.actionIds[j] = <<f, <<d, f>> >>
    BY <1>5 DEF Range
<1>7. actionId(c, f) = <<d, f>>
  <2> HIDE DEF e, d
  <2>1. \A k \in Range(e.actionIds) : k[1] = f => k = <<f, <<d, f>> >>
    <3>1. ASSUME NEW m \in DOMAIN e.actionIds, e.actionIds[m][1] = f PROVE m = j
        BY <1>2, <1>6, <3>1 DEF EntryOK
    <3> QED BY <1>6, <3>1 DEF Range
  <2>2. (CHOOSE k \in Range(e.actionIds) : k[1] = f) = <<f, <<d, f>> >>
      BY <1>5, <2>1
  <2>3. \E k \in Range(e.actionIds) : k[1] = f
      BY <1>5
  <2>4. EntryOf(c) = e
      BY <1>1 DEF e
  <2>5. actionId(c, f) = (CHOOSE k \in Range(e.actionIds) : k[1] = f)[2]
      BY <2>3, <2>4 DEF actionId
  <2> DEFINE chosen == CHOOSE k \in Range(e.actionIds) : k[1] = f
  <2>6. chosen = <<f, <<d, f>> >> /\ actionId(c, f) = chosen[2]
      BY <2>2, <2>5
  <2> HIDE DEF chosen
  <2> QED BY <2>6
<1>8. ASSUME NEW a \in InstancesOf(c) PROVE OnChainId(a, f) = <<d, f>>
  <2>0. a.of = c
      BY <1>8 DEF InstancesOf, Address
  <2>1. CASE c \notin Aware
      BY <2>0, <2>1 DEF OnChainId, getActionIdSource
  <2>2. CASE c \in Aware /\ x # None
    <3>1. x \in pools /\ x.factory = Address(FactoryOf[c]) /\ c \in Pools
        BY <1>3, <2>2 DEF Readable, checkFactoryOutput, isPoolFromFactory
    <3>2. x.of \in Pools
        BY <3>1 DEF IdInv, PoolsInv
    <3>3. d = Address(FactoryOf[c])
        BY <2>2, <3>1, <3>2 DEF getActionIdSource, Disambiguator
    <3>4. a.factory = Address(FactoryOf[c])
        BY <1>8, <3>1 DEF InstancesOf
    <3> QED BY <2>0, <2>2, <3>1, <3>3, <3>4 DEF OnChainId, Disambiguator
  <2>3. CASE c \in Aware /\ x = None
    <3>1. c \notin Pools
        BY <1>3, <2>3 DEF Readable
    <3>2. a = Address(c)
        BY <1>8, <3>1 DEF InstancesOf
    <3>3. d = Address(c)
        BY <2>3, <3>1 DEF getActionIdSource, Disambiguator, Address
    <3> QED BY <2>0, <2>3, <3>1, <3>2, <3>3 DEF OnChainId, Disambiguator
  <2> QED BY <2>1, <2>2, <2>3
<1> QED BY <1>1, <1>6, <1>7, <1>8

\* Every recorded id is an instance that is looked at for collisions.
LEMMA RecordedIsInstance ==
    ASSUME FileInv, NEW i \in DOMAIN file, NEW j \in DOMAIN file[i].actionIds
    PROVE  /\ \E n \in Nat : DOMAIN Instances = 1..n
           /\ \E p \in DOMAIN Instances :
                 /\ Instances[p].id = file[i].actionIds[j][2]
                 /\ Instances[p].info.contract = file[i].contract
<1> DEFINE n == Len(file)
           Item(u, v) == [id |-> file[u].actionIds[v][2],
                          info |-> [contract |-> file[u].contract, signature |-> file[u].actionIds[v][1],
                                    useAdaptor |-> file[u].useAdaptor]]
           seqs == [u \in DOMAIN file |-> [v \in DOMAIN file[u].actionIds |-> Item(u, v)]]
           S == UNION {Range(seqs[u]) : u \in DOMAIN file}
<1>1. n \in Nat /\ DOMAIN file = 1..n
    BY LenProperties DEF FileInv
<1>2. ASSUME NEW u \in DOMAIN file
      PROVE  /\ seqs[u] \in Seq(S) /\ Len(seqs[u]) = Len(file[u].actionIds)
             /\ DOMAIN file[u].actionIds = 1..Len(file[u].actionIds)
  <2> DEFINE s == file[u].actionIds
  <2>1. s \in Seq(Range(s))
      BY DEF FileInv, EntryOK
  <2> HIDE DEF s
  <2>2. Len(s) \in Nat /\ DOMAIN s = 1..Len(s)
      BY <2>1, LenProperties
  <2>3. seqs[u] = [v \in DOMAIN s |-> Item(u, v)]
      BY DEF s
  <2>4. \A v \in DOMAIN s : Item(u, v) \in S
    <3>1. Range(seqs[u]) \subseteq S
        OBVIOUS
    <3> HIDE DEF seqs, S, Item
    <3> QED BY <2>3, <3>1 DEF Range
  <2> HIDE DEF seqs, S, Item
  <2>5. seqs[u] \in [1..Len(s) -> S]
      BY <2>2, <2>3, <2>4
  <2>6. seqs[u] \in Seq(S) /\ Len(seqs[u]) = Len(s)
      BY <2>2, <2>5
  <2> QED BY <2>2, <2>6 DEF s
<1>3. Instances = FlattenSeq(seqs)
    BY DEF Instances
<1>4. seqs[i][j] = Item(i, j)
    OBVIOUS
<1>5. Item(i, j).id = file[i].actionIds[j][2] /\ Item(i, j).info.contract = file[i].contract
    OBVIOUS
<1>6. DOMAIN seqs = 1..n /\ seqs = [u \in 1..n |-> seqs[u]]
    BY <1>1
<1> HIDE DEF seqs, S, Item, n
<1>7. seqs \in [1..n -> Seq(S)]
    BY <1>1, <1>2, <1>6
<1> DEFINE flat == FlattenSeq(seqs)
<1>8. flat \in Seq(S) /\ HasAll(flat, seqs, n)
    BY <1>1, <1>7, FlattenHasAll
<1> HIDE DEF flat
<1>9. Len(flat) \in Nat /\ DOMAIN flat = 1..Len(flat)
    BY <1>8, LenProperties
<1>10. PICK p \in 1..Len(flat) : flat[p] = seqs[i][j]
  <2>1. i \in 1..n /\ j \in 1..Len(seqs[i])
      BY <1>1, <1>2
  <2> QED BY <1>8, <2>1 DEF HasAll
<1>11. Instances = flat
    BY <1>3 DEF flat
<1> QED BY <1>4, <1>5, <1>9, <1>10, <1>11

\* Two contracts recorded with one id are both in the expected collisions.
LEMMA ExpectedListsBoth ==
    ASSUME IdInv, verdict = "passed",
           NEW c \in RecordedIds, NEW d \in RecordedIds, c # d,
           NEW f \in Range(Abi[c]) \ ignored, f \in Range(Abi[d]), NEW a \in InstancesOf(d),
           OnChainId(a, f) = actionId(c, f)
    PROVE  \E i \in DOMAIN expected :
              /\ expected[i].id = actionId(c, f)
              /\ {c, d} \subseteq {x.contract : x \in Range(expected[i].infos)}
<1>1. (\A i \in DOMAIN file : IdsMatch(file[i])) /\ Unique /\ FileInv
    BY DEF IdInv, VerdictInv
<1>2. actionId(d, f) = actionId(c, f)
    BY <1>1, RecordedIsAsked
<1>3. ASSUME NEW b \in RecordedIds, f \in Range(Abi[b]) \ ignored
      PROVE  /\ \E n \in Nat : DOMAIN Instances = 1..n
             /\ \E p \in DOMAIN Instances : Instances[p].id = actionId(b, f) /\ Instances[p].info.contract = b
  <2>1. PICK i \in DOMAIN file : file[i].contract = b /\ EntryOf(b) = file[i]
      BY <1>1, RecordedEntry
  <2>2. PICK k \in DOMAIN file[i].actionIds : file[i].actionIds[k] = <<f, actionId(b, f)>>
      BY <1>1, <1>3, <2>1, RecordedIsAsked
  <2>3. file[i].actionIds[k][2] = actionId(b, f)
      BY <2>2
  <2> QED BY <1>1, <2>1, <2>3, RecordedIsInstance
<1>4. PICK n \in Nat : DOMAIN Instances = 1..n
    BY <1>3
<1>5. PICK p \in 1..n : Instances[p].id = actionId(c, f) /\ Instances[p].info.contract = c
    BY <1>3, <1>4
<1>6. PICK q \in 1..n : Instances[q].id = actionId(d, f) /\ Instances[q].info.contract = d
    BY <1>3, <1>4
<1>7. p # q /\ Instances[p].id = Instances[q].id
    BY <1>2, <1>5, <1>6
<1>8. PICK k \in DOMAIN expected :
         /\ expected[k].id = actionId(c, f)
         /\ Instances[p].info \in Range(expected[k].infos)
         /\ Instances[q].info \in Range(expected[k].infos)
    BY <1>1, <1>4, <1>5, <1>7, SharedIsListed DEF Unique
<1> QED BY <1>5, <1>6, <1>8

\* Entries are well formed, one for each contract, and a verdict is of the files and the chain
\* as they are: nothing that it depends on changes without taking it back.
THEOREM IdsInvariant == IdSpec => []IdInv
<1>1. IdInit => IdInv
    BY IdInitInv
<1>2. IdInv /\ [IdNext]_idVars => IdInv'
    BY IdNextInv
<1> QED BY <1>1, <1>2, PTL DEF IdSpec

\* Once check-action-ids has passed, the id that task.actionId looks up for a function is the
\* one its contract asks the Authorizer about, for every pool of a factory.
THEOREM RecordedIdsVouchedFor == IdSpec => []CheckVouchesForIds
<1>1. IdInv => CheckVouchesForIds
  <2> SUFFICES ASSUME IdInv, verdict = "passed", NEW c \in RecordedIds,
                      NEW f \in Range(Abi[c]) \ ignored, NEW a \in InstancesOf(c)
               PROVE  actionId(c, f) = OnChainId(a, f)
      BY DEF CheckVouchesForIds
  <2>1. \A i \in DOMAIN file : IdsMatch(file[i])
      BY DEF IdInv, VerdictInv
  <2> QED BY <2>1, RecordedIsAsked
<1> QED BY <1>1, IdsInvariant, PTL

\* A permission granted with a recorded id reaches no recorded contract but those that the
\* expected collisions list beside the one it was looked up for.
THEOREM GrantsReachExpected == IdSpec => []GrantsReachOnlyExpected
<1>1. IdInv => GrantsReachOnlyExpected
    BY ExpectedListsBoth DEF GrantsReachOnlyExpected
<1> QED BY <1>1, IdsInvariant, PTL

\* Recording the same ids again keeps the order in which collisions are compared.
THEOREM RecordingAgainHarmless == IdSpec => ResavingIsHarmless
<1> DEFINE Recorded == /\ verdict = "passed" /\ file' # file
                       /\ saving.entry.contract \in RecordedIds
                       /\ EntryOf(saving.entry.contract).actionIds = saving.entry.actionIds
<1>1. ASSUME IdInv, [IdNext]_idVars, Recorded PROVE Unique'
  <2>1. saveActionIds
      BY <1>1 DEF IdNext, StartSaving, ComputeIds, Die, Redeploy, CreatePool, checkActionIds,
                  AcceptCollisions, idVars
  <2> DEFINE entry == saving.entry
  <2>2. entry.contract \in RecordedIds /\ EntryOf(entry.contract).actionIds = entry.actionIds
      BY <1>1
  <2>3. EntryOK(entry) /\ FileInv /\ Unique
      BY <1>1, <2>1 DEF IdInv, SavingInv, VerdictInv, saveActionIds
  <2>4. PICK i \in DOMAIN file : file[i].contract = entry.contract /\ EntryOf(entry.contract) = file[i]
      BY <2>2, <2>3, RecordedEntry
  <2> HIDE DEF entry
  <2>5. /\ file' = [j \in DOMAIN file |-> IF file[j].contract = entry.contract THEN entry ELSE file[j]]
        /\ expected' = expected
      BY <2>1, <2>2 DEF saveActionIds, WriteEntry, entry
  <2>6. ASSUME NEW j \in DOMAIN file
        PROVE  /\ file'[j].contract = file[j].contract /\ file'[j].actionIds = file[j].actionIds
               /\ file'[j].useAdaptor = file[j].useAdaptor
    <3>1. CASE file[j].contract = entry.contract
      <4>1. j = i /\ file'[j] = entry
          BY <2>3, <2>4, <2>5, <3>1 DEF FileInv
      <4>2. file[i].useAdaptor = entry.useAdaptor
          BY <2>3, <2>4 DEF FileInv, EntryOK
      <4> QED BY <2>2, <2>4, <4>1, <4>2
    <3>2. CASE file[j].contract # entry.contract
        BY <2>5, <3>2
    <3> QED BY <3>1, <3>2
  <2>7. DOMAIN file' = DOMAIN file
      BY <2>5
  <2>8. Instances' = Instances
    <3> DEFINE Ids(j) == [k \in DOMAIN file[j].actionIds |->
                             [id |-> file[j].actionIds[k][2],
                              info |-> [contract |-> file[j].contract, signature |-> file[j].actionIds[k][1],
                                        useAdaptor |-> file[j].useAdaptor]]]
    <3>1. \A j \in DOMAIN file : Ids(j)' = Ids(j)
        BY <2>6
    <3>2. Instances = FlattenSeq([j \in DOMAIN file |-> Ids(j)])
        BY DEF Instances
    <3>3. Instances' = FlattenSeq([j \in DOMAIN file' |-> Ids(j)'])
        BY DEF Instances
    <3> HIDE DEF Ids
    <3>4. [j \in DOMAIN file' |-> Ids(j)'] = [j \in DOMAIN file |-> Ids(j)]
        BY <2>7, <3>1
    <3> QED BY <3>2, <3>3, <3>4
  <2> QED BY <2>3, <2>5, <2>8 DEF Unique
<1>2. IdInv /\ [IdNext]_idVars => [Recorded => Unique']_idVars
    BY <1>1
<1> QED BY <1>2, IdsInvariant, PTL DEF IdSpec, ResavingIsHarmless

------------------------------------------------------------------------------
(* What a build-info says of the contract of a file.                       *)

\* A contract that can be extracted is the one the task deploys, since no other source has
\* one of its name.
LEMMA ExtractedIsDeployed ==
    ASSUME NEW x \in BuildFiles, build[x] \in BuildsOf[x], Extractable(x)
    PROVE  /\ extractContractArtifact(x) = artifact(x)
           /\ \E i \in DOMAIN build[x] : extractContractArtifact(x) = build[x][i].artifact
<1> DEFINE b == build[x]
<1>1. b \in Seq(Range(b)) /\ DOMAIN b = 1..Len(b) /\ Len(b) \in Nat
    BY ArtifactsAssumption
<1>2. PICK i \in DOMAIN b : contractMatches(b, x[2]) = {i}
  <2>1. PICK i \in contractMatches(b, x[2]) : contractMatches(b, x[2]) = {i}
      BY DEF Extractable, findContractSourceName
  <2> QED BY <2>1 DEF contractMatches
<1>3. b[i].contract = x[2] /\ \A j \in DOMAIN b : b[j].contract = x[2] => j = i
    BY <1>2 DEF contractMatches
<1>4. findContractSourceName(b, x[2]) = b[i].source
    BY <1>2 DEF findContractSourceName
<1>5. \A k \in Range(b) : k.contract = x[2] => k = b[i]
    BY <1>3 DEF Range
<1>6. b[i] \in Range(b)
    BY <1>2 DEF Range
<1>7. (CHOOSE k \in Range(b) : k.contract = x[2] /\ k.source = findContractSourceName(b, x[2])) = b[i]
    BY <1>3, <1>4, <1>5, <1>6
<1>8. extractContractArtifact(x) = b[i].artifact
    BY <1>7 DEF extractContractArtifact
<1>9. artifact(x) = b[i].artifact
  <2>1. b[i].contract = x[2] /\ \A j \in 1..(i - 1) : b[j].contract # x[2]
      BY <1>1, <1>2, <1>3
  <2>2. \A n \in DOMAIN b : b[n].contract = x[2] /\ (\A j \in 1..(n - 1) : b[j].contract # x[2]) => n = i
      BY <1>3
  <2>3. (CHOOSE n \in DOMAIN b : b[n].contract = x[2] /\ \A j \in 1..(n - 1) : b[j].contract # x[2]) = i
      BY <1>2, <2>1, <2>2
  <2> QED BY <2>3 DEF artifact
<1> QED BY <1>2, <1>8, <1>9

\* The files extracted of a contract are the ones it is compared with, but that a contract
\* without an ABI may have the file of an earlier one.
HasABI(x) == extractContractArtifact(x).abi # <<>> => abi[x] = extractContractArtifact(x).abi
HasBytecode(x) == bytecode[x] = extractContractArtifact(x).bytecode

LEMMA FilesOfExtracted ==
    ASSUME NEW x \in BuildFiles, build[x] \in BuildsOf[x], Extractable(x), HasABI(x), HasBytecode(x)
    PROVE  checkContract(x) \/ (extractContractArtifact(x).abi = <<>> /\ abi[x] # Missing)
<1> DEFINE a == extractContractArtifact(x)
<1>0. PICK i \in DOMAIN build[x] : a = build[x][i].artifact
    BY ExtractedIsDeployed
<1> HIDE DEF a
<1>1. a = [abi |-> a.abi, bytecode |-> a.bytecode] /\ a.abi # Missing /\ a.bytecode # Missing
    BY <1>0, ArtifactsAssumption
<1>2. bytecode[x] = a.bytecode /\ (a.abi # <<>> => abi[x] = a.abi)
    BY DEF HasBytecode, HasABI, a
<1>3. CASE a.abi = <<>> /\ abi[x] # Missing
    BY <1>3 DEF a
<1>4. CASE ~(a.abi = <<>> /\ abi[x] # Missing)
  <2>1. (IF abi[x] = Missing THEN <<>> ELSE abi[x]) = a.abi
      BY <1>1, <1>2, <1>4
  <2>2. (IF bytecode[x] = Missing THEN "" ELSE bytecode[x]) = a.bytecode
      BY <1>1, <1>2
  <2>3. readContractABIAndBytecode(x) = a
      BY <1>1, <2>1, <2>2 DEF readContractABIAndBytecode
  <2> QED BY <2>3 DEF checkContract, a
<1> QED BY <1>3, <1>4

------------------------------------------------------------------------------
(* The inductive invariant.                                                *)

IsOfFiles(f) == f = [x \in BuildFiles |-> f[x]]

ArtifactTypeOK ==
    /\ IsOfFiles(build) /\ IsOfFiles(abi) /\ IsOfFiles(bytecode)
    /\ \A x \in BuildFiles : build[x] \in BuildsOf[x] \cup {Missing}
    /\ extracting \subseteq PresentFiles /\ half \in BOOLEAN
    /\ fresh \subseteq PresentFiles

\* What was extracted stays so until its build-info is replaced, by which a run that
\* extracts it again makes no difference.
FreshIsExtracted == \A x \in fresh : Extractable(x) /\ HasABI(x) /\ HasBytecode(x)

\* Half way through a file its ABI is there.
HalfExtracted ==
    half => extracting # {} /\ Extractable(CurrentFile) /\ HasABI(CurrentFile)

\* The outcome of a check is dropped with the first change that follows.
PassedMatches == outcome = "passed" => extracting = {} /\ AllMatch

ArtifactInv == ArtifactTypeOK /\ FreshIsExtracted /\ HalfExtracted /\ PassedMatches

LEMMA InvImplies == ArtifactInv => ArtifactsAgree
<1> SUFFICES ASSUME ArtifactInv PROVE PublishedIsDeployed /\ ExtractionRepairs
    BY DEF ArtifactsAgree
<1>1. \A x \in PresentFiles : x \in BuildFiles /\ build[x] \in BuildsOf[x]
    BY DEF ArtifactInv, ArtifactTypeOK, PresentFiles
<1>2. PublishedIsDeployed
    BY <1>1, ExtractedIsDeployed
       DEF ArtifactInv, PassedMatches, AllMatch, checkContract, PublishedIsDeployed
<1>3. ExtractionRepairs
    BY <1>1, FilesOfExtracted DEF ArtifactInv, ArtifactTypeOK, FreshIsExtracted, ExtractionRepairs
<1> QED BY <1>2, <1>3

------------------------------------------------------------------------------
(* The steps.                                                              *)

\* Of the files left, the current one is the first.
LEMMA CurrentIsLeft ==
    ASSUME extracting \subseteq BuildFiles, extracting # {}
    PROVE  CurrentFile \in extracting
<1> DEFINE left == {i \in DOMAIN TaskNames : TaskNames[i] \in extracting}
<1>1. DOMAIN TaskNames = 1..Len(TaskNames) /\ Len(TaskNames) \in Nat
    BY ArtifactsAssumption
<1>2. left # {} /\ left \subseteq Nat
    BY <1>1 DEF BuildFiles, Range
<1> HIDE DEF left
<1>3. IsWellFoundedOn(OpToRel(<, Nat), Nat)
    BY NatLessThanWellFounded
<1>4. PICK i \in left : \A j \in left : ~ (<<j, i>> \in OpToRel(<, Nat))
    BY <1>2, <1>3, WFMin
<1>5. \A j \in Nat : j < i => <<j, i>> \in OpToRel(<, Nat)
    BY <1>2, <1>4 DEF OpToRel
<1>6. \A j \in 1..(i - 1) : j \notin left
  <2>1. i \in Nat /\ \A j \in 1..(i - 1) : j \in Nat /\ j < i
      BY <1>2
  <2> QED BY <1>4, <1>5, <2>1
<1>7. i \in DOMAIN TaskNames /\ TaskNames[i] \in extracting
    BY <1>4 DEF left
<1>8. \A j \in 1..(i - 1) : TaskNames[j] \notin extracting
    BY <1>1, <1>6, <1>7 DEF left
<1>9. \E k \in DOMAIN TaskNames :
         TaskNames[k] \in extracting /\ \A j \in 1..(k - 1) : TaskNames[j] \notin extracting
    BY <1>7, <1>8
<1> QED BY <1>9 DEF CurrentFile

\* What is extracted of a file depends on its build-info only.
LEMMA SameBuild ==
    ASSUME NEW x, build'[x] = build[x]
    PROVE  /\ Extractable(x)' <=> Extractable(x)
           /\ extractContractArtifact(x)' = extractContractArtifact(x)
BY DEF Extractable, extractContractArtifact

LEMMA InitArtifactInv == ArtifactInit => ArtifactInv
<1> SUFFICES ASSUME ArtifactInit PROVE ArtifactInv
    OBVIOUS
<1> USE DEF ArtifactInit
<1>1. ArtifactTypeOK
    BY DEF ArtifactTypeOK, IsOfFiles
<1> QED BY <1>1 DEF ArtifactInv, FreshIsExtracted, HalfExtracted, PassedMatches

\* A step that leaves the build-infos alone, and the files of extracted contracts as they are.
LEMMA FreshKept ==
    ASSUME ArtifactTypeOK, FreshIsExtracted, UNCHANGED build, fresh' \subseteq fresh,
           \A x \in fresh : (HasABI(x) => HasABI(x)') /\ (HasBytecode(x) => HasBytecode(x)')
    PROVE  FreshIsExtracted'
BY SameBuild DEF FreshIsExtracted

LEMMA PutKeepsInv ==
    ASSUME ArtifactInv, NEW x \in BuildFiles, NEW b \in BuildsOf[x], PutBuildInfo(x, b)
    PROVE  ArtifactInv'
<1> USE DEF PutBuildInfo
<1>1. build'[x] = b /\ \A y \in BuildFiles \ {x} : build'[y] = build[y]
    BY DEF ArtifactInv, ArtifactTypeOK, IsOfFiles
<1>2. b # Missing
    BY ArtifactsAssumption
<1>3. ArtifactTypeOK'
    BY <1>1, <1>2 DEF ArtifactInv, ArtifactTypeOK, IsOfFiles, PresentFiles
<1>4. FreshIsExtracted'
  <2>1. ASSUME NEW y \in fresh' PROVE (Extractable(y) /\ HasABI(y) /\ HasBytecode(y))'
    <3>1. y \in fresh /\ y \in BuildFiles /\ y # x
        BY <2>1 DEF ArtifactInv, ArtifactTypeOK, PresentFiles
    <3>2. build'[y] = build[y] /\ abi'[y] = abi[y] /\ bytecode'[y] = bytecode[y]
        BY <1>1, <3>1
    <3> QED BY <3>1, <3>2, SameBuild DEF ArtifactInv, FreshIsExtracted, HasABI, HasBytecode
  <2> QED BY <2>1 DEF FreshIsExtracted
<1>5. HalfExtracted' /\ PassedMatches'
    BY DEF ArtifactInv, HalfExtracted, PassedMatches
<1> QED BY <1>3, <1>4, <1>5 DEF ArtifactInv

LEMMA StartKeepsInv ==
    ASSUME ArtifactInv, NEW files, files \subseteq PresentFiles, extractArtifacts(files)
    PROVE  ArtifactInv'
<1> USE DEF extractArtifacts
<1>1. ArtifactTypeOK'
    BY DEF ArtifactInv, ArtifactTypeOK, IsOfFiles, PresentFiles
<1>2. FreshIsExtracted'
    BY FreshKept DEF ArtifactInv, HasABI, HasBytecode, extractContractArtifact
<1>3. HalfExtracted' /\ PassedMatches'
    BY DEF ArtifactInv, HalfExtracted, PassedMatches
<1> QED BY <1>1, <1>2, <1>3 DEF ArtifactInv

LEMMA ExtractABIKeepsInv == ASSUME ArtifactInv, ExtractABI PROVE ArtifactInv'
<1> USE DEF ExtractABI
<1>0. PICK x : x = CurrentFile
    OBVIOUS
<1>1. x \in extracting /\ x \in BuildFiles
    BY <1>0, CurrentIsLeft DEF ArtifactInv, ArtifactTypeOK, PresentFiles
<1>2. CASE Extractable(x)
  <2>1. \A y \in BuildFiles : IF y = x /\ extractContractArtifact(x).abi # <<>>
                               THEN abi'[y] = extractContractArtifact(x).abi ELSE abi'[y] = abi[y]
      BY <1>0, <1>1, <1>2 DEF WriteABI, ArtifactInv, ArtifactTypeOK, IsOfFiles
  <2>2. HasABI(x)' /\ \A y \in BuildFiles : HasABI(y) => HasABI(y)'
    <3>1. \A y : extractContractArtifact(y)' = extractContractArtifact(y)
        BY SameBuild
    <3> QED BY <1>1, <2>1, <3>1 DEF HasABI
  <2>3. ArtifactTypeOK'
      BY <1>0, <1>1, <1>2 DEF WriteABI, ArtifactInv, ArtifactTypeOK, IsOfFiles, PresentFiles
  <2>4. FreshIsExtracted'
      BY <2>2, FreshKept DEF ArtifactInv, ArtifactTypeOK, PresentFiles, HasBytecode, extractContractArtifact
  <2>5. CurrentFile' = x
      BY <1>0, <1>2 DEF CurrentFile
  <2>6. HalfExtracted'
      BY <1>0, <1>2, <2>2, <2>5, SameBuild DEF HalfExtracted
  <2>7. PassedMatches'
      BY <1>0, <1>2 DEF ArtifactInv, PassedMatches
  <2> QED BY <2>3, <2>4, <2>6, <2>7 DEF ArtifactInv
<1>3. CASE ~Extractable(x)
  <2>1. ArtifactTypeOK'
      BY <1>0, <1>3 DEF ArtifactInv, ArtifactTypeOK, IsOfFiles, PresentFiles
  <2>2. FreshIsExtracted'
      BY <1>0, <1>3, FreshKept DEF ArtifactInv, HasABI, HasBytecode, extractContractArtifact
  <2>3. HalfExtracted' /\ PassedMatches'
      BY <1>0, <1>3 DEF ArtifactInv, HalfExtracted, PassedMatches
  <2> QED BY <2>1, <2>2, <2>3 DEF ArtifactInv
<1> QED BY <1>2, <1>3

LEMMA ExtractBytecodeKeepsInv == ASSUME ArtifactInv, ExtractBytecode PROVE ArtifactInv'
<1> USE DEF ExtractBytecode
<1>0. PICK x : x = CurrentFile
    OBVIOUS
<1>1. x \in extracting /\ x \in BuildFiles /\ x \in PresentFiles
    BY <1>0, CurrentIsLeft DEF ArtifactInv, ArtifactTypeOK, PresentFiles
<1>2. \A y \in BuildFiles : bytecode'[y] = IF y = x THEN extractContractArtifact(x).bytecode ELSE bytecode[y]
    BY <1>0, <1>1 DEF ArtifactInv, ArtifactTypeOK, IsOfFiles
<1>3. ArtifactTypeOK'
  <2>1. IsOfFiles(bytecode')
      BY DEF ArtifactInv, ArtifactTypeOK, IsOfFiles
  <2> QED BY <1>0, <1>1, <2>1 DEF ArtifactInv, ArtifactTypeOK, IsOfFiles, PresentFiles
<1>4. \A y : extractContractArtifact(y)' = extractContractArtifact(y) /\ (Extractable(y)' <=> Extractable(y))
    BY SameBuild
<1>5. FreshIsExtracted'
  <2>1. ASSUME NEW y \in fresh' PROVE (Extractable(y) /\ HasABI(y) /\ HasBytecode(y))'
    <3>1. CASE y = x
        BY <1>0, <1>1, <1>2, <1>4, <3>1 DEF ArtifactInv, HalfExtracted, HasABI, HasBytecode
    <3>2. CASE y # x
      <4>1. y \in fresh /\ y \in BuildFiles
          BY <1>0, <2>1, <3>2 DEF ArtifactInv, ArtifactTypeOK, PresentFiles
      <4> QED BY <1>2, <1>4, <3>2, <4>1 DEF ArtifactInv, FreshIsExtracted, HasABI, HasBytecode
    <3> QED BY <3>1, <3>2
  <2> QED BY <2>1 DEF FreshIsExtracted
<1>6. HalfExtracted' /\ PassedMatches'
    BY DEF ArtifactInv, HalfExtracted, PassedMatches
<1> QED BY <1>3, <1>5, <1>6 DEF ArtifactInv

LEMMA EndKeepsInv == ASSUME ArtifactInv, KillExtraction \/ checkArtifacts PROVE ArtifactInv'
<1>1. /\ UNCHANGED <<build, abi, bytecode, fresh>>
      /\ extracting' = {} /\ (half' = FALSE \/ (half' = half /\ extracting = {}))
    BY DEF KillExtraction, checkArtifacts
<1>2. ArtifactTypeOK'
    BY <1>1 DEF ArtifactInv, ArtifactTypeOK, IsOfFiles, PresentFiles
<1>3. FreshIsExtracted'
    BY <1>1, FreshKept DEF ArtifactInv, HasABI, HasBytecode, extractContractArtifact
<1>4. HalfExtracted'
    BY <1>1 DEF ArtifactInv, HalfExtracted
<1>5. AllMatch => AllMatch'
    BY <1>1, SameBuild DEF AllMatch, PresentFiles, checkContract, readContractABIAndBytecode
<1>6. PassedMatches'
    BY <1>1, <1>5 DEF ArtifactInv, PassedMatches, KillExtraction, checkArtifacts
<1> QED BY <1>2, <1>3, <1>4, <1>6 DEF ArtifactInv

LEMMA StepArtifactInv == ArtifactInv /\ [ArtifactNext]_fileVars => ArtifactInv'
<1> SUFFICES ASSUME ArtifactInv, [ArtifactNext]_fileVars PROVE ArtifactInv'
    OBVIOUS
<1>1. CASE UNCHANGED fileVars
  <2> USE <1>1 DEF fileVars
  <2>1. ArtifactTypeOK'
      BY DEF ArtifactInv, ArtifactTypeOK, IsOfFiles, PresentFiles
  <2>2. FreshIsExtracted'
      BY FreshKept DEF ArtifactInv, HasABI, HasBytecode, extractContractArtifact
  <2>3. CurrentFile' = CurrentFile
      BY DEF CurrentFile
  <2>4. HalfExtracted'
      BY <2>3 DEF ArtifactInv, HalfExtracted, HasABI, Extractable, extractContractArtifact
  <2>5. AllMatch' <=> AllMatch
      BY SameBuild DEF AllMatch, PresentFiles, checkContract, readContractABIAndBytecode
  <2>6. PassedMatches'
      BY <2>5 DEF ArtifactInv, PassedMatches
  <2> QED BY <2>1, <2>2, <2>4, <2>6 DEF ArtifactInv
<1>2. CASE ArtifactNext
  <2>1. \A x \in PresentFiles : {y \in PresentFiles : y[1] = x[1]} \subseteq PresentFiles
      OBVIOUS
  <2> QED BY <1>2, <2>1, PutKeepsInv, StartKeepsInv, ExtractABIKeepsInv, ExtractBytecodeKeepsInv, EndKeepsInv
          DEF ArtifactNext
<1> QED BY <1>1, <1>2

\* Whatever is extracted, replaced, interrupted and checked: what a passed check lets the
\* package publish is what its tasks deploy (checkArtifact), and extracting a contract to
\* the end makes the check pass (extractArtifact), but for the ABI that nothing removes.
THEOREM PublishedFilesAgree == ArtifactSpec => []ArtifactsAgree
BY InitArtifactInv, StepArtifactInv, InvImplies, PTL DEF ArtifactSpec

------------------------------------------------------------------------------
(* The search for the sources of a contract.                               *)

AllSources == Range(sources)

VisitStep(g) ==
    [at \in Searches |->
        IF at.rest = <<>> THEN at.found
        ELSE LET next  == getAbsoluteSourcePath(Head(at.rest))
                 found == IF next \in at.found THEN at.found
                          ELSE g[Search(at.found \cup {next}, imports[next])]
             IN  g[Search(found, Tail(at.rest))]]

Visit == CHOOSE g : g = VisitStep(g)

LEMMA FoundByVisit ==
    ASSUME NEW s, NEW previous
    PROVE  getContractImportedSourceNames(s, previous) = Visit[Search(previous, imports[s])]
BY SMT DEF getContractImportedSourceNames, Visit, VisitStep

\* There are finitely many sources, of whose names each is the name of one.
LEMMA SourceTypes ==
    ASSUME TrimInit
    PROVE  /\ IsFiniteSet(AllSources)
           /\ imports \in [AllSources -> ImportLists]
           /\ \A s \in AllSources : getAbsoluteSourcePath(s) \in AllSources
           /\ \A s \in AllSources : getAbsoluteSourcePath(s).file = s.file
<1>1. sources \in Seq(AllSources)
    BY TrimAssumption DEF TrimInit, AllSources
<1>2. Len(sources) \in Nat /\ DOMAIN sources = 1..Len(sources) /\ sources \in [1..Len(sources) -> AllSources]
    BY <1>1, LenProperties
<1>3. IsFiniteSet(AllSources)
  <2>1. sources \in Surjection(1..Len(sources), AllSources)
      BY <1>2 DEF Surjection, AllSources, Range
  <2>2. IsFiniteSet(1..Len(sources))
      BY <1>2, FS_Interval
  <2> QED BY <2>1, <2>2, FS_Surjection
<1>4. ASSUME NEW s \in AllSources
      PROVE  getAbsoluteSourcePath(s) \in AllSources /\ getAbsoluteSourcePath(s).file = s.file
  <2> DEFINE places == {i \in DOMAIN sources : sources[i].file = s.file}
  <2>1. places \in SUBSET Nat /\ places # {}
      BY <1>2 DEF AllSources, Range
  <2>2. \E i \in places : \A j \in places : i <= j
    <3> HIDE DEF places
    <3> QED BY <2>1, FirstPlace
  <2> DEFINE first == CHOOSE i \in places : \A j \in places : i <= j
  <2>3. first \in places
      BY <2>2
  <2>4. getAbsoluteSourcePath(s) = sources[first]
      BY <2>1 DEF getAbsoluteSourcePath, getContractSourceName
  <2> HIDE DEF first
  <2> QED BY <1>2, <2>3, <2>4 DEF AllSources, Range
<1>5. imports \in [AllSources -> ImportLists]
    BY DEF TrimInit, AllSources
<1> QED BY <1>3, <1>4, <1>5

\* Lists of imports, and what is left of them.
LEMMA ImportListTypes ==
    ASSUME NEW rest \in ImportLists
    PROVE  /\ Len(rest) \in 0..MaxImports /\ DOMAIN rest = 1..Len(rest)
           /\ \A k \in DOMAIN rest : rest[k] \in AllSources
           /\ rest # <<>> => /\ Head(rest) = rest[1] /\ 1 \in DOMAIN rest
                             /\ Tail(rest) \in ImportLists /\ Len(Tail(rest)) = Len(rest) - 1
                             /\ \A k \in DOMAIN rest : k # 1 =>
                                   k - 1 \in DOMAIN Tail(rest) /\ Tail(rest)[k - 1] = rest[k]
                             /\ \A k \in DOMAIN Tail(rest) :
                                   k + 1 \in DOMAIN rest /\ Tail(rest)[k] = rest[k + 1]
<1>1. PICK n \in 0..MaxImports : rest \in [1..n -> AllSources]
    BY DEF ImportLists, AllSources
<1>2. MaxImports \in Nat /\ n \in Nat
    BY <1>1, TrimAssumption
<1>3. rest \in Seq(AllSources) /\ Len(rest) = n /\ DOMAIN rest = 1..n
    BY <1>1, <1>2
<1>4. ASSUME rest # <<>>
      PROVE  /\ n # 0 /\ Head(rest) = rest[1] /\ Len(Tail(rest)) = n - 1 /\ Tail(rest) \in Seq(AllSources)
             /\ \A i \in 1..(n - 1) : Tail(rest)[i] = rest[i + 1]
    BY <1>3, <1>4, HeadTailProperties, LenProperties
<1>5. ASSUME rest # <<>>
      PROVE  /\ Tail(rest) \in [1..(n - 1) -> AllSources] /\ n - 1 \in 0..MaxImports
  <2>1. n # 0 /\ Tail(rest) \in Seq(AllSources) /\ Len(Tail(rest)) = n - 1
      BY <1>4, <1>5
  <2>2. Tail(rest) \in [1..Len(Tail(rest)) -> AllSources]
      BY <2>1, LenProperties
  <2>3. n - 1 \in 0..MaxImports
      BY <1>2, <2>1
  <2> QED BY <2>1, <2>2, <2>3
<1>6. rest # <<>> => Tail(rest) \in ImportLists
    BY <1>5 DEF ImportLists, AllSources
<1>7. ASSUME rest # <<>>
      PROVE  /\ DOMAIN Tail(rest) = 1..(n - 1) /\ 1 \in 1..n
             /\ \A k \in 1..n : k # 1 => k - 1 \in 1..(n - 1) /\ Tail(rest)[k - 1] = rest[k]
             /\ \A k \in 1..(n - 1) : k + 1 \in 1..n /\ Tail(rest)[k] = rest[k + 1]
    BY <1>2, <1>4, <1>5, <1>7
<1> QED BY <1>1, <1>3, <1>4, <1>6, <1>7

\* What is left to be done: fewer new sources, or fewer imports to look at.
Left(found, rest) == Cardinality(AllSources \ found) * (MaxImports + 1) + Len(rest)

LEMMA LessLeft ==
    ASSUME TrimInit, NEW found \in SUBSET AllSources, NEW rest \in ImportLists
    PROVE  /\ Left(found, rest) \in Nat
           /\ Left(found, rest) < (Cardinality(AllSources) + 1) * (MaxImports + 1)
           /\ \A more \in SUBSET AllSources, other \in ImportLists :
                 (found \subseteq more /\ (found # more \/ Len(other) < Len(rest)))
                     => Left(more, other) < Left(found, rest)
<1> DEFINE M == MaxImports + 1
           Size(s) == Cardinality(AllSources \ s)
<1>1. M \in Nat /\ M > 0 /\ MaxImports \in Nat
    BY TrimAssumption
<1>2. IsFiniteSet(AllSources) /\ Cardinality(AllSources) \in Nat
    BY SourceTypes, FS_CardinalityType
<1>3. ASSUME NEW s \in SUBSET AllSources
      PROVE  Size(s) \in Nat /\ Size(s) <= Cardinality(AllSources) /\ IsFiniteSet(AllSources \ s)
  <2>1. AllSources \ s \in SUBSET AllSources
      OBVIOUS
  <2>2. IsFiniteSet(AllSources \ s) /\ Size(s) <= Cardinality(AllSources)
      BY <1>2, <2>1, FS_Subset
  <2> QED BY <2>2, FS_CardinalityType
<1>4. ASSUME NEW s \in SUBSET AllSources, NEW t \in SUBSET AllSources, s \subseteq t
      PROVE  Size(t) <= Size(s) /\ (s # t => Size(t) < Size(s))
  <2>1. AllSources \ t \in SUBSET (AllSources \ s)
      BY <1>4
  <2>2. s # t => AllSources \ t # AllSources \ s
      BY <1>4
  <2>3. Size(t) <= Size(s) /\ (Size(t) = Size(s) => AllSources \ t = AllSources \ s)
      BY <1>3, <2>1, FS_Subset
  <2> QED BY <1>3, <2>2, <2>3
<1>5. ASSUME NEW l \in ImportLists PROVE Len(l) \in Nat /\ Len(l) < M
    BY <1>1, ImportListTypes
<1> DEFINE a == Size(found)
           b == Len(rest)
<1>6. a \in Nat /\ b \in Nat /\ b < M /\ a <= Cardinality(AllSources)
    BY <1>3, <1>5
<1>7. \A s, r : Left(s, r) = Size(s) * M + Len(r)
    BY DEF Left
<1> HIDE DEF M, Size
<1>8. a * M \in Nat /\ Left(found, rest) = a * M + b
    BY <1>1, <1>6, <1>7
<1>9. Left(found, rest) < (Cardinality(AllSources) + 1) * M
  <2> DEFINE c == Cardinality(AllSources)
  <2>1. c \in Nat /\ a <= c
      BY <1>2, <1>6
  <2> HIDE DEF a, b, c
  <2>2. a * M <= c * M /\ (c + 1) * M = c * M + M /\ c * M \in Nat
      BY <1>1, <1>6, <2>1
  <2> QED BY <1>1, <1>6, <1>8, <2>2 DEF c
<1>10. ASSUME NEW more \in SUBSET AllSources, NEW other \in ImportLists,
              found \subseteq more, found # more \/ Len(other) < Len(rest)
       PROVE  Left(more, other) < Left(found, rest)
  <2> DEFINE c == Size(more)
             d == Len(other)
  <2>1. c \in Nat /\ d \in Nat /\ d < M /\ c <= a /\ (found # more => c < a)
      BY <1>3, <1>4, <1>5, <1>10
  <2>2. Left(more, other) = c * M + d
      BY <1>7
  <2>3. c < a \/ (c = a /\ d < b)
      BY <1>6, <1>10, <2>1
  <2> HIDE DEF a, b, c, d
  <2>4. CASE c < a
    <3>1. c <= a - 1 /\ a - 1 \in Nat
        BY <1>6, <2>1, <2>4
    <3>2. c * M <= (a - 1) * M /\ (a - 1) * M = a * M - M /\ c * M \in Nat
        BY <1>1, <1>6, <2>1, <3>1
    <3> QED BY <1>1, <1>6, <1>8, <2>1, <2>2, <3>2
  <2>5. CASE c = a /\ d < b
      BY <1>1, <1>6, <1>8, <2>1, <2>2, <2>5
  <2> QED BY <2>3, <2>4, <2>5
<1>11. Left(found, rest) \in Nat
    BY <1>6, <1>8
<1>12. Left(found, rest) < (Cardinality(AllSources) + 1) * (MaxImports + 1)
    BY <1>9 DEF M
<1> QED BY <1>10, <1>11, <1>12

\* One step of a search, with the searches it leads to.
Found(g, found, next) ==
    IF next \in found THEN found ELSE g[Search(found \cup {next}, imports[next])]

LEMMA SearchStep ==
    ASSUME NEW g, NEW found \in SUBSET AllSources, NEW rest \in ImportLists
    PROVE  /\ Search(found, rest) \in Searches
           /\ rest = <<>> => VisitStep(g)[Search(found, rest)] = found
           /\ rest # <<>> =>
                VisitStep(g)[Search(found, rest)]
                    = g[Search(Found(g, found, getAbsoluteSourcePath(Head(rest))), Tail(rest))]
<1> DEFINE at == Search(found, rest)
<1>1. at \in Searches /\ at.found = found /\ at.rest = rest
    BY DEF Search, Searches, AllSources
<1> HIDE DEF at
<1>2. ASSUME rest = <<>> PROVE VisitStep(g)[at] = found
    BY <1>1, <1>2 DEF VisitStep
<1>3. ASSUME rest # <<>>
      PROVE  VisitStep(g)[at] = g[Search(Found(g, found, getAbsoluteSourcePath(Head(rest))), Tail(rest))]
    BY <1>1, <1>3 DEF VisitStep, Found
<1> QED BY <1>1, <1>2, <1>3 DEF at

LEMMA EverySearch ==
    ASSUME NEW at \in Searches
    PROVE  at.found \in SUBSET AllSources /\ at.rest \in ImportLists /\ at = Search(at.found, at.rest)
BY DEF Searches, Search, AllSources

\* What is found is among the sources, and what had been found stays found.
Right(g, found, rest) ==
    /\ g[Search(found, rest)] = VisitStep(g)[Search(found, rest)]
    /\ g[Search(found, rest)] \in SUBSET AllSources
    /\ found \subseteq g[Search(found, rest)]

RightBelow(g, m) ==
    \A found \in SUBSET AllSources, rest \in ImportLists : Left(found, rest) < m => Right(g, found, rest)

IsVisit(g) == g = [at \in Searches |-> g[at]]

\* The function is there: one that is right as long as less than m is left exists for every m.
LEMMA VisitExists == ASSUME TrimInit PROVE \E g : g = VisitStep(g)
<1> DEFINE Good == {m \in Nat : \E g : IsVisit(g) /\ RightBelow(g, m)}
<1>1. 0 \in Good
  <2> DEFINE g == [at \in Searches |-> at]
  <2>1. IsVisit(g)
      BY DEF IsVisit
  <2>2. RightBelow(g, 0)
    <3>1. \A found \in SUBSET AllSources, rest \in ImportLists : ~ (Left(found, rest) < 0)
        BY LessLeft
    <3> QED BY <3>1 DEF RightBelow
  <2> HIDE DEF g
  <2> QED BY <2>1, <2>2
<1>2. ASSUME NEW m \in Nat, m \in Good PROVE m + 1 \in Good
  <2>1. PICK g : RightBelow(g, m)
      BY <1>2
  <2> DEFINE h == VisitStep(g)
  <2>2. IsVisit(h)
      BY DEF VisitStep, IsVisit
  <2> HIDE DEF h
  <2>3. ASSUME NEW found \in SUBSET AllSources, NEW rest \in ImportLists, Left(found, rest) < m
        PROVE  /\ h[Search(found, rest)] = g[Search(found, rest)]
               /\ g[Search(found, rest)] \in SUBSET AllSources /\ found \subseteq g[Search(found, rest)]
      BY <2>1, <2>3 DEF Right, RightBelow, h
  <2>4. ASSUME NEW found \in SUBSET AllSources, NEW rest \in ImportLists, Left(found, rest) < m + 1
        PROVE  Right(h, found, rest)
    <3>1. CASE rest = <<>>
      <4>1. VisitStep(h)[Search(found, rest)] = found /\ h[Search(found, rest)] = found
        <5>1. \A f : VisitStep(f)[Search(found, rest)] = found
            BY <3>1, SearchStep
        <5> QED BY <5>1 DEF h
      <4> QED BY <4>1 DEF Right
    <3>2. CASE rest # <<>>
      <4> DEFINE next == getAbsoluteSourcePath(Head(rest))
                 Inner(f) == IF next \in found THEN found ELSE f[Search(found \cup {next}, imports[next])]
                 t == Tail(rest)
      <4>1. /\ next \in AllSources /\ imports[next] \in ImportLists
            /\ t \in ImportLists /\ Len(t) < Len(rest)
        <5>1. Head(rest) \in AllSources /\ t \in ImportLists /\ Len(t) < Len(rest)
            BY <3>2, ImportListTypes, TrimAssumption
        <5> QED BY <5>1, SourceTypes
      <4>2. /\ h[Search(found, rest)] = g[Search(Inner(g), t)]
            /\ VisitStep(h)[Search(found, rest)] = h[Search(Inner(h), t)]
        <5>1. \A f : VisitStep(f)[Search(found, rest)] = f[Search(Inner(f), t)]
          <6>1. \A f : Inner(f) = Found(f, found, next)
              BY DEF Found
          <6> HIDE DEF Inner
          <6> QED BY <3>2, <6>1, SearchStep
        <5> QED BY <5>1 DEF h
      <4> HIDE DEF next, t
      <4>3. ASSUME NEW more \in SUBSET AllSources, NEW other \in ImportLists, found \subseteq more,
                   found # more \/ Len(other) < Len(rest)
            PROVE  Left(more, other) < m
        <5>1. Left(more, other) < Left(found, rest)
            BY <4>3, LessLeft
        <5>2. Left(more, other) \in Nat /\ Left(found, rest) \in Nat
            BY LessLeft
        <5> QED BY <2>4, <5>1, <5>2
      <4>4. Inner(g) \in SUBSET AllSources /\ found \subseteq Inner(g) /\ Inner(h) = Inner(g)
        <5>1. CASE next \in found
            BY <5>1
        <5>2. CASE next \notin found
          <6>1. found \cup {next} \in SUBSET AllSources /\ found \subseteq found \cup {next}
                /\ found # found \cup {next}
              BY <4>1, <5>2
          <6>2. Left(found \cup {next}, imports[next]) < m
              BY <4>1, <4>3, <6>1
          <6> QED BY <2>3, <4>1, <5>2, <6>1, <6>2
        <5> QED BY <5>1, <5>2
      <4> DEFINE inner == Inner(g)
      <4>5. inner \in SUBSET AllSources /\ found \subseteq inner
            /\ h[Search(found, rest)] = g[Search(inner, t)]
            /\ VisitStep(h)[Search(found, rest)] = h[Search(inner, t)]
          BY <4>2, <4>4
      <4> HIDE DEF Inner, inner
      <4>6. Left(inner, t) < m
          BY <4>1, <4>3, <4>5
      <4>7. /\ h[Search(inner, t)] = g[Search(inner, t)]
            /\ g[Search(inner, t)] \in SUBSET AllSources /\ inner \subseteq g[Search(inner, t)]
          BY <2>3, <4>1, <4>5, <4>6
      <4> QED BY <4>5, <4>7 DEF Right
    <3> QED BY <3>1, <3>2
  <2>5. RightBelow(h, m + 1)
      BY <2>4 DEF RightBelow
  <2>6. m + 1 \in Nat
      OBVIOUS
  <2> QED BY <2>2, <2>5, <2>6
<1> DEFINE B == (Cardinality(AllSources) + 1) * (MaxImports + 1)
<1>3. B \in Good
  <2>1. B \in Nat
      BY SourceTypes, FS_CardinalityType, TrimAssumption
  <2> HIDE DEF Good, B
  <2> QED BY <1>1, <1>2, <2>1, EveryNumber
<1>4. PICK g : IsVisit(g) /\ RightBelow(g, B)
  <2> HIDE DEF B
  <2> QED BY <1>3
<1>5. ASSUME NEW at \in Searches PROVE g[at] = VisitStep(g)[at]
    BY <1>4, EverySearch, LessLeft DEF Right, RightBelow
<1>6. g = VisitStep(g)
    BY <1>4, <1>5 DEF VisitStep, IsVisit
<1> QED BY <1>6

------------------------------------------------------------------------------
(* What the search finds.                                                  *)

\* A set that the names of its sources' imports stay in.
Closed(S) == \A y \in S : \A i \in Range(imports[y]) : getAbsoluteSourcePath(i) \in S

\* A search finds what it is to look at, and of what is new the imports; and nothing that
\* a closed set with what it starts from does not have.
Finds(found, rest) ==
    LET all == Visit[Search(found, rest)]
    IN  /\ all \in SUBSET AllSources /\ found \subseteq all
        /\ \A k \in DOMAIN rest : getAbsoluteSourcePath(rest[k]) \in all
        /\ \A y \in all \ found : \A i \in Range(imports[y]) : getAbsoluteSourcePath(i) \in all
        /\ \A S \in SUBSET AllSources :
              /\ found \subseteq S /\ Closed(S)
              /\ \A k \in DOMAIN rest : getAbsoluteSourcePath(rest[k]) \in S
              => all \subseteq S

LEMMA EverySearchFinds ==
    ASSUME TrimInit, NEW found \in SUBSET AllSources, NEW rest \in ImportLists
    PROVE  Finds(found, rest)
<1> DEFINE FindsBelow(m) == \A from \in SUBSET AllSources, l \in ImportLists : Left(from, l) < m => Finds(from, l)
           Good == {m \in Nat : FindsBelow(m)}
<1>0. Visit = VisitStep(Visit)
    BY VisitExists DEF Visit
<1>1. 0 \in Good
  <2>1. \A from \in SUBSET AllSources, l \in ImportLists : ~ (Left(from, l) < 0)
      BY LessLeft
  <2> QED BY <2>1
<1>2. ASSUME NEW m \in Nat, FindsBelow(m) PROVE FindsBelow(m + 1)
  <2> SUFFICES ASSUME NEW from \in SUBSET AllSources, NEW l \in ImportLists, Left(from, l) < m + 1
               PROVE  Finds(from, l)
      OBVIOUS
  <2> DEFINE all == Visit[Search(from, l)]
  <2>1. CASE l = <<>>
    <3>1. all = from
      <4>1. VisitStep(Visit)[Search(from, l)] = from
          BY <2>1, SearchStep
      <4> QED BY <1>0, <4>1
    <3>2. \A k \in DOMAIN l : FALSE
        BY <2>1
    <3> HIDE DEF all
    <3>3. all \ from = {}
        BY <3>1
    <3> QED BY <3>1, <3>2, <3>3 DEF Finds, all
  <2>2. CASE l # <<>>
    <3> DEFINE next == getAbsoluteSourcePath(Head(l))
               inner == IF next \in from THEN from ELSE Visit[Search(from \cup {next}, imports[next])]
               t == Tail(l)
    <3>1. /\ Head(l) = l[1] /\ t \in ImportLists /\ Len(t) < Len(l)
          /\ next \in AllSources /\ imports[next] \in ImportLists
      <4>1. Head(l) = l[1] /\ Head(l) \in AllSources /\ t \in ImportLists /\ Len(t) < Len(l)
          BY <2>2, ImportListTypes, TrimAssumption
      <4> QED BY <4>1, SourceTypes
    <3>2. all = Visit[Search(inner, t)]
      <4>1. VisitStep(Visit)[Search(from, l)] = Visit[Search(inner, t)]
        <5>1. inner = Found(Visit, from, next)
            BY DEF Found
        <5> HIDE DEF inner
        <5> QED BY <2>2, <5>1, SearchStep
      <4> QED BY <1>0, <4>1
    <3>3. /\ \A k \in DOMAIN l : k = 1 \/ \E j \in DOMAIN t : t[j] = l[k]
          /\ \A j \in DOMAIN t : \E k \in DOMAIN l : t[j] = l[k]
          /\ 1 \in DOMAIN l
        BY <2>2, ImportListTypes
    <3>n. next = getAbsoluteSourcePath(l[1])
        BY <3>1
    <3> HIDE DEF next, t, all
    <3>4. ASSUME NEW more \in SUBSET AllSources, NEW other \in ImportLists, from \subseteq more,
                 from # more \/ Len(other) < Len(l)
          PROVE  Finds(more, other)
      <4>1. Left(more, other) < Left(from, l)
          BY <3>4, LessLeft
      <4>2. Left(more, other) \in Nat /\ Left(from, l) \in Nat
          BY LessLeft
      <4>3. Left(more, other) < m
          BY <4>1, <4>2
      <4> QED BY <1>2, <4>3
    <3>5. /\ inner \in SUBSET AllSources /\ from \subseteq inner /\ next \in inner
          /\ \A y \in inner \ from : \A i \in Range(imports[y]) : getAbsoluteSourcePath(i) \in inner
          /\ \A S \in SUBSET AllSources : from \subseteq S /\ Closed(S) /\ next \in S => inner \subseteq S
      <4>1. CASE next \in from
          BY <4>1
      <4>2. CASE next \notin from
        <5> DEFINE start == from \cup {next}
        <5>1. start \in SUBSET AllSources /\ from \subseteq start /\ from # start
            BY <3>1, <4>2
        <5>2. inner = Visit[Search(start, imports[next])]
            BY <4>2
        <5> HIDE DEF inner, start
        <5>3. Finds(start, imports[next])
            BY <3>1, <3>4, <5>1
        <5>4. inner \in SUBSET AllSources /\ start \subseteq inner
            BY <5>2, <5>3 DEF Finds
        <5>5. ASSUME NEW y \in inner \ from, NEW i \in Range(imports[y])
              PROVE  getAbsoluteSourcePath(i) \in inner
          <6>1. CASE y = next
            <7>1. PICK k \in DOMAIN imports[next] : imports[next][k] = i
                BY <6>1 DEF Range
            <7> QED BY <5>2, <5>3, <7>1 DEF Finds
          <6>2. CASE y # next
            <7>1. y \in inner \ start
                BY <6>2 DEF start
            <7> QED BY <5>2, <5>3, <7>1 DEF Finds
          <6> QED BY <6>1, <6>2
        <5>6. ASSUME NEW S \in SUBSET AllSources, from \subseteq S, Closed(S), next \in S
              PROVE  inner \subseteq S
          <6>1. start \subseteq S
              BY <5>6 DEF start
          <6>2. \A k \in DOMAIN imports[next] : getAbsoluteSourcePath(imports[next][k]) \in S
              BY <5>6 DEF Closed, Range
          <6> QED BY <5>2, <5>3, <5>6, <6>1, <6>2 DEF Finds
        <5> QED BY <5>4, <5>5, <5>6 DEF start
      <4> QED BY <4>1, <4>2
    <3> HIDE DEF inner
    <3>6. Finds(inner, t)
        BY <3>1, <3>4, <3>5
    <3>7. all \in SUBSET AllSources /\ inner \subseteq all
        BY <3>2, <3>6 DEF Finds
    <3>8. ASSUME NEW k \in DOMAIN l PROVE getAbsoluteSourcePath(l[k]) \in all
        BY <3>n, <3>2, <3>3, <3>5, <3>6, <3>7 DEF Finds
    <3>9. ASSUME NEW y \in all \ from, NEW i \in Range(imports[y]) PROVE getAbsoluteSourcePath(i) \in all
      <4>1. CASE y \in inner
          BY <3>5, <3>7, <4>1
      <4>2. CASE y \notin inner
          BY <3>2, <3>6, <4>2 DEF Finds
      <4> QED BY <4>1, <4>2
    <3>10. ASSUME NEW S \in SUBSET AllSources, from \subseteq S, Closed(S),
                  \A k \in DOMAIN l : getAbsoluteSourcePath(l[k]) \in S
           PROVE  all \subseteq S
      <4>1. next \in S
          BY <3>n, <3>3, <3>10
      <4>2. inner \subseteq S
          BY <3>5, <3>10, <4>1
      <4>3. \A k \in DOMAIN t : getAbsoluteSourcePath(t[k]) \in S
          BY <3>3, <3>10
      <4> QED BY <3>2, <3>6, <3>10, <4>2, <4>3 DEF Finds
    <3>11. from \subseteq all
        BY <3>5, <3>7
    <3> QED BY <3>7, <3>8, <3>9, <3>10, <3>11 DEF Finds, all
  <2> QED BY <2>1, <2>2
<1>3. \A m \in Nat : m \in Good
  <2>1. \A m \in Nat : m \in Good => m + 1 \in Good
    <3> SUFFICES ASSUME NEW m \in Nat, FindsBelow(m) PROVE m + 1 \in Nat /\ FindsBelow(m + 1)
        OBVIOUS
    <3> QED BY <1>2
  <2> HIDE DEF Good
  <2> QED BY <1>1, <2>1, EveryNumber
<1> DEFINE B == (Cardinality(AllSources) + 1) * (MaxImports + 1)
<1>4. B \in Nat
    BY SourceTypes, FS_CardinalityType, TrimAssumption
<1>5. Left(found, rest) < B
    BY LessLeft
<1> HIDE DEF B
<1>6. FindsBelow(B)
    BY <1>3, <1>4
<1> QED BY <1>5, <1>6

\* The lookup takes the first source of the name, and that is one source.
LEMMA LookupIsFirst ==
    ASSUME TrimInit, NEW s \in AllSources
    PROVE  /\ FirstOfItsName(getAbsoluteSourcePath(s))
           /\ \A z : FirstOfItsName(z) /\ z.file = s.file => z = getAbsoluteSourcePath(s)
<1> DEFINE places == {i \in DOMAIN sources : sources[i].file = s.file}
           first  == CHOOSE i \in places : \A j \in places : i <= j
<1>1. DOMAIN sources = 1..Len(sources) /\ Len(sources) \in Nat
  <2>1. sources \in Seq(AllSources)
      BY TrimAssumption DEF TrimInit, AllSources
  <2> QED BY <2>1, LenProperties
<1>2. places \in SUBSET Nat /\ places # {}
    BY <1>1 DEF AllSources, Range
<1>3. \E i \in places : \A j \in places : i <= j
  <2> HIDE DEF places
  <2> QED BY <1>2, FirstPlace
<1>4. first \in places /\ \A j \in places : first <= j
    BY <1>3
<1>5. getAbsoluteSourcePath(s) = sources[first]
    BY <1>2 DEF getAbsoluteSourcePath, getContractSourceName
<1> HIDE DEF first
<1>6. \A j \in 1..(first - 1) : sources[j].file # sources[first].file
    BY <1>1, <1>4
<1>7. FirstOfItsName(sources[first])
    BY <1>4, <1>6 DEF FirstOfItsName
<1>8. ASSUME NEW z, FirstOfItsName(z), z.file = s.file PROVE z = sources[first]
  <2>1. PICK i \in DOMAIN sources : sources[i] = z /\ \A j \in 1..(i - 1) : sources[j].file # z.file
      BY <1>8 DEF FirstOfItsName
  <2>2. i \in places /\ \A j \in 1..(i - 1) : j \notin places
      BY <1>8, <2>1
  <2>3. first <= i /\ first \in Nat /\ i \in Nat /\ first >= 1
      BY <1>1, <1>4, <2>2
  <2>4. i = first
      BY <1>4, <2>2, <2>3
  <2> QED BY <2>1, <2>4
<1> QED BY <1>5, <1>7, <1>8

\* What the search for a contract finds is what imports lead to by name.
LEMMA SearchFollows ==
    ASSUME TrimInit, NEW s \in AllSources
    PROVE  LET t == getAbsoluteSourcePath(s)
           IN  getContractImportedSourceNames(t, {t}) = Followed(s)
<1> DEFINE t      == getAbsoluteSourcePath(s)
           all    == getContractImportedSourceNames(t, {t})
           Firsts == {x \in AllSources : FirstOfItsName(x)}
           Named(name) == {x \in Firsts : x.file = name}
           Steady(S) == /\ Named(s.file) \subseteq S
                        /\ \A y \in S : \A i \in Range(imports[y]) : Named(i.file) \subseteq S
<1>1. t \in AllSources /\ imports[t] \in ImportLists /\ {t} \in SUBSET AllSources
    BY SourceTypes
<1>2. \A x \in AllSources : Named(x.file) = {getAbsoluteSourcePath(x)}
    BY SourceTypes, LookupIsFirst
<1>3. \A y \in AllSources : Range(imports[y]) \subseteq AllSources
  <2>1. ASSUME NEW y \in AllSources PROVE Range(imports[y]) \subseteq AllSources
    <3>1. imports[y] \in ImportLists
        BY SourceTypes
    <3> QED BY <3>1, ImportListTypes DEF Range
  <2> QED BY <2>1
<1>4. Followed(s) = {x \in Firsts : \A S \in {S \in SUBSET Firsts : Steady(S)} : x \in S}
    BY DEF Followed, AllSources
<1>5. all = Visit[Search({t}, imports[t])] /\ Finds({t}, imports[t])
    BY <1>1, FoundByVisit, EverySearchFinds
<1> HIDE DEF all
<1>6. \A S \in SUBSET AllSources : Steady(S) <=> t \in S /\ Closed(S)
  <2> SUFFICES ASSUME NEW S \in SUBSET AllSources PROVE Steady(S) <=> t \in S /\ Closed(S)
      OBVIOUS
  <2>1. Named(s.file) \subseteq S <=> t \in S
      BY <1>2
  <2>2. \A i \in AllSources : Named(i.file) \subseteq S <=> getAbsoluteSourcePath(i) \in S
      BY <1>2
  <2> HIDE DEF Named, t
  <2> QED BY <1>3, <2>1, <2>2 DEF Closed
<1> HIDE DEF Named, Steady
<1>7. t \in Firsts /\ Closed(Firsts)
  <2>1. \A x \in AllSources : getAbsoluteSourcePath(x) \in Firsts
      BY SourceTypes, LookupIsFirst
  <2> QED BY <1>3, <2>1 DEF Closed
<1>8. ASSUME NEW S \in SUBSET AllSources, t \in S, Closed(S) PROVE all \subseteq S
  <2>1. \A k \in DOMAIN imports[t] : getAbsoluteSourcePath(imports[t][k]) \in S
      BY <1>8 DEF Closed, Range
  <2>2. {t} \subseteq S
      BY <1>8
  <2> HIDE DEF t
  <2> QED BY <1>5, <1>8, <2>1, <2>2 DEF Finds
<1>9. all \subseteq Firsts
    BY <1>7, <1>8
<1>10. t \in all /\ Closed(all)
  <2>1. t \in all
      BY <1>5 DEF Finds
  <2>2. ASSUME NEW y \in all, NEW i \in Range(imports[y]) PROVE getAbsoluteSourcePath(i) \in all
    <3>1. CASE y = t
      <4>1. PICK k \in DOMAIN imports[t] : imports[t][k] = i
          BY <3>1, <2>2 DEF Range
      <4> HIDE DEF t
      <4> QED BY <1>5, <4>1 DEF Finds
    <3>2. CASE y # t
      <4>1. y \in all \ {t}
          BY <2>2, <3>2
      <4> HIDE DEF t
      <4> QED BY <1>5, <2>2, <4>1 DEF Finds
    <3> QED BY <3>1, <3>2
  <2> HIDE DEF t
  <2> QED BY <2>1, <2>2 DEF Closed
<1>11. Followed(s) \subseteq all
    BY <1>4, <1>6, <1>9, <1>10
<1>12. all \subseteq Followed(s)
    BY <1>4, <1>6, <1>8, <1>9
<1> QED BY <1>11, <1>12 DEF all

\* The import closure: it has the contract's source and its sources' imports, and is in
\* every set that has.
LEMMA NeededIsLeast ==
    ASSUME TrimInit, NEW s \in AllSources
    PROVE  /\ Needed(s) \subseteq AllSources /\ s \in Needed(s)
           /\ \A y \in Needed(s) : Range(imports[y]) \subseteq Needed(s)
           /\ \A S \in SUBSET AllSources :
                 s \in S /\ (\A y \in S : Range(imports[y]) \subseteq S) => Needed(s) \subseteq S
<1>1. Needed(s) \subseteq AllSources /\ s \in Needed(s)
    BY DEF Needed, AllSources
<1>2. ASSUME NEW y \in Needed(s) PROVE Range(imports[y]) \subseteq Needed(s)
  <2>1. Range(imports[y]) \subseteq AllSources
    <3>1. imports[y] \in ImportLists
        BY <1>1, SourceTypes
    <3> QED BY <3>1, ImportListTypes DEF Range
  <2> QED BY <2>1 DEF Needed, AllSources
<1>3. \A S \in SUBSET AllSources :
         s \in S /\ (\A y \in S : Range(imports[y]) \subseteq S) => Needed(s) \subseteq S
    BY DEF Needed, AllSources
<1> QED BY <1>1, <1>2, <1>3

\* The search misses nothing and adds nothing, when each needed source is the first of its
\* name; and finds no source that is not.
LEMMA FollowedIsNeeded ==
    ASSUME TrimInit, NEW s \in AllSources
    PROVE  Followed(s) = Needed(s) <=> \A x \in Needed(s) : FirstOfItsName(x)
<1>1. \A x \in Followed(s) : FirstOfItsName(x)
    BY DEF Followed
<1>2. ASSUME \A x \in Needed(s) : FirstOfItsName(x) PROVE Followed(s) = Needed(s)
  <2> DEFINE all == getContractImportedSourceNames(s, {s})
  <2>1. \A x \in Needed(s) : x \in AllSources /\ getAbsoluteSourcePath(x) = x
    <3>1. ASSUME NEW x \in Needed(s) PROVE x \in AllSources /\ getAbsoluteSourcePath(x) = x
        BY <1>2, NeededIsLeast, LookupIsFirst
    <3> QED BY <3>1
  <2>2. s \in Needed(s)
      BY NeededIsLeast
  <2>3. all = Followed(s)
    <3>1. getAbsoluteSourcePath(s) = s
        BY <2>1, <2>2
    <3> QED BY <3>1, SearchFollows
  <2>4. all = Visit[Search({s}, imports[s])] /\ Finds({s}, imports[s])
    <3>1. {s} \in SUBSET AllSources /\ imports[s] \in ImportLists
        BY SourceTypes
    <3> QED BY <3>1, FoundByVisit, EverySearchFinds
  <2> HIDE DEF all
  <2>5. all \subseteq Needed(s)
    <3>1. Needed(s) \in SUBSET AllSources /\ {s} \subseteq Needed(s)
        BY NeededIsLeast
    <3>2. Closed(Needed(s))
        BY <2>1, NeededIsLeast DEF Closed
    <3>3. \A k \in DOMAIN imports[s] : getAbsoluteSourcePath(imports[s][k]) \in Needed(s)
        BY <2>2, <3>2 DEF Closed, Range
    <3> QED BY <2>4, <3>1, <3>2, <3>3 DEF Finds
  <2>6. Needed(s) \subseteq all
    <3>1. all \in SUBSET AllSources /\ s \in all
        BY <2>4 DEF Finds
    <3>2. ASSUME NEW y \in all, NEW i \in Range(imports[y]) PROVE i \in all
      <4>1. getAbsoluteSourcePath(i) \in all
        <5>1. CASE y = s
          <6>1. PICK k \in DOMAIN imports[s] : imports[s][k] = i
              BY <5>1, <3>2 DEF Range
          <6> QED BY <2>4, <6>1 DEF Finds
        <5>2. CASE y # s
            BY <2>4, <3>2, <5>2 DEF Finds
        <5> QED BY <5>1, <5>2
      <4>2. i \in Needed(s)
          BY <2>5, <3>2, NeededIsLeast
      <4> QED BY <2>1, <4>1, <4>2
    <3> QED BY <3>1, <3>2, NeededIsLeast
  <2> QED BY <2>3, <2>5, <2>6
<1> QED BY <1>1, <1>2

LEMMA TrimmedExactly == ASSUME TrimInit PROVE TrimmedInputIsExact
<1> SUFFICES ASSUME NEW s \in AllSources
             PROVE  /\ trimmedBuildInfoInput(s.file) = Ordered(Followed(s))
                    /\ Followed(s) = Needed(s) <=> \A x \in Needed(s) : FirstOfItsName(x)
    BY DEF TrimmedInputIsExact, AllSources
<1>1. trimmedBuildInfoInput(s.file) = Ordered(Followed(s))
  <2>1. getAbsoluteSourcePath(s) = getContractSourceName(s.file)
      BY DEF getAbsoluteSourcePath
  <2> QED BY <2>1, SearchFollows DEF trimmedBuildInfoInput
<1> QED BY <1>1, FollowedIsNeeded

\* Whatever the sources import, in circles as well, however many there are and whatever
\* names they share: what is submitted for a contract is what imports lead to by file name,
\* in the order of the input (trimmedBuildInfoInput), and that is what the contract was
\* compiled from when, and only when, each source of that is the first of its name.
THEOREM TrimmedInputExact == TrimSpec => []TrimmedInputIsExact
<1>1. TrimInit /\ [FALSE]_trimVars => TrimInit'
    BY DEF TrimInit, trimVars, ImportLists
<1>2. TrimInit => TrimmedInputIsExact
    BY TrimmedExactly
<1> QED BY <1>1, <1>2, PTL DEF TrimSpec
==============================================================================
