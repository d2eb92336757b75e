---------------------------- MODULE PoolTokens_proofs ----------------------------
(***************************************************************************)
(* The Vault's storage of Pools and their balances is well formed, and     *)
(* implements the ledger of PoolLedger, for any Pools, tokens and amounts, *)
(* and for words of any width.                                             *)
(*                                                                         *)
(* First come the packed words: what is read from a word is what was put   *)
(* into it. From there on, words are known by their fields alone. Then     *)
(* every call is told by its effect on the balances of a Pool, whatever    *)
(* its layout, from which both the invariant and the refinement follow.    *)
(***************************************************************************)
EXTENDS PoolTokens, SequenceTheorems, TLAPS

------------------------------------------------------------------------------
(* Packed words.                                                           *)

LEMMA DivMod ==
    ASSUME NEW d \in Int, d > 0, NEW w \in Nat
    PROVE  w \div d \in Nat /\ w % d \in 0 .. d - 1 /\ w = (w \div d) * d + (w % d)
OBVIOUS

LEMMA Division ==
    ASSUME NEW d \in Int, d > 0, NEW q \in Nat, NEW r \in 0 .. d - 1
    PROVE  (q * d + r) \div d = q /\ (q * d + r) % d = r
OBVIOUS

LEMMA Below ==
    ASSUME NEW d \in Int, d > 0, NEW q \in Nat, NEW r \in 0 .. d - 1, NEW b \in Nat
    PROVE  q * d + r < b * d <=> q < b
<1>1. q < b => (q + 1) * d <= b * d
    OBVIOUS
<1>2. b <= q => b * d <= q * d
    OBVIOUS
<1> QED BY <1>1, <1>2

\* A word is its fields.
LEMMA WordFields ==
    ASSUME NEW w \in Words
    PROVE  /\ Cash(w) \in 0 .. AmountSize - 1 /\ Managed(w) \in 0 .. AmountSize - 1
           /\ LastChangeBlock(w) \in 0 .. BlockSize - 1
           /\ w = (LastChangeBlock(w) * AmountSize + Managed(w)) * AmountSize + Cash(w)
<1> DEFINE d == AmountSize
           upper == w \div d
           block == upper \div d
<1>1. d \in Int /\ d > 0 /\ BlockSize \in Int /\ BlockSize > 0
    BY WordAssumption
<1>2. w \in Nat /\ w < d * d * BlockSize
    BY <1>1 DEF Words
<1>3. upper \in Nat /\ Cash(w) \in 0 .. d - 1 /\ w = upper * d + Cash(w)
    BY <1>1, <1>2, DivMod DEF Cash
<1>4. block \in Nat /\ Managed(w) \in 0 .. d - 1 /\ upper = block * d + Managed(w)
    BY <1>1, <1>3, DivMod DEF Managed
<1>5. w \div (d * d) = block
  <2>1. w = block * (d * d) + (Managed(w) * d + Cash(w))
    <3> HIDE DEF upper, block, d
    <3>1. w = (block * d + Managed(w)) * d + Cash(w)
        BY <1>3, <1>4
    <3> QED BY <3>1, <1>1, <1>3, <1>4
  <2>2. Managed(w) * d + Cash(w) \in 0 .. d * d - 1
    <3> HIDE DEF upper, block, d
    <3>1. Managed(w) * d + Cash(w) < d * d
      <4>1. d \in Nat /\ Managed(w) \in Nat /\ Managed(w) < d
          BY <1>1, <1>4
      <4> QED BY <4>1, <1>1, <1>3, Below
    <3>2. Managed(w) * d + Cash(w) \in Nat
        BY <1>1, <1>3, <1>4
    <3> QED BY <3>1, <3>2, <1>1
  <2>3. d * d \in Int /\ d * d > 0
      BY <1>1
  <2> HIDE DEF upper, block, d
  <2> DEFINE e == d * d
             rest == Managed(w) * d + Cash(w)
  <2>4. e \in Int /\ e > 0 /\ rest \in 0 .. e - 1 /\ w = block * e + rest
      BY <2>1, <2>2, <2>3
  <2> HIDE DEF e, rest
  <2>5. w \div e = block
      BY <2>4, <1>4, Division
  <2> QED BY <2>5 DEF e
<1>6. block < BlockSize
  <2> HIDE DEF upper, block
  <2>1. upper < d * BlockSize
    <3>1. upper * d + Cash(w) < (d * BlockSize) * d
        BY <1>1, <1>2, <1>3
    <3>2. d * BlockSize \in Nat
        BY <1>1
    <3> HIDE DEF d
    <3> QED BY <3>1, <3>2, <1>1, <1>3, Below
  <2>2. block * d + Managed(w) < BlockSize * d
      BY <2>1, <1>1, <1>4
  <2> HIDE DEF d
  <2> QED BY <2>2, <1>1, <1>4, Below
<1>7. LastChangeBlock(w) = block
  <2>1. block % BlockSize = block
    <3> HIDE DEF block
    <3> QED BY <1>1, <1>4, <1>6
  <2> QED BY <2>1, <1>5 DEF LastChangeBlock
<1> HIDE DEF upper, block
<1> QED BY <1>1, <1>3, <1>4, <1>6, <1>7

\* A word is known by its fields, and its fields are those it was packed from.
LEMMA PackedFields ==
    ASSUME NEW least \in 0 .. AmountSize - 1, NEW mid \in 0 .. AmountSize - 1, NEW most \in Nat
    PROVE  /\ Pack(least, mid, most) \in Words
           /\ Cash(Pack(least, mid, most)) = least
           /\ Managed(Pack(least, mid, most)) = mid
           /\ LastChangeBlock(Pack(least, mid, most)) = most % BlockSize
<1> DEFINE d == AmountSize
           block == most % BlockSize
           upper == block * d + mid
           w == upper * d + least
<1>1. d \in Int /\ d > 0 /\ BlockSize \in Int /\ BlockSize > 0
    BY WordAssumption
<1>2. block \in 0 .. BlockSize - 1
    BY <1>1
<1>3. w = Pack(least, mid, most)
    BY DEF Pack
<1> HIDE DEF block
<1>4. upper \in Nat
    BY <1>1, <1>2
<1>5. upper < BlockSize * d
    BY <1>1, <1>2, Below
<1>6. w \in Nat /\ w < (BlockSize * d) * d
  <2>1. BlockSize * d \in Nat
      BY <1>1
  <2> HIDE DEF upper
  <2> QED BY <2>1, <1>1, <1>4, <1>5, Below
<1>7. w \in Words
  <2>1. (BlockSize * d) * d = AmountSize * AmountSize * BlockSize
      BY <1>1
  <2> HIDE DEF w, d
  <2> QED BY <2>1, <1>1, <1>6 DEF Words
<1>8. w \div d = upper /\ w % d = least
  <2> HIDE DEF upper
  <2> QED BY <1>1, <1>4, Division
<1>9. upper \div d = block /\ upper % d = mid
    BY <1>1, <1>2, Division
<1>10. Cash(w) = least /\ Managed(w) = mid
  <2> HIDE DEF w, upper
  <2> QED BY <1>8, <1>9 DEF Cash, Managed
<1>11. LastChangeBlock(w) = block
  <2>1. /\ LastChangeBlock(w) \in 0 .. BlockSize - 1
        /\ w = (LastChangeBlock(w) * d + Managed(w)) * d + Cash(w)
      BY <1>7, WordFields
  <2> DEFINE last == LastChangeBlock(w)
  <2> HIDE DEF w, last
  <2>2. w = (last * d + mid) * d + least
      BY <2>1, <1>10 DEF last
  <2>3. last * d + mid \in Nat
      BY <2>1, <1>1 DEF last
  <2>4. w \div d = last * d + mid
    <3> DEFINE up == last * d + mid
    <3>1. w = up * d + least /\ up \in Nat
        BY <2>2, <2>3
    <3> HIDE DEF up
    <3>2. w \div d = up
        BY <3>1, <1>1, Division
    <3> QED BY <3>2 DEF up
  <2>5. upper = last * d + mid
      BY <2>4, <1>8
  <2>6. upper \div d = last
      BY <2>1, <2>5, <1>1, Division DEF last
  <2> QED BY <2>6, <1>9 DEF last
<1> HIDE DEF w
<1> QED BY <1>3, <1>7, <1>10, <1>11 DEF block

LEMMA ZeroWord ==
    /\ 0 \in Words /\ Cash(0) = 0 /\ Managed(0) = 0 /\ LastChangeBlock(0) = 0
    /\ \A w \in Words : Cash(w) = 0 /\ Managed(w) = 0 /\ LastChangeBlock(w) = 0 => w = 0
<1> DEFINE d == AmountSize
<1>1. d \in Int /\ d > 0 /\ BlockSize \in Int /\ BlockSize > 0
    BY WordAssumption
<1>2. 0 \in Words
  <2>1. d * d * BlockSize \in Nat /\ d * d * BlockSize > 0
      BY <1>1
  <2> QED BY <2>1 DEF Words
<1>3. \A e \in Int : e > 0 => 0 % e = 0 /\ 0 \div e = 0
    OBVIOUS
<1>4. d * d \in Int /\ d * d > 0
    BY <1>1
<1>5. Cash(0) = 0 /\ Managed(0) = 0 /\ LastChangeBlock(0) = 0
    BY <1>1, <1>3, <1>4 DEF Cash, Managed, LastChangeBlock
<1>6. ASSUME NEW w \in Words, Cash(w) = 0, Managed(w) = 0, LastChangeBlock(w) = 0
      PROVE  w = 0
  <2>1. w = (0 * d + 0) * d + 0
      BY <1>6, WordFields
  <2> QED BY <2>1, <1>1
<1> QED BY <1>2, <1>5, <1>6

LEMMA ZeroTotal ==
    ASSUME NEW w \in Words
    PROVE  IsZero(w) <=> Cash(w) = 0 /\ Managed(w) = 0
<1> DEFINE d == AmountSize
           rest == Managed(w) * d + Cash(w)
           last == LastChangeBlock(w)
<1>1. d \in Int /\ d > 0
    BY WordAssumption
<1>2. /\ Cash(w) \in 0 .. d - 1 /\ Managed(w) \in 0 .. d - 1 /\ last \in Nat
      /\ w = (last * d + Managed(w)) * d + Cash(w)
    BY WordFields
<1>3. w = last * (d * d) + rest
  <2> HIDE DEF last, d
  <2> QED BY <1>1, <1>2
<1>4. rest \in Nat /\ rest < d * d
  <2> HIDE DEF d
  <2> QED BY <1>1, <1>2, Below
<1>5. d * d \in Int /\ d * d > 0
    BY <1>1
<1>6. w % (d * d) = rest
  <2> DEFINE e == d * d
  <2>1. e \in Int /\ e > 0 /\ rest \in 0 .. e - 1 /\ w = last * e + rest
      BY <1>3, <1>4, <1>5
  <2> HIDE DEF e, rest, last
  <2>2. w % e = rest
      BY <2>1, <1>2, Division
  <2> QED BY <2>2 DEF e
<1>7. rest = 0 <=> Cash(w) = 0 /\ Managed(w) = 0
  <2> HIDE DEF d
  <2>1. \A m \in Nat : m # 0 => m * d >= d
      BY <1>1
  <2>2. Managed(w) \in Nat /\ Cash(w) \in Nat
      BY <1>1, <1>2
  <2>3. CASE Managed(w) = 0
      BY <2>2, <2>3, <1>1
  <2>4. CASE Managed(w) # 0
    <3>1. Managed(w) * d \in Int /\ Managed(w) * d >= d
        BY <2>1, <2>2, <2>4, <1>1
    <3> QED BY <3>1, <2>2, <2>4, <1>1
  <2> QED BY <2>3, <2>4
<1> QED BY <1>6, <1>7 DEF IsZero

LEMMA SharedFields ==
    ASSUME NEW cash \in Words, NEW managed \in Words
    PROVE  LET a == FromSharedToBalanceA(cash, managed)
               b == FromSharedToBalanceB(cash, managed)
           IN  /\ a \in Words /\ b \in Words
               /\ Cash(a) = Cash(cash) /\ Managed(a) = Cash(managed)
               /\ Cash(b) = Managed(cash) /\ Managed(b) = Managed(managed)
               /\ LastChangeBlock(a) = LastChangeBlock(cash)
               /\ LastChangeBlock(b) = LastChangeBlock(cash)
<1> DEFINE block == LastChangeBlock(cash)
<1>1. /\ Cash(cash) \in 0 .. AmountSize - 1 /\ Managed(cash) \in 0 .. AmountSize - 1
      /\ Cash(managed) \in 0 .. AmountSize - 1 /\ Managed(managed) \in 0 .. AmountSize - 1
      /\ block \in 0 .. BlockSize - 1
    BY WordFields
<1>2. block % BlockSize = block
  <2> HIDE DEF block
  <2> QED BY <1>1, WordAssumption
<1>3. /\ FromSharedToBalanceA(cash, managed) = Pack(Cash(cash), Cash(managed), block)
      /\ FromSharedToBalanceB(cash, managed) = Pack(Managed(cash), Managed(managed), block)
    BY DEF FromSharedToBalanceA, FromSharedToBalanceB, DecodeBalanceA, DecodeBalanceB, Cash, Managed
<1>4. block \in Nat
    BY <1>1
<1> HIDE DEF block
<1>5. /\ Pack(Cash(cash), Cash(managed), block) \in Words
      /\ Cash(Pack(Cash(cash), Cash(managed), block)) = Cash(cash)
      /\ Managed(Pack(Cash(cash), Cash(managed), block)) = Cash(managed)
      /\ LastChangeBlock(Pack(Cash(cash), Cash(managed), block)) = block
    BY <1>1, <1>2, <1>4, PackedFields
<1>6. /\ Pack(Managed(cash), Managed(managed), block) \in Words
      /\ Cash(Pack(Managed(cash), Managed(managed), block)) = Managed(cash)
      /\ Managed(Pack(Managed(cash), Managed(managed), block)) = Managed(managed)
      /\ LastChangeBlock(Pack(Managed(cash), Managed(managed), block)) = block
    BY <1>1, <1>2, <1>4, PackedFields
<1> QED BY <1>3, <1>5, <1>6 DEF block

LEMMA ToSharedFields ==
    ASSUME NEW a \in Words, NEW b \in Words
    PROVE  LET cash == ToSharedCash(a, b)
               managed == ToSharedManaged(a, b)
           IN  /\ cash \in Words /\ managed \in Words
               /\ Cash(cash) = Cash(a) /\ Managed(cash) = Cash(b)
               /\ Cash(managed) = Managed(a) /\ Managed(managed) = Managed(b)
               /\ LastChangeBlock(cash) = MaxOf(LastChangeBlock(a), LastChangeBlock(b))
               /\ LastChangeBlock(managed) = 0
<1> DEFINE block == MaxOf(LastChangeBlock(a), LastChangeBlock(b))
<1>1. /\ Cash(a) \in 0 .. AmountSize - 1 /\ Managed(a) \in 0 .. AmountSize - 1
      /\ Cash(b) \in 0 .. AmountSize - 1 /\ Managed(b) \in 0 .. AmountSize - 1
      /\ LastChangeBlock(a) \in 0 .. BlockSize - 1 /\ LastChangeBlock(b) \in 0 .. BlockSize - 1
    BY WordFields
<1>2. block \in 0 .. BlockSize - 1
    BY <1>1 DEF MaxOf
<1>3. ToSharedCash(a, b) = Pack(Cash(a), Cash(b), block) /\ ToSharedManaged(a, b) = Pack(Managed(a), Managed(b), 0)
    BY DEF ToSharedCash, ToSharedManaged
<1> HIDE DEF block
<1>4. block \in Nat /\ block % BlockSize = block /\ 0 % BlockSize = 0
    BY <1>2, WordAssumption
<1>5. /\ Pack(Cash(a), Cash(b), block) \in Words
      /\ Cash(Pack(Cash(a), Cash(b), block)) = Cash(a)
      /\ Managed(Pack(Cash(a), Cash(b), block)) = Cash(b)
      /\ LastChangeBlock(Pack(Cash(a), Cash(b), block)) = block
    BY <1>1, <1>4, PackedFields
<1>6. /\ Pack(Managed(a), Managed(b), 0) \in Words
      /\ Cash(Pack(Managed(a), Managed(b), 0)) = Managed(a)
      /\ Managed(Pack(Managed(a), Managed(b), 0)) = Managed(b)
      /\ LastChangeBlock(Pack(Managed(a), Managed(b), 0)) = 0
    BY <1>1, <1>4, PackedFields
<1> QED BY <1>3, <1>5, <1>6 DEF block

\* What an operation puts into a word fits, and is there.
LEMMA PackFitting ==
    ASSUME NEW cash, NEW managed, Fits(cash, managed), NEW block \in 0 .. BlockSize - 1
    PROVE  /\ Pack(cash, managed, block) \in Words
           /\ Cash(Pack(cash, managed, block)) = cash
           /\ Managed(Pack(cash, managed, block)) = managed
           /\ LastChangeBlock(Pack(cash, managed, block)) = block
<1>1. cash \in 0 .. AmountSize - 1 /\ managed \in 0 .. AmountSize - 1
    BY WordAssumption DEF Fits
<1>2. block \in Nat /\ block % BlockSize = block
    BY WordAssumption
<1> QED BY <1>1, <1>2, PackedFields

------------------------------------------------------------------------------
(* The types.                                                              *)

Entries == [token : Tokens, balance : Words]

LEMMA FunctionIsSeq ==
    ASSUME NEW S, NEW n \in Nat, NEW f \in [1 .. n -> S]
    PROVE  f \in Seq(S) /\ Len(f) = n
<1>1. f \in Seq(S)
    BY SeqDef
<1> QED BY <1>1

\* A pair of tokens is a list of two tokens.
LEMMA PairIsList ==
    ASSUME NEW pair \in Pairs
    PROVE  /\ pair \in Seq(Tokens) /\ Len(pair) = 2 /\ DOMAIN pair = {1, 2}
           /\ ToSet(pair) = {pair[1], pair[2]} /\ pair[1] \in Tokens /\ pair[2] \in Tokens
           /\ pair = <<pair[1], pair[2]>>
<1>1. PICK a \in Tokens, b \in Tokens : pair = <<a, b>>
    BY DEF Pairs
<1>2. DOMAIN pair = {1, 2} /\ pair[1] = a /\ pair[2] = b
    BY <1>1
<1>3. ToSet(pair) = {pair[1], pair[2]}
    BY <1>2 DEF ToSet
<1>4. pair \in Seq(Tokens) /\ Len(pair) = 2
    BY <1>1
<1> QED BY <1>1, <1>2, <1>3, <1>4

LEMMA ListIsPair ==
    ASSUME NEW list \in Seq(Tokens), Len(list) = 2
    PROVE  list \in Pairs
<1>1. list[1] \in Tokens /\ list[2] \in Tokens
    OBVIOUS
<1>2. list = <<list[1], list[2]>>
  <2>1. <<list[1], list[2]>> \in Seq(Tokens) /\ Len(<<list[1], list[2]>>) = 2
      BY <1>1
  <2>2. \A i \in 1 .. 2 : list[i] = <<list[1], list[2]>>[i]
      OBVIOUS
  <2> DEFINE other == <<list[1], list[2]>>
  <2>3. other \in Seq(Tokens) /\ Len(other) = Len(list) /\ \A i \in 1 .. Len(list) : list[i] = other[i]
      BY <2>1, <2>2
  <2> HIDE DEF other
  <2>4. list = other
      BY <2>3, SeqEqual
  <2> QED BY <2>4 DEF other
<1>3. <<list[1], list[2]>> \in Pairs
    BY <1>1 DEF Pairs
<1> QED BY <1>2, <1>3

LEMMA PoolIdParts ==
    ASSUME NEW id \in PoolIds
    PROVE  /\ Specialization(id) \in {"GENERAL", "MINIMAL_SWAP_INFO", "TWO_TOKEN"}
           /\ PoolAddress(id) \in Pools
BY StorageAssumption DEF PoolIds, Specialization, PoolAddress

LEMMA ReadTyped ==
    ASSUME TypeOK, NEW id \in PoolIds
    PROVE  /\ GetTokens(id) \in Seq(Tokens)
           /\ \A t \in ToSet(GetTokens(id)) : t \in Tokens /\ GetBalance(id, t) \in Words
<1>1. CASE Specialization(id) = "GENERAL"
  <2> DEFINE entries == generalPoolsBalances[id]
             list == GetTokens(id)
  <2>1. entries \in Seq(Entries) /\ list = TokensOfEntries(entries)
      BY <1>1 DEF TypeOK, GetTokens, Entries
  <2>2. /\ list \in Seq(Tokens) /\ DOMAIN list = DOMAIN entries
        /\ \A i \in DOMAIN entries : entries[i].token \in Tokens /\ entries[i].balance \in Words
    <3>1. DOMAIN entries = 1 .. Len(entries) /\ Len(entries) \in Nat
        BY <2>1
    <3>2. ASSUME NEW i \in DOMAIN entries PROVE entries[i].token \in Tokens /\ entries[i].balance \in Words
      <4> HIDE DEF list, entries
      <4>1. entries[i] \in Entries
          BY <2>1
      <4> QED BY <4>1 DEF Entries
    <3>3. list \in [1 .. Len(entries) -> Tokens]
        BY <2>1, <3>1, <3>2 DEF TokensOfEntries
    <3> HIDE DEF list, entries
    <3> QED BY <3>1, <3>2, <3>3, FunctionIsSeq
  <2>3. ASSUME NEW t \in ToSet(list) PROVE t \in Tokens /\ entries[IndexIn(list, t)].balance \in Words
    <3>1. \E i \in DOMAIN list : list[i] = t
        BY DEF ToSet
    <3>2. IndexIn(list, t) \in DOMAIN list /\ list[IndexIn(list, t)] = t
        BY <3>1 DEF IndexIn
    <3> HIDE DEF list, entries
    <3> QED BY <3>2, <2>2
  <2>4. \A t : GetBalance(id, t) = entries[IndexIn(list, t)].balance
      BY <1>1 DEF GetBalance
  <2> QED BY <2>2, <2>3, <2>4
<1>2. CASE Specialization(id) = "MINIMAL_SWAP_INFO"
  <2>1. GetTokens(id) = minimalPoolsTokens[id] /\ minimalPoolsTokens[id] \in Seq(Tokens)
      BY <1>2 DEF TypeOK, GetTokens
  <2>2. \A t : GetBalance(id, t) = minimalPoolsBalances[id][t]
      BY <1>2 DEF GetBalance
  <2>3. \A t \in ToSet(GetTokens(id)) : t \in Tokens
      BY <2>1 DEF ToSet
  <2> QED BY <2>1, <2>2, <2>3 DEF TypeOK
<1>3. CASE Specialization(id) = "TWO_TOKEN"
  <2> DEFINE pair == twoTokenPoolTokens[id]
  <2>1. GetTokens(id) = IF pair = <<0, 0>> THEN << >> ELSE pair
      BY <1>3 DEF GetTokens
  <2>2. CASE pair = <<0, 0>>
      BY <2>1, <2>2 DEF ToSet
  <2>3. CASE pair # <<0, 0>>
    <3>1. pair \in Pairs
        BY <2>3 DEF TypeOK
    <3>2. pair \in Seq(Tokens) /\ ToSet(pair) = {pair[1], pair[2]} /\ pair[1] \in Tokens /\ pair[2] \in Tokens
        BY <3>1, PairIsList
    <3>3. sharedCash[id][pair] \in Words /\ sharedManaged[id][pair] \in Words
        BY <3>1 DEF TypeOK
    <3>4. \A t : GetBalance(id, t) =
              IF t = pair[1] THEN FromSharedToBalanceA(sharedCash[id][pair], sharedManaged[id][pair])
              ELSE FromSharedToBalanceB(sharedCash[id][pair], sharedManaged[id][pair])
        BY <1>3 DEF GetBalance
    <3>5. /\ FromSharedToBalanceA(sharedCash[id][pair], sharedManaged[id][pair]) \in Words
          /\ FromSharedToBalanceB(sharedCash[id][pair], sharedManaged[id][pair]) \in Words
        BY <3>3, SharedFields
    <3> HIDE DEF pair
    <3> QED BY <2>1, <2>3, <3>2, <3>4, <3>5
  <2> QED BY <2>2, <2>3
<1> QED BY <1>1, <1>2, <1>3, PoolIdParts

LEMMA InitTypeOK == Init => TypeOK
<1> SUFFICES ASSUME Init PROVE TypeOK
    OBVIOUS
<1>1. 0 \in Words
    BY ZeroWord
<1>2. FirstBlock \in 0 .. BlockSize - 1 /\ 0 \in 0 .. MaxPools
    BY StorageAssumption, WordAssumption
<1> QED BY <1>1, <1>2 DEF Init, TypeOK

\* Lists of tokens that are given.
LEMMA GivenLists ==
    /\ \A tokens \in RegisteredLists : tokens \in Seq(Tokens \cup {0})
           /\ (0 \notin ToSet(tokens) => tokens \in Seq(Tokens))
    /\ \A tokens \in DeregisteredLists : tokens \in Seq(Tokens)
<1>1. ASSUME NEW tokens \in RegisteredLists
      PROVE  /\ tokens \in Seq(Tokens \cup {0})
             /\ 0 \notin ToSet(tokens) => tokens \in Seq(Tokens)
  <2>1. tokens \in Seq(Tokens \cup {0})
      BY StorageAssumption
  <2>2. ASSUME 0 \notin ToSet(tokens) PROVE \A i \in 1 .. Len(tokens) : tokens[i] \in Tokens
      BY <2>1, <2>2 DEF ToSet
  <2> QED BY <2>1, <2>2
<1> QED BY <1>1, StorageAssumption

LEMMA RegisterTyped ==
    ASSUME TypeOK, NEW sender \in Pools, NEW id \in PoolIds, NEW tokens \in RegisteredLists,
           NEW assetManagers \in [ToSet(tokens) -> AssetManagers \cup {NoManager}],
           RegisterTokens(sender, id, tokens, assetManagers)
    PROVE  TypeOK'
<1>1. tokens \in Seq(Tokens)
    BY GivenLists DEF RegisterTokens
<1>2. poolAssetManagers' \in [PoolIds -> [Tokens -> AssetManagers \cup {NoManager}]]
    BY DEF RegisterTokens, TypeOK
<1>3. UNCHANGED <<blockNumber, isPoolRegistered, nextPoolNonce>>
    BY DEF RegisterTokens
<1>4. CASE RegisterTwoTokenPoolTokens(id, tokens)
  <2>1. tokens \in Pairs
      BY <1>1, <1>4, ListIsPair DEF RegisterTwoTokenPoolTokens
  <2> QED BY <1>2, <1>3, <1>4, <2>1 DEF RegisterTwoTokenPoolTokens, TypeOK
<1>5. CASE RegisterMinimalSwapInfoPoolTokens(id, tokens)
  <2>1. minimalPoolsTokens[id] \o tokens \in Seq(Tokens)
      BY <1>1 DEF TypeOK
  <2> QED BY <1>2, <1>3, <1>5, <2>1 DEF RegisterMinimalSwapInfoPoolTokens, TypeOK
<1>6. CASE RegisterGeneralPoolTokens(id, tokens)
  <2> DEFINE new == [i \in DOMAIN tokens |-> Entry(tokens[i], 0)]
             old == generalPoolsBalances[id]
  <2>1. new \in Seq(Entries)
    <3>1. DOMAIN tokens = 1 .. Len(tokens) /\ Len(tokens) \in Nat /\ \A i \in DOMAIN tokens : tokens[i] \in Tokens
        BY <1>1
    <3>2. new \in [1 .. Len(tokens) -> Entries]
        BY <3>1, ZeroWord DEF Entry, Entries
    <3> QED BY <3>1, <3>2, FunctionIsSeq
  <2>2. old \o new \in Seq(Entries)
    <3>1. old \in Seq(Entries)
        BY DEF TypeOK, Entries
    <3> HIDE DEF new, old
    <3> QED BY <2>1, <3>1
  <2>3. generalPoolsBalances' \in [PoolIds -> Seq(Entries)]
      BY <1>6, <2>2 DEF RegisterGeneralPoolTokens, TypeOK, Entries
  <2> QED BY <1>2, <1>3, <1>6, <2>3 DEF RegisterGeneralPoolTokens, TypeOK, Entries
<1> QED BY <1>4, <1>5, <1>6 DEF RegisterTokens

\* The entries that remain when one is removed.
LEMMA SwapAndPopTyped ==
    ASSUME NEW S, NEW list \in Seq(S), NEW i
    PROVE  SwapAndPop(list, i) \in Seq(S)
<1> DEFINE new == SwapAndPop(list, i)
<1>1. Len(list) \in Nat /\ DOMAIN list = 1 .. Len(list)
    OBVIOUS
<1>2. \A j \in 1 .. Len(list) - 1 : (IF j = i THEN list[Len(list)] ELSE list[j]) \in S
    BY <1>1
<1>3. CASE Len(list) = 0
  <2>1. 1 .. Len(list) - 1 = {} /\ 1 .. 0 = {}
      BY <1>3
  <2>2. new \in [1 .. 0 -> S]
      BY <2>1 DEF SwapAndPop
  <2> QED BY <2>2, FunctionIsSeq
<1>4. CASE Len(list) # 0
  <2>1. Len(list) - 1 \in Nat
      BY <1>1, <1>4
  <2> DEFINE n == Len(list) - 1
  <2>2. new \in [1 .. n -> S]
      BY <1>2 DEF SwapAndPop
  <2> HIDE DEF n, new
  <2>3. n \in Nat
      BY <2>1 DEF n
  <2>4. new \in Seq(S)
      BY <2>2, <2>3, FunctionIsSeq
  <2> QED BY <2>4 DEF new
<1> QED BY <1>3, <1>4

LEMMA DeregisterTyped ==
    ASSUME TypeOK, NEW sender \in Pools, NEW id \in PoolIds, NEW tokens \in DeregisteredLists,
           DeregisterTokens(sender, id, tokens)
    PROVE  TypeOK'
<1>1. tokens \in Seq(Tokens)
    BY GivenLists
<1>2. poolAssetManagers' \in [PoolIds -> [Tokens -> AssetManagers \cup {NoManager}]]
    BY DEF DeregisterTokens, TypeOK
<1>3. UNCHANGED <<blockNumber, isPoolRegistered, nextPoolNonce>>
    BY DEF DeregisterTokens
<1>4. 0 \in Words
    BY ZeroWord
<1>5. CASE DeregisterTwoTokenPoolTokens(id, tokens)
    BY <1>2, <1>3, <1>4, <1>5 DEF DeregisterTwoTokenPoolTokens, ResetSharedCash, TypeOK
<1>6. CASE DeregisterMinimalSwapInfoPoolTokens(id, tokens)
  <2>1. \A i : SwapAndPop(minimalPoolsTokens[id], i) \in Seq(Tokens)
      BY SwapAndPopTyped DEF TypeOK
  <2>2. minimalPoolsTokens' \in [PoolIds -> Seq(Tokens)]
      BY <1>6, <2>1 DEF DeregisterMinimalSwapInfoPoolTokens, TypeOK
  <2>3. minimalPoolsBalances' \in [PoolIds -> [Tokens -> Words]]
      BY <1>4, <1>6 DEF DeregisterMinimalSwapInfoPoolTokens, TypeOK
  <2> QED BY <1>2, <1>3, <1>6, <2>2, <2>3 DEF DeregisterMinimalSwapInfoPoolTokens, TypeOK
<1>7. CASE DeregisterGeneralPoolTokens(id, tokens)
  <2>1. \A i : SwapAndPop(generalPoolsBalances[id], i) \in Seq(Entries)
      BY SwapAndPopTyped DEF TypeOK, Entries
  <2>2. generalPoolsBalances' \in [PoolIds -> Seq(Entries)]
      BY <1>7, <2>1 DEF DeregisterGeneralPoolTokens, TypeOK, Entries
  <2> QED BY <1>2, <1>3, <1>7, <2>2 DEF DeregisterGeneralPoolTokens, TypeOK, Entries
<1> QED BY <1>5, <1>6, <1>7 DEF DeregisterTokens

\* A change of cash that is made, in the word of one token.
LEMMA ChangedWord ==
    ASSUME NEW word \in Words, NEW delta, CanChangeCash(word, delta),
           NEW block \in 0 .. BlockSize - 1
    PROVE  /\ ChangeCash(word, delta, block) \in Words
           /\ Fits(Cash(word) + delta, Managed(word))
           /\ Cash(ChangeCash(word, delta, block)) = Cash(word) + delta
           /\ Managed(ChangeCash(word, delta, block)) = Managed(word)
           /\ LastChangeBlock(ChangeCash(word, delta, block)) = block
BY PackFitting DEF CanChangeCash, ChangeCash

LEMMA CashTyped ==
    ASSUME TypeOK, NEW id \in PoolIds, NEW pair, NEW delta, ChangeCashOf(id, pair, delta),
           Specialization(id) = "TWO_TOKEN" => pair \in Pairs
    PROVE  TypeOK'
<1>1. UNCHANGED <<blockNumber, isPoolRegistered, nextPoolNonce, poolAssetManagers>>
    BY DEF ChangeCashOf
<1>2. blockNumber \in 0 .. BlockSize - 1
    BY DEF TypeOK
<1>3. CASE Specialization(id) = "GENERAL" /\ SwapGeneralPool(id, delta)
  <2> DEFINE entries == generalPoolsBalances[id]
             new == [i \in DOMAIN entries |->
                        LET token == entries[i].token IN
                        IF token \in DOMAIN delta
                        THEN Entry(token, ChangeCash(entries[i].balance, delta[token], blockNumber))
                        ELSE entries[i]]
  <2>1. entries \in Seq(Entries) /\ DOMAIN entries = 1 .. Len(entries) /\ Len(entries) \in Nat
    <3>1. entries \in Seq(Entries)
        BY DEF TypeOK, Entries
    <3> HIDE DEF entries
    <3> QED BY <3>1
  <2>2. /\ \A i \in DOMAIN entries : entries[i].token \in DOMAIN delta
              => CanChangeCash(entries[i].balance, delta[entries[i].token])
        /\ generalPoolsBalances' = [generalPoolsBalances EXCEPT ![id] = new]
        /\ UNCHANGED <<minimalPoolsTokens, minimalPoolsBalances, twoTokenPoolTokens,
                       sharedCash, sharedManaged>>
      BY <1>3 DEF SwapGeneralPool
  <2>3. ASSUME NEW i \in DOMAIN entries PROVE new[i] \in Entries
    <3> HIDE DEF entries
    <3>1. entries[i] \in Entries
        BY <2>1
    <3>2. entries[i].token \in Tokens /\ entries[i].balance \in Words
        BY <3>1 DEF Entries
    <3>3. CASE entries[i].token \in DOMAIN delta
      <4>1. ChangeCash(entries[i].balance, delta[entries[i].token], blockNumber) \in Words
          BY <2>2, <3>2, <3>3, <1>2, ChangedWord
      <4>2. new[i] = Entry(entries[i].token, ChangeCash(entries[i].balance, delta[entries[i].token], blockNumber))
          BY <3>3
      <4> QED BY <4>1, <4>2, <3>2 DEF Entry, Entries
    <3>4. CASE entries[i].token \notin DOMAIN delta
        BY <3>1, <3>4
    <3> QED BY <3>3, <3>4
  <2>4. new \in Seq(Entries)
    <3>1. new \in [1 .. Len(entries) -> Entries]
      <4> HIDE DEF entries
      <4> QED BY <2>1, <2>3
    <3> QED BY <2>1, <3>1, FunctionIsSeq
  <2> HIDE DEF new, entries
  <2>5. generalPoolsBalances' \in [PoolIds -> Seq(Entries)]
      BY <2>2, <2>4 DEF TypeOK, Entries
  <2> QED BY <1>1, <2>2, <2>5 DEF TypeOK, Entries
<1>4. CASE Specialization(id) = "MINIMAL_SWAP_INFO" /\ SwapMinimalSwapInfoPool(id, delta)
  <2> DEFINE balances == minimalPoolsBalances[id]
             new == [token \in Tokens |-> IF token \in DOMAIN delta
                                          THEN ChangeCash(balances[token], delta[token], blockNumber)
                                          ELSE balances[token]]
  <2>1. balances \in [Tokens -> Words]
      BY DEF TypeOK
  <2>2. /\ \A token \in DOMAIN delta : CanChangeCash(balances[token], delta[token])
        /\ minimalPoolsBalances' = [minimalPoolsBalances EXCEPT ![id] = new]
        /\ UNCHANGED <<generalPoolsBalances, minimalPoolsTokens, twoTokenPoolTokens,
                       sharedCash, sharedManaged>>
      BY <1>4 DEF SwapMinimalSwapInfoPool
  <2>3. ASSUME NEW token \in Tokens, token \in DOMAIN delta
        PROVE  ChangeCash(balances[token], delta[token], blockNumber) \in Words
      BY <2>1, <2>2, <2>3, <1>2, ChangedWord
  <2>4. new \in [Tokens -> Words]
      BY <2>1, <2>3
  <2> HIDE DEF new, balances
  <2>5. minimalPoolsBalances' \in [PoolIds -> [Tokens -> Words]]
      BY <2>2, <2>4 DEF TypeOK
  <2> QED BY <1>1, <2>2, <2>5 DEF TypeOK
<1>5. CASE Specialization(id) = "TWO_TOKEN" /\ SwapTwoTokenPool(id, pair, delta)
  <2> DEFINE a == FromSharedToBalanceA(sharedCash[id][pair], sharedManaged[id][pair])
             b == FromSharedToBalanceB(sharedCash[id][pair], sharedManaged[id][pair])
             new == ToSharedCash(ChangeCash(a, delta[pair[1]], blockNumber),
                                 ChangeCash(b, delta[pair[2]], blockNumber))
  <2>1. pair \in Pairs
      BY <1>5
  <2>2. a \in Words /\ b \in Words
    <3>1. sharedCash[id][pair] \in Words /\ sharedManaged[id][pair] \in Words
        BY <2>1 DEF TypeOK
    <3> QED BY <3>1, SharedFields
  <2>3. /\ CanChangeCash(a, delta[pair[1]]) /\ CanChangeCash(b, delta[pair[2]])
        /\ sharedCash' = [sharedCash EXCEPT ![id][pair] = new]
        /\ UNCHANGED <<generalPoolsBalances, minimalPoolsTokens, minimalPoolsBalances,
                       twoTokenPoolTokens, sharedManaged>>
      BY <1>5 DEF SwapTwoTokenPool
  <2> HIDE DEF a, b
  <2>4. /\ ChangeCash(a, delta[pair[1]], blockNumber) \in Words
        /\ ChangeCash(b, delta[pair[2]], blockNumber) \in Words
      BY <2>2, <2>3, <1>2, ChangedWord
  <2>5. new \in Words
      BY <2>4, ToSharedFields
  <2> HIDE DEF new
  <2>6. sharedCash' \in [PoolIds -> [Pairs -> Words]]
      BY <2>1, <2>3, <2>5 DEF TypeOK
  <2> QED BY <1>1, <2>3, <2>6 DEF TypeOK
<1> QED BY <1>3, <1>4, <1>5 DEF ChangeCashOf

LEMMA SortedIsPair ==
    ASSUME NEW x \in Tokens, NEW y \in Tokens
    PROVE  Sorted(x, y) \in Pairs /\ {Sorted(x, y)[1], Sorted(x, y)[2]} = {x, y}
BY DEF Sorted, Pairs

\* The tokens of a Two Token Pool, when it has any.
LEMMA TwoTokensArePair ==
    ASSUME TypeOK, NEW id \in PoolIds, Specialization(id) = "TWO_TOKEN"
    PROVE  /\ GetTokens(id) = << >> <=> twoTokenPoolTokens[id] = <<0, 0>>
           /\ GetTokens(id) # << >> => /\ twoTokenPoolTokens[id] \in Pairs
                                       /\ GetTokens(id) = twoTokenPoolTokens[id]
           /\ twoTokenPoolTokens[id] = <<0, 0>> \/ twoTokenPoolTokens[id] \in Pairs
           /\ <<0, 0>> \notin Pairs
<1>1. GetTokens(id) = IF twoTokenPoolTokens[id] = <<0, 0>> THEN << >> ELSE twoTokenPoolTokens[id]
    BY DEF GetTokens
<1>2. twoTokenPoolTokens[id] = <<0, 0>> \/ twoTokenPoolTokens[id] \in Pairs
    BY DEF TypeOK
<1>3. <<0, 0>> \notin Pairs
    BY StorageAssumption DEF Pairs
<1>4. << >> \notin Pairs
    BY PairIsList
<1> QED BY <1>1, <1>2, <1>3, <1>4

LEMMA UpdateTyped ==
    ASSUME TypeOK, NEW id \in PoolIds, NEW token \in ToSet(GetTokens(id)), NEW kind,
           NEW newBalance \in Words, UpdateBalance(id, token, kind, newBalance)
    PROVE  TypeOK'
<1>1. UNCHANGED <<blockNumber, isPoolRegistered, nextPoolNonce, poolAssetManagers>>
    BY DEF UpdateBalance
<1>2. GetTokens(id) # << >> /\ token \in Tokens
    BY ReadTyped DEF ToSet
<1>3. CASE Specialization(id) = "GENERAL" /\ UpdateGeneralPoolBalance(id, token, newBalance)
  <2> DEFINE entries == generalPoolsBalances[id]
             at == IndexIn(GetTokens(id), token)
             new == [entries EXCEPT ![at].balance = newBalance]
  <2>1. entries \in Seq(Entries)
      BY DEF TypeOK, Entries
  <2>2. generalPoolsBalances' = [generalPoolsBalances EXCEPT ![id] = new]
      BY <1>3 DEF UpdateGeneralPoolBalance
  <2>3. new \in Seq(Entries)
    <3> HIDE DEF entries, at
    <3>1. DOMAIN entries = 1 .. Len(entries) /\ Len(entries) \in Nat /\ DOMAIN new = DOMAIN entries
        BY <2>1
    <3>2. ASSUME NEW i \in DOMAIN entries PROVE new[i] \in Entries
      <4>1. entries[i] \in Entries
          BY <2>1
      <4>2. new[i] = IF i = at THEN [entries[i] EXCEPT !.balance = newBalance] ELSE entries[i]
          BY <2>1
      <4> QED BY <4>1, <4>2 DEF Entries
    <3>3. new \in [1 .. Len(entries) -> Entries]
        BY <3>1, <3>2
    <3> QED BY <3>1, <3>3, FunctionIsSeq
  <2> HIDE DEF new, entries
  <2>4. generalPoolsBalances' \in [PoolIds -> Seq(Entries)]
      BY <2>2, <2>3 DEF TypeOK, Entries
  <2> QED BY <1>1, <1>3, <2>4 DEF UpdateGeneralPoolBalance, TypeOK, Entries
<1>4. CASE Specialization(id) = "MINIMAL_SWAP_INFO" /\ UpdateMinimalSwapInfoPoolBalance(id, token, newBalance)
    BY <1>1, <1>2, <1>4 DEF UpdateMinimalSwapInfoPoolBalance, TypeOK
<1>5. CASE Specialization(id) = "TWO_TOKEN" /\ UpdateTwoTokenPoolSharedBalance(id, token, newBalance)
  <2> DEFINE pair == twoTokenPoolTokens[id]
             a == IF token = pair[1] THEN newBalance ELSE GetBalance(id, pair[1])
             b == IF token = pair[1] THEN GetBalance(id, pair[2]) ELSE newBalance
  <2>1. pair \in Pairs /\ GetTokens(id) = pair
      BY <1>2, <1>5, TwoTokensArePair
  <2>2. a \in Words /\ b \in Words
    <3>1. pair[1] \in ToSet(pair) /\ pair[2] \in ToSet(pair)
        BY <2>1, PairIsList
    <3>2. GetBalance(id, pair[1]) \in Words /\ GetBalance(id, pair[2]) \in Words
        BY <2>1, <3>1, ReadTyped
    <3> QED BY <3>2
  <2>3. /\ sharedCash' = [sharedCash EXCEPT ![id][pair] = ToSharedCash(a, b)]
        /\ sharedManaged' = [sharedManaged EXCEPT ![id][pair] = ToSharedManaged(a, b)]
        /\ UNCHANGED <<generalPoolsBalances, minimalPoolsTokens, minimalPoolsBalances, twoTokenPoolTokens>>
      BY <1>5 DEF UpdateTwoTokenPoolSharedBalance
  <2> HIDE DEF a, b, pair
  <2>4. ToSharedCash(a, b) \in Words /\ ToSharedManaged(a, b) \in Words
      BY <2>2, ToSharedFields
  <2>5. sharedCash' \in [PoolIds -> [Pairs -> Words]] /\ sharedManaged' \in [PoolIds -> [Pairs -> Words]]
      BY <2>1, <2>3, <2>4 DEF TypeOK
  <2> QED BY <1>1, <2>3, <2>5 DEF TypeOK
<1> QED BY <1>3, <1>4, <1>5 DEF UpdateBalance

\* What the guards say of the words that an Asset Manager's call makes.
LEMMA ManagedWords ==
    ASSUME TypeOK, NEW id \in PoolIds, NEW token \in ToSet(GetTokens(id)), NEW amount \in Int
    PROVE  LET old == GetBalance(id, token)
               moved == MoveToManaged(old, amount)
               reported == SetManaged(old, amount, blockNumber)
           IN  /\ CanMoveToManaged(old, amount) =>
                    /\ moved \in Words /\ Fits(Cash(old) - amount, Managed(old) + amount)
                    /\ Cash(moved) = Cash(old) - amount /\ Managed(moved) = Managed(old) + amount
                    /\ LastChangeBlock(moved) = LastChangeBlock(old)
               /\ CanSetManaged(old, amount) =>
                    /\ reported \in Words /\ Fits(Cash(old), amount)
                    /\ Cash(reported) = Cash(old) /\ Managed(reported) = amount
                    /\ LastChangeBlock(reported) = blockNumber
<1> DEFINE old == GetBalance(id, token)
<1>1. old \in Words /\ blockNumber \in 0 .. BlockSize - 1
    BY ReadTyped DEF TypeOK
<1>2. LastChangeBlock(old) \in 0 .. BlockSize - 1
    BY <1>1, WordFields
<1> HIDE DEF old
<1>3. CanMoveToManaged(old, amount) =>
        /\ MoveToManaged(old, amount) \in Words /\ Fits(Cash(old) - amount, Managed(old) + amount)
        /\ Cash(MoveToManaged(old, amount)) = Cash(old) - amount
        /\ Managed(MoveToManaged(old, amount)) = Managed(old) + amount
        /\ LastChangeBlock(MoveToManaged(old, amount)) = LastChangeBlock(old)
    BY <1>2, PackFitting DEF CanMoveToManaged, MoveToManaged
<1>4. CanSetManaged(old, amount) =>
        /\ SetManaged(old, amount, blockNumber) \in Words /\ Fits(Cash(old), amount)
        /\ Cash(SetManaged(old, amount, blockNumber)) = Cash(old)
        /\ Managed(SetManaged(old, amount, blockNumber)) = amount
        /\ LastChangeBlock(SetManaged(old, amount, blockNumber)) = blockNumber
    BY <1>1, PackFitting DEF CanSetManaged, SetManaged
<1> QED BY <1>3, <1>4 DEF old

LEMMA StepTypeOK == TypeOK /\ [Next]_vars => TypeOK'
<1> SUFFICES ASSUME TypeOK, [Next]_vars PROVE TypeOK'
    OBVIOUS
<1>1. ASSUME NEW sender \in Pools, NEW specialization \in Specializations,
             RegisterPool(sender, specialization)
      PROVE  TypeOK'
  <2>1. <<sender, specialization, nextPoolNonce>> \in PoolIds /\ nextPoolNonce' \in 0 .. MaxPools
      BY <1>1, StorageAssumption DEF RegisterPool, TypeOK, PoolIds
  <2> QED BY <1>1, <2>1 DEF RegisterPool, TypeOK, storage
<1>2. ASSUME NEW sender \in Pools, NEW id \in PoolIds, NEW tokens \in RegisteredLists,
             NEW assetManagers \in [ToSet(tokens) -> AssetManagers \cup {NoManager}],
             RegisterTokens(sender, id, tokens, assetManagers)
      PROVE  TypeOK'
    BY <1>2, RegisterTyped
<1>3. ASSUME NEW sender \in Pools, NEW id \in PoolIds, NEW tokens \in DeregisteredLists,
             DeregisterTokens(sender, id, tokens)
      PROVE  TypeOK'
    BY <1>3, DeregisterTyped
<1>4. ASSUME NEW id \in PoolIds, NEW tokenIn \in Tokens, NEW tokenOut \in Tokens,
             NEW amountIn, NEW amountOut, Swap(id, tokenIn, tokenOut, amountIn, amountOut)
      PROVE  TypeOK'
  <2>1. Sorted(tokenIn, tokenOut) \in Pairs
      BY SortedIsPair
  <2>2. PICK delta : ChangeCashOf(id, Sorted(tokenIn, tokenOut), delta)
      BY <1>4 DEF Swap
  <2> QED BY <2>1, <2>2, CashTyped
<1>5. ASSUME NEW id \in PoolIds, NEW amounts, NEW fees,
             JoinPool(id, amounts, fees) \/ ExitPool(id, amounts, fees)
      PROVE  TypeOK'
  <2>1. GetTokens(id) # << >>
      BY <1>5 DEF JoinPool, ExitPool
  <2>2. PICK delta : ChangeCashOf(id, GetTokens(id), delta)
      BY <1>5 DEF JoinPool, ExitPool
  <2>3. Specialization(id) = "TWO_TOKEN" => GetTokens(id) \in Pairs
      BY <2>1, TwoTokensArePair
  <2> QED BY <2>2, <2>3, CashTyped
<1>6. ASSUME NEW id \in PoolIds, NEW sender, NEW token, NEW amount \in Int,
             WithdrawOrDeposit(sender, id, token, amount)
      PROVE  TypeOK'
  <2>1. token \in ToSet(GetTokens(id))
      BY <1>6 DEF WithdrawOrDeposit, CanManage, IsTokenRegistered
  <2>2. MoveToManaged(GetBalance(id, token), amount) \in Words
      BY <1>6, <2>1, ManagedWords DEF WithdrawOrDeposit
  <2> QED BY <1>6, <2>1, <2>2, UpdateTyped DEF WithdrawOrDeposit
<1>7. ASSUME NEW id \in PoolIds, NEW sender, NEW token, NEW amount \in Int,
             UpdateManagedBalance(sender, id, token, amount)
      PROVE  TypeOK'
  <2>1. token \in ToSet(GetTokens(id))
      BY <1>7 DEF UpdateManagedBalance, CanManage, IsTokenRegistered
  <2>2. SetManaged(GetBalance(id, token), amount, blockNumber) \in Words
      BY <1>7, <2>1, ManagedWords DEF UpdateManagedBalance
  <2> QED BY <1>7, <2>1, <2>2, UpdateTyped DEF UpdateManagedBalance
<1>8. CASE NextBlock
  <2>1. blockNumber' \in 0 .. BlockSize - 1
      BY <1>8, StorageAssumption, WordAssumption DEF NextBlock, TypeOK
  <2> QED BY <1>8, <2>1 DEF NextBlock, TypeOK, storage
<1>9. CASE UNCHANGED vars
    BY <1>9 DEF vars, storage, TypeOK
<1>10. \A amount \in Amounts : amount \in Int /\ -amount \in Int
    BY StorageAssumption
<1> QED BY <1>1, <1>2, <1>3, <1>4, <1>5, <1>6, <1>7, <1>8, <1>9, <1>10 DEF Next

\* Every word the Vault stores is a word: no sum, difference or shift leaves its bits.
THEOREM StorageTypeCorrect == Spec => []TypeOK
BY InitTypeOK, StepTypeOK, PTL DEF Spec

------------------------------------------------------------------------------
(* The inductive invariant. To what StorageInv says of the slots that no   *)
(* token uses it adds that a word of managed amounts holds no block: that  *)
(* is why a pair whose amounts are zero has left its word of managed       *)
(* amounts clear, though only the word of cash is reset.                   *)

Listed(id) == ToSet(GetTokens(id))

ManagedWordsHoldNoBlock ==
    \A id \in PoolIds, pair \in Pairs : LastChangeBlock(sharedManaged[id][pair]) = 0

PairsAreSorted ==
    \A id \in PoolIds :
        twoTokenPoolTokens[id] # <<0, 0>> => twoTokenPoolTokens[id][1] < twoTokenPoolTokens[id][2]

LayoutInv == FreeSlotsAreClear /\ ManagedWordsHoldNoBlock /\ PairsAreSorted

StorageIInv == TypeOK /\ LayoutInv /\ ListedOnceAndFitting /\ ManagersOfRegisteredTokens

\* No list given to deregisterTokens names a token twice. A Two Token Pool that does so loses
\* the balances of both tokens.
NoTokenTwice == \A tokens \in DeregisteredLists : Distinct(tokens)

LEMMA SamePair ==
    ASSUME NEW p \in Pairs, NEW q \in Pairs, p[1] < p[2], q[1] < q[2],
           p[1] \in {q[1], q[2]}, p[2] \in {q[1], q[2]}
    PROVE  p = q
<1>1. p = <<p[1], p[2]>> /\ q = <<q[1], q[2]>>
    BY PairIsList
<1>2. p[1] \in Nat /\ p[2] \in Nat /\ q[1] \in Nat /\ q[2] \in Nat
    BY PairIsList, StorageAssumption
<1>3. p[1] = q[1] /\ p[2] = q[2]
    BY <1>2
<1> QED BY <1>1, <1>3

LEMMA ListedTwoTokens ==
    ASSUME TypeOK, NEW id \in PoolIds, Specialization(id) = "TWO_TOKEN"
    PROVE  /\ Listed(id) = IF twoTokenPoolTokens[id] = <<0, 0>> THEN {}
                           ELSE {twoTokenPoolTokens[id][1], twoTokenPoolTokens[id][2]}
           /\ twoTokenPoolTokens[id] # <<0, 0>> => twoTokenPoolTokens[id] \in Pairs
<1>1. CASE twoTokenPoolTokens[id] = <<0, 0>>
    BY <1>1, TwoTokensArePair DEF Listed, ToSet
<1>2. CASE twoTokenPoolTokens[id] # <<0, 0>>
    BY <1>2, TwoTokensArePair, PairIsList DEF Listed
<1> QED BY <1>1, <1>2

\* What looks registered by its words is the pair that is registered.
LEMMA PairIsRegistered ==
    ASSUME TypeOK, LayoutInv, NEW id \in PoolIds, Specialization(id) = "TWO_TOKEN",
           NEW pair \in Pairs, pair[1] < pair[2], PairLooksRegistered(id, pair)
    PROVE  twoTokenPoolTokens[id] = pair
<1>1. CASE ~IsZero(sharedCash[id][pair]) \/ ~IsZero(sharedManaged[id][pair])
  <2>1. IsZero(0)
      BY ZeroWord, ZeroTotal
  <2>2. sharedCash[id][pair] # 0 \/ sharedManaged[id][pair] # 0
      BY <1>1, <2>1
  <2> QED BY <2>2 DEF LayoutInv, FreeSlotsAreClear
<1>2. CASE IsTokenRegistered(id, pair[1]) /\ IsTokenRegistered(id, pair[2])
  <2>1. pair[1] \in Listed(id) /\ pair[2] \in Listed(id)
      BY <1>2 DEF IsTokenRegistered, Listed
  <2>2. twoTokenPoolTokens[id] # <<0, 0>>
      BY <2>1, ListedTwoTokens
  <2>3. /\ twoTokenPoolTokens[id] \in Pairs
        /\ pair[1] \in {twoTokenPoolTokens[id][1], twoTokenPoolTokens[id][2]}
        /\ pair[2] \in {twoTokenPoolTokens[id][1], twoTokenPoolTokens[id][2]}
      BY <2>1, <2>2, ListedTwoTokens
  <2>4. twoTokenPoolTokens[id][1] < twoTokenPoolTokens[id][2]
      BY <2>2 DEF LayoutInv, PairsAreSorted
  <2> QED BY <2>3, <2>4, SamePair
<1> QED BY <1>1, <1>2 DEF PairLooksRegistered

LEMMA SortedTokens ==
    ASSUME NEW x \in Tokens, NEW y \in Tokens, x # y
    PROVE  /\ Sorted(x, y) \in Pairs /\ Sorted(x, y)[1] < Sorted(x, y)[2]
           /\ {Sorted(x, y)[1], Sorted(x, y)[2]} = {x, y}
<1>1. x \in Nat /\ y \in Nat
    BY StorageAssumption
<1>2. CASE x < y
    BY <1>1, <1>2, SortedIsPair DEF Sorted
<1>3. CASE ~(x < y)
  <2>1. y < x /\ Sorted(x, y) = <<y, x>>
      BY <1>1, <1>3 DEF Sorted
  <2> QED BY <2>1, SortedIsPair
<1> QED BY <1>2, <1>3

\* The tokens that swaps take for registered are registered.
LEMMA AcceptedAreListed ==
    ASSUME TypeOK, LayoutInv, NEW id \in PoolIds, NEW tokenIn \in Tokens, NEW tokenOut \in Tokens,
           tokenIn # tokenOut, SwapAccepts(id, tokenIn, tokenOut)
    PROVE  /\ {tokenIn, tokenOut} \subseteq Listed(id)
           /\ Specialization(id) = "TWO_TOKEN" => Sorted(tokenIn, tokenOut) = twoTokenPoolTokens[id]
<1>1. CASE Specialization(id) = "GENERAL"
    BY <1>1 DEF SwapAccepts, IsTokenRegistered, Listed
<1>2. CASE Specialization(id) = "MINIMAL_SWAP_INFO"
  <2>1. IsZero(0) /\ Listed(id) = ToSet(minimalPoolsTokens[id])
      BY <1>2, ZeroWord, ZeroTotal DEF Listed, GetTokens
  <2>2. ASSUME NEW token \in {tokenIn, tokenOut} PROVE token \in Listed(id)
    <3>1. ~IsZero(minimalPoolsBalances[id][token]) \/ token \in Listed(id)
        BY <1>2 DEF SwapAccepts, IsTokenRegistered, Listed
    <3> QED BY <2>1, <3>1 DEF LayoutInv, FreeSlotsAreClear
  <2> QED BY <1>2, <2>2
<1>3. CASE Specialization(id) = "TWO_TOKEN"
  <2> DEFINE pair == Sorted(tokenIn, tokenOut)
  <2>1. pair \in Pairs /\ pair[1] < pair[2] /\ {pair[1], pair[2]} = {tokenIn, tokenOut}
      BY SortedTokens
  <2>2. PairLooksRegistered(id, pair)
      BY <1>3 DEF SwapAccepts
  <2> HIDE DEF pair
  <2>3. twoTokenPoolTokens[id] = pair
      BY <1>3, <2>1, <2>2, PairIsRegistered
  <2>4. <<0, 0>> \notin Pairs
      BY <1>3, TwoTokensArePair
  <2>5. Listed(id) = {pair[1], pair[2]}
      BY <1>3, <2>1, <2>3, <2>4, ListedTwoTokens
  <2> QED BY <2>1, <2>3, <2>5 DEF pair
<1> QED BY <1>1, <1>2, <1>3, PoolIdParts

------------------------------------------------------------------------------
(* The effect of a call on the balances of a Pool, whatever the layout.    *)

\* The other Pools keep theirs.
Elsewhere(id) ==
    \A q \in PoolIds \ {id} :
        GetTokens(q)' = GetTokens(q) /\ \A t : GetBalance(q, t)' = GetBalance(q, t)

LEMMA LayoutUnchanged ==
    ASSUME NEW q,
           generalPoolsBalances'[q] = generalPoolsBalances[q],
           minimalPoolsTokens'[q] = minimalPoolsTokens[q],
           minimalPoolsBalances'[q] = minimalPoolsBalances[q],
           twoTokenPoolTokens'[q] = twoTokenPoolTokens[q],
           sharedCash'[q] = sharedCash[q], sharedManaged'[q] = sharedManaged[q]
    PROVE  GetTokens(q)' = GetTokens(q) /\ \A t : GetBalance(q, t)' = GetBalance(q, t)
BY DEF GetTokens, GetBalance

LEMMA IndexOfEntry ==
    ASSUME NEW list, Distinct(list), NEW i \in DOMAIN list
    PROVE  IndexIn(list, list[i]) = i
BY DEF IndexIn, Distinct

\* The entries of a General Pool are its balances.
LEMMA GeneralView ==
    ASSUME TypeOK, NEW id \in PoolIds, Specialization(id) = "GENERAL", Distinct(GetTokens(id))
    PROVE  /\ DOMAIN GetTokens(id) = DOMAIN generalPoolsBalances[id]
           /\ \A i \in DOMAIN generalPoolsBalances[id] :
                 /\ GetTokens(id)[i] = generalPoolsBalances[id][i].token
                 /\ IndexIn(GetTokens(id), GetTokens(id)[i]) = i
                 /\ GetBalance(id, GetTokens(id)[i]) = generalPoolsBalances[id][i].balance
<1>1. GetTokens(id) = TokensOfEntries(generalPoolsBalances[id])
    BY DEF GetTokens
<1>2. DOMAIN GetTokens(id) = DOMAIN generalPoolsBalances[id]
    BY <1>1 DEF TokensOfEntries
<1>3. ASSUME NEW i \in DOMAIN generalPoolsBalances[id]
      PROVE  /\ GetTokens(id)[i] = generalPoolsBalances[id][i].token
             /\ IndexIn(GetTokens(id), GetTokens(id)[i]) = i
             /\ GetBalance(id, GetTokens(id)[i]) = generalPoolsBalances[id][i].balance
  <2>1. GetTokens(id)[i] = generalPoolsBalances[id][i].token
      BY <1>1 DEF TokensOfEntries
  <2>2. IndexIn(GetTokens(id), GetTokens(id)[i]) = i
      BY <1>2, IndexOfEntry
  <2> QED BY <2>1, <2>2 DEF GetBalance
<1> QED BY <1>2, <1>3

GeneralViews ==
    \A id \in PoolIds :
        Specialization(id) = "GENERAL" /\ Distinct(GetTokens(id)) =>
            /\ DOMAIN GetTokens(id) = DOMAIN generalPoolsBalances[id]
            /\ \A i \in DOMAIN generalPoolsBalances[id] :
                 /\ GetTokens(id)[i] = generalPoolsBalances[id][i].token
                 /\ GetBalance(id, GetTokens(id)[i]) = generalPoolsBalances[id][i].balance

LEMMA GeneralViewNow == TypeOK => GeneralViews
BY GeneralView DEF GeneralViews

LEMMA GeneralViewNext == TypeOK' => GeneralViews'
BY GeneralViewNow, PTL

\* The two balances of a Two Token Pool are fields of its words.
TwoTokenViews ==
    \A id \in PoolIds :
        Specialization(id) = "TWO_TOKEN" /\ twoTokenPoolTokens[id] # <<0, 0>> =>
            LET pair == twoTokenPoolTokens[id]
                cash == sharedCash[id][pair]
                managed == sharedManaged[id][pair]
                a == GetBalance(id, pair[1])
                b == GetBalance(id, pair[2])
            IN  /\ pair \in Pairs /\ cash \in Words /\ managed \in Words
                /\ GetTokens(id) = pair /\ Listed(id) = {pair[1], pair[2]}
                /\ Cash(a) = Cash(cash) /\ Managed(a) = Cash(managed)
                /\ LastChangeBlock(a) = LastChangeBlock(cash)
                /\ pair[1] # pair[2] =>
                     /\ Cash(b) = Managed(cash) /\ Managed(b) = Managed(managed)
                     /\ LastChangeBlock(b) = LastChangeBlock(cash)

LEMMA TwoTokenViewNow == TypeOK => TwoTokenViews
<1> SUFFICES ASSUME TypeOK, NEW id \in PoolIds, Specialization(id) = "TWO_TOKEN",
                    twoTokenPoolTokens[id] # <<0, 0>>
             PROVE  LET pair == twoTokenPoolTokens[id]
                        cash == sharedCash[id][pair]
                        managed == sharedManaged[id][pair]
                        a == GetBalance(id, pair[1])
                        b == GetBalance(id, pair[2])
                    IN  /\ pair \in Pairs /\ cash \in Words /\ managed \in Words
                        /\ GetTokens(id) = pair /\ Listed(id) = {pair[1], pair[2]}
                        /\ Cash(a) = Cash(cash) /\ Managed(a) = Cash(managed)
                        /\ LastChangeBlock(a) = LastChangeBlock(cash)
                        /\ pair[1] # pair[2] =>
                             /\ Cash(b) = Managed(cash) /\ Managed(b) = Managed(managed)
                             /\ LastChangeBlock(b) = LastChangeBlock(cash)
    BY DEF TwoTokenViews
<1> DEFINE pair == twoTokenPoolTokens[id]
           cash == sharedCash[id][pair]
           managed == sharedManaged[id][pair]
<1>1. pair \in Pairs /\ GetTokens(id) = pair /\ Listed(id) = {pair[1], pair[2]}
    BY TwoTokensArePair, ListedTwoTokens
<1>2. cash \in Words /\ managed \in Words
    BY <1>1 DEF TypeOK
<1>3. /\ GetBalance(id, pair[1]) = FromSharedToBalanceA(cash, managed)
      /\ pair[1] # pair[2] => GetBalance(id, pair[2]) = FromSharedToBalanceB(cash, managed)
    BY DEF GetBalance
<1> HIDE DEF pair, cash, managed
<1>4. /\ Cash(GetBalance(id, pair[1])) = Cash(cash) /\ Managed(GetBalance(id, pair[1])) = Cash(managed)
      /\ LastChangeBlock(GetBalance(id, pair[1])) = LastChangeBlock(cash)
    BY <1>2, <1>3, SharedFields
<1>5. pair[1] # pair[2] =>
        /\ Cash(GetBalance(id, pair[2])) = Managed(cash)
        /\ Managed(GetBalance(id, pair[2])) = Managed(managed)
        /\ LastChangeBlock(GetBalance(id, pair[2])) = LastChangeBlock(cash)
    BY <1>2, <1>3, SharedFields
<1> QED BY <1>1, <1>2, <1>4, <1>5 DEF pair, cash, managed

LEMMA TwoTokenViewNext == TypeOK' => TwoTokenViews'
BY TwoTokenViewNow, PTL

\* A change of balances, as its event tells it.
Moves(id) ==
    /\ UNCHANGED <<blockNumber, isPoolRegistered, poolAssetManagers>>
    /\ event'.pools = {id} /\ DOMAIN event'.cash = Tokens
    /\ \A t \in Tokens \ Listed(id) : event'.cash[t] = 0 /\ event'.managed[t] = 0
    /\ GetTokens(id)' = GetTokens(id)
    /\ Elsewhere(id)
    /\ \A t \in Listed(id) :
         /\ CASE event'.kind = "cash" -> event'.managed[t] = 0
              [] event'.kind = "move" -> event'.cash[t] = -event'.managed[t]
              [] event'.kind = "report" -> event'.cash[t] = 0
         /\ Fits(Cash(GetBalance(id, t)'), Managed(GetBalance(id, t)'))
         /\ Cash(GetBalance(id, t)') = Cash(GetBalance(id, t)) + event'.cash[t]
         /\ Managed(GetBalance(id, t)') = Managed(GetBalance(id, t)) + event'.managed[t]
         /\ \/ LastChangeBlock(GetBalance(id, t)') = blockNumber
            \/ /\ LastChangeBlock(GetBalance(id, t)') = LastChangeBlock(GetBalance(id, t))
               /\ ~(event'.kind # "move" /\ t \in event'.tokens)

\* What a change of cash does to the balances.
CashMoved(id, delta) ==
    /\ GetTokens(id)' = GetTokens(id)
    /\ \A t \in Listed(id) :
         IF t \in DOMAIN delta
         THEN /\ Fits(Cash(GetBalance(id, t)) + delta[t], Managed(GetBalance(id, t)))
              /\ Cash(GetBalance(id, t)') = Cash(GetBalance(id, t)) + delta[t]
              /\ Managed(GetBalance(id, t)') = Managed(GetBalance(id, t))
              /\ LastChangeBlock(GetBalance(id, t)') = blockNumber
         ELSE GetBalance(id, t)' = GetBalance(id, t)

LEMMA EntryFields ==
    \A t, b : Entry(t, b).token = t /\ Entry(t, b).balance = b
BY DEF Entry

LEMMA CashGeneral ==
    ASSUME TypeOK, TypeOK', NEW id \in PoolIds, Distinct(GetTokens(id)),
           Specialization(id) = "GENERAL", NEW delta, SwapGeneralPool(id, delta),
           UNCHANGED blockNumber
    PROVE  CashMoved(id, delta)
<1> DEFINE entries == generalPoolsBalances[id]
           list == GetTokens(id)
<1>1. entries \in Seq(Entries)
    BY DEF TypeOK, Entries
<1>2. /\ DOMAIN list = DOMAIN entries
      /\ \A i \in DOMAIN entries : /\ list[i] = entries[i].token
                                   /\ GetBalance(id, list[i]) = entries[i].balance
    BY GeneralViewNow DEF GeneralViews
<1>3. /\ DOMAIN generalPoolsBalances'[id] = DOMAIN entries
      /\ \A i \in DOMAIN entries :
           generalPoolsBalances'[id][i] =
             IF entries[i].token \in DOMAIN delta
             THEN Entry(entries[i].token, ChangeCash(entries[i].balance, delta[entries[i].token], blockNumber))
             ELSE entries[i]
    BY DEF SwapGeneralPool, TypeOK
<1>4. GetTokens(id)' = list
  <2>1. GetTokens(id)' = [i \in DOMAIN entries |-> generalPoolsBalances'[id][i].token]
      BY <1>3 DEF GetTokens, TokensOfEntries
  <2>2. list = [i \in DOMAIN entries |-> entries[i].token]
      BY DEF GetTokens, TokensOfEntries
  <2>3. \A i \in DOMAIN entries : generalPoolsBalances'[id][i].token = entries[i].token
      BY <1>3, EntryFields
  <2> QED BY <2>1, <2>2, <2>3
<1>5. \A i \in DOMAIN entries : \A t : t = list[i] => GetBalance(id, t)' = generalPoolsBalances'[id][i].balance
  <2>1. Distinct(GetTokens(id))'
      BY <1>4 DEF Distinct
  <2>2. \A i \in DOMAIN generalPoolsBalances'[id] :
            /\ GetTokens(id)'[i] = generalPoolsBalances'[id][i].token
            /\ \A t : t = GetTokens(id)'[i] => GetBalance(id, t)' = generalPoolsBalances'[id][i].balance
      BY <2>1, GeneralViewNext DEF GeneralViews
  <2> QED BY <2>2, <1>3, <1>4
<1>6. ASSUME NEW i \in DOMAIN entries, entries[i].token \in DOMAIN delta
      PROVE  /\ Fits(Cash(entries[i].balance) + delta[entries[i].token], Managed(entries[i].balance))
             /\ Cash(generalPoolsBalances'[id][i].balance) = Cash(entries[i].balance) + delta[entries[i].token]
             /\ Managed(generalPoolsBalances'[id][i].balance) = Managed(entries[i].balance)
             /\ LastChangeBlock(generalPoolsBalances'[id][i].balance) = blockNumber
  <2>1. CanChangeCash(entries[i].balance, delta[entries[i].token])
      BY <1>6 DEF SwapGeneralPool
  <2>2. generalPoolsBalances'[id][i].balance = ChangeCash(entries[i].balance, delta[entries[i].token], blockNumber)
      BY <1>3, <1>6, EntryFields
  <2> HIDE DEF entries
  <2>3. entries[i].balance \in Words
    <3>1. entries[i] \in Entries
        BY <1>1
    <3> QED BY <3>1 DEF Entries
  <2>4. blockNumber \in 0 .. BlockSize - 1
      BY DEF TypeOK
  <2> QED BY <2>1, <2>2, <2>3, <2>4, ChangedWord
<1>7. ASSUME NEW i \in DOMAIN entries, entries[i].token \notin DOMAIN delta
      PROVE  generalPoolsBalances'[id][i].balance = entries[i].balance
    BY <1>3, <1>7
<1>8. ASSUME NEW t \in Listed(id)
      PROVE  IF t \in DOMAIN delta
             THEN /\ Fits(Cash(GetBalance(id, t)) + delta[t], Managed(GetBalance(id, t)))
                  /\ Cash(GetBalance(id, t)') = Cash(GetBalance(id, t)) + delta[t]
                  /\ Managed(GetBalance(id, t)') = Managed(GetBalance(id, t))
                  /\ LastChangeBlock(GetBalance(id, t)') = blockNumber
             ELSE GetBalance(id, t)' = GetBalance(id, t)
  <2>1. PICK i \in DOMAIN entries : list[i] = t
      BY <1>2 DEF Listed, ToSet
  <2>2. /\ GetBalance(id, t) = entries[i].balance /\ entries[i].token = t
        /\ GetBalance(id, t)' = generalPoolsBalances'[id][i].balance
      BY <2>1, <1>2, <1>5
  <2> QED BY <2>2, <1>6, <1>7
<1> QED BY <1>4, <1>8 DEF CashMoved

LEMMA CashMinimal ==
    ASSUME TypeOK, NEW id \in PoolIds, Specialization(id) = "MINIMAL_SWAP_INFO", NEW delta,
           SwapMinimalSwapInfoPool(id, delta)
    PROVE  CashMoved(id, delta)
<1>1. GetTokens(id)' = GetTokens(id) /\ Listed(id) \subseteq Tokens
    BY ReadTyped DEF SwapMinimalSwapInfoPool, GetTokens, Listed
<1>2. ASSUME NEW t \in Listed(id)
      PROVE  IF t \in DOMAIN delta
             THEN /\ Fits(Cash(GetBalance(id, t)) + delta[t], Managed(GetBalance(id, t)))
                  /\ Cash(GetBalance(id, t)') = Cash(GetBalance(id, t)) + delta[t]
                  /\ Managed(GetBalance(id, t)') = Managed(GetBalance(id, t))
                  /\ LastChangeBlock(GetBalance(id, t)') = blockNumber
             ELSE GetBalance(id, t)' = GetBalance(id, t)
  <2>1. GetBalance(id, t) = minimalPoolsBalances[id][t] /\ GetBalance(id, t)' = minimalPoolsBalances'[id][t]
      BY DEF GetBalance
  <2>2. minimalPoolsBalances[id][t] \in Words /\ blockNumber \in 0 .. BlockSize - 1
      BY <1>1 DEF TypeOK
  <2>3. minimalPoolsBalances'[id][t] =
          IF t \in DOMAIN delta THEN ChangeCash(minimalPoolsBalances[id][t], delta[t], blockNumber)
          ELSE minimalPoolsBalances[id][t]
      BY <1>1 DEF SwapMinimalSwapInfoPool, TypeOK
  <2>4. t \in DOMAIN delta => CanChangeCash(minimalPoolsBalances[id][t], delta[t])
      BY DEF SwapMinimalSwapInfoPool
  <2> QED BY <2>1, <2>2, <2>3, <2>4, ChangedWord
<1> QED BY <1>1, <1>2 DEF CashMoved

\* The two tokens of a Two Token Pool differ, so both views of its words apply.
LEMMA TwoTokenFields ==
    ASSUME TypeOK, LayoutInv, NEW id \in PoolIds, Specialization(id) = "TWO_TOKEN",
           NEW pair, twoTokenPoolTokens[id] = pair, pair # <<0, 0>>
    PROVE  /\ pair \in Pairs /\ pair[1] # pair[2]
           /\ sharedCash[id][pair] \in Words /\ sharedManaged[id][pair] \in Words
           /\ GetTokens(id) = pair /\ Listed(id) = {pair[1], pair[2]}
           /\ GetBalance(id, pair[1]) = FromSharedToBalanceA(sharedCash[id][pair], sharedManaged[id][pair])
           /\ GetBalance(id, pair[2]) = FromSharedToBalanceB(sharedCash[id][pair], sharedManaged[id][pair])
           /\ GetBalance(id, pair[1]) \in Words /\ GetBalance(id, pair[2]) \in Words
<1>1. pair[1] < pair[2]
    BY DEF LayoutInv, PairsAreSorted
<1>2. /\ pair \in Pairs
      /\ sharedCash[id][pair] \in Words /\ sharedManaged[id][pair] \in Words
      /\ GetTokens(id) = pair /\ Listed(id) = {pair[1], pair[2]}
    BY TwoTokenViewNow DEF TwoTokenViews
<1>3. pair[1] \in Nat /\ pair[2] \in Nat
    BY <1>2, PairIsList, StorageAssumption
<1>4. pair[1] # pair[2]
    BY <1>1, <1>3
<1>5. /\ GetBalance(id, pair[1]) = FromSharedToBalanceA(sharedCash[id][pair], sharedManaged[id][pair])
      /\ GetBalance(id, pair[2]) = FromSharedToBalanceB(sharedCash[id][pair], sharedManaged[id][pair])
    BY <1>4 DEF GetBalance
<1>6. GetBalance(id, pair[1]) \in Words /\ GetBalance(id, pair[2]) \in Words
    BY <1>2, <1>5, SharedFields
<1> QED BY <1>2, <1>4, <1>5, <1>6

LEMMA CashTwo ==
    ASSUME TypeOK, TypeOK', LayoutInv, NEW id \in PoolIds, Specialization(id) = "TWO_TOKEN",
           NEW pair, twoTokenPoolTokens[id] = pair, pair # <<0, 0>>,
           NEW delta, DOMAIN delta = {pair[1], pair[2]}, SwapTwoTokenPool(id, pair, delta)
    PROVE  CashMoved(id, delta) /\ LayoutInv'
<1> DEFINE a == GetBalance(id, pair[1])
           b == GetBalance(id, pair[2])
           newA == ChangeCash(a, delta[pair[1]], blockNumber)
           newB == ChangeCash(b, delta[pair[2]], blockNumber)
<1>1. /\ pair \in Pairs /\ pair[1] # pair[2]
      /\ sharedCash[id][pair] \in Words /\ sharedManaged[id][pair] \in Words
      /\ GetTokens(id) = pair /\ Listed(id) = {pair[1], pair[2]}
      /\ a = FromSharedToBalanceA(sharedCash[id][pair], sharedManaged[id][pair])
      /\ b = FromSharedToBalanceB(sharedCash[id][pair], sharedManaged[id][pair])
      /\ a \in Words /\ b \in Words
    BY TwoTokenFields
<1>2. /\ CanChangeCash(a, delta[pair[1]]) /\ CanChangeCash(b, delta[pair[2]])
      /\ sharedCash' = [sharedCash EXCEPT ![id][pair] = ToSharedCash(newA, newB)]
      /\ UNCHANGED <<generalPoolsBalances, minimalPoolsTokens, minimalPoolsBalances,
                     twoTokenPoolTokens, sharedManaged>>
  <2> HIDE DEF a, b
  <2> QED BY <1>1 DEF SwapTwoTokenPool
<1>3. blockNumber \in 0 .. BlockSize - 1 /\ blockNumber \in Int
    BY WordAssumption DEF TypeOK
<1> HIDE DEF a, b
<1>4. /\ newA \in Words /\ Fits(Cash(a) + delta[pair[1]], Managed(a))
      /\ Cash(newA) = Cash(a) + delta[pair[1]] /\ LastChangeBlock(newA) = blockNumber
      /\ newB \in Words /\ Fits(Cash(b) + delta[pair[2]], Managed(b))
      /\ Cash(newB) = Cash(b) + delta[pair[2]] /\ LastChangeBlock(newB) = blockNumber
    BY <1>1, <1>2, <1>3, ChangedWord
<1> HIDE DEF newA, newB
<1>5. /\ sharedCash'[id][pair] = ToSharedCash(newA, newB)
      /\ \A q \in PoolIds, p \in Pairs : q # id \/ p # pair => sharedCash'[q][p] = sharedCash[q][p]
    BY <1>1, <1>2 DEF TypeOK
<1>6. /\ Cash(ToSharedCash(newA, newB)) = Cash(a) + delta[pair[1]]
      /\ Managed(ToSharedCash(newA, newB)) = Cash(b) + delta[pair[2]]
      /\ LastChangeBlock(ToSharedCash(newA, newB)) = blockNumber
  <2>1. MaxOf(blockNumber, blockNumber) = blockNumber
      BY <1>3 DEF MaxOf
  <2> QED BY <1>4, <2>1, ToSharedFields
<1>7. twoTokenPoolTokens'[id] = pair /\ sharedManaged'[id][pair] = sharedManaged[id][pair]
    BY <1>2
<1>8. /\ GetTokens(id)' = pair
      /\ \A t : t = pair[1] => /\ Cash(GetBalance(id, t)') = Cash(sharedCash'[id][pair])
                               /\ Managed(GetBalance(id, t)') = Cash(sharedManaged'[id][pair])
                               /\ LastChangeBlock(GetBalance(id, t)') = LastChangeBlock(sharedCash'[id][pair])
      /\ \A t : t = pair[2] => /\ Cash(GetBalance(id, t)') = Managed(sharedCash'[id][pair])
                               /\ Managed(GetBalance(id, t)') = Managed(sharedManaged'[id][pair])
                               /\ LastChangeBlock(GetBalance(id, t)') = LastChangeBlock(sharedCash'[id][pair])
  <2>1. TwoTokenViews'
      BY TwoTokenViewNext
  <2> QED BY <2>1, <1>1, <1>7 DEF TwoTokenViews
<1>9. /\ Managed(a) = Cash(sharedManaged[id][pair]) /\ Managed(b) = Managed(sharedManaged[id][pair])
    BY <1>1, SharedFields
<1>10. CashMoved(id, delta)
  <2>1. ASSUME NEW t \in Listed(id)
        PROVE  /\ Fits(Cash(GetBalance(id, t)) + delta[t], Managed(GetBalance(id, t)))
               /\ Cash(GetBalance(id, t)') = Cash(GetBalance(id, t)) + delta[t]
               /\ Managed(GetBalance(id, t)') = Managed(GetBalance(id, t))
               /\ LastChangeBlock(GetBalance(id, t)') = blockNumber
    <3>1. CASE t = pair[1]
        BY <3>1, <1>4, <1>5, <1>6, <1>7, <1>8, <1>9 DEF a
    <3>2. CASE t = pair[2]
        BY <3>2, <1>4, <1>5, <1>6, <1>7, <1>8, <1>9 DEF b
    <3> QED BY <1>1, <3>1, <3>2
  <2> QED BY <1>1, <1>8, <2>1 DEF CashMoved
<1>11. LayoutInv'
    BY <1>2, <1>5 DEF LayoutInv, FreeSlotsAreClear, ManagedWordsHoldNoBlock, PairsAreSorted
<1> QED BY <1>10, <1>11

LEMMA CashMoves ==
    ASSUME TypeOK, TypeOK', LayoutInv, NEW id \in PoolIds, Distinct(GetTokens(id)),
           \A t \in Listed(id) : Total(GetBalance(id, t)) < AmountSize,
           NEW pair, NEW delta, ChangeCashOf(id, pair, delta), DOMAIN delta \subseteq Listed(id),
           Specialization(id) = "TWO_TOKEN" =>
               twoTokenPoolTokens[id] = pair /\ pair # <<0, 0>> /\ DOMAIN delta = {pair[1], pair[2]}
    PROVE  Moves(id) /\ LayoutInv'
<1>1. UNCHANGED <<blockNumber, isPoolRegistered, poolAssetManagers>>
    BY DEF ChangeCashOf
<1>2. /\ event'.pools = {id} /\ event'.kind = "cash" /\ event'.tokens = DOMAIN delta
      /\ event'.cash = [t \in Tokens |-> IF t \in DOMAIN delta THEN delta[t] ELSE 0]
      /\ event'.managed = [t \in Tokens |-> 0]
    BY DEF ChangeCashOf, Changed, NoDelta
<1>3. CashMoved(id, delta) /\ LayoutInv' /\ Elsewhere(id)
  <2>1. CASE Specialization(id) = "GENERAL" /\ SwapGeneralPool(id, delta)
    <3>1. CashMoved(id, delta)
        BY <1>1, <2>1, CashGeneral
    <3>2. \A q \in PoolIds \ {id} : generalPoolsBalances'[q] = generalPoolsBalances[q]
        BY <2>1 DEF SwapGeneralPool, TypeOK
    <3>3. Elsewhere(id)
        BY <2>1, <3>2, LayoutUnchanged DEF SwapGeneralPool, Elsewhere
    <3>4. LayoutInv'
        BY <2>1 DEF SwapGeneralPool, LayoutInv, FreeSlotsAreClear, ManagedWordsHoldNoBlock, PairsAreSorted
    <3> QED BY <3>1, <3>3, <3>4
  <2>2. CASE Specialization(id) = "MINIMAL_SWAP_INFO" /\ SwapMinimalSwapInfoPool(id, delta)
    <3>1. CashMoved(id, delta)
        BY <2>2, CashMinimal
    <3>2. /\ \A q \in PoolIds \ {id} : minimalPoolsBalances'[q] = minimalPoolsBalances[q]
          /\ \A t \in Tokens : minimalPoolsBalances'[id][t] =
               IF t \in DOMAIN delta THEN ChangeCash(minimalPoolsBalances[id][t], delta[t], blockNumber)
               ELSE minimalPoolsBalances[id][t]
        BY <2>2 DEF SwapMinimalSwapInfoPool, TypeOK
    <3>3. Elsewhere(id)
        BY <2>2, <3>2, LayoutUnchanged DEF SwapMinimalSwapInfoPool, Elsewhere
    <3>4. DOMAIN delta \subseteq ToSet(minimalPoolsTokens[id])
        BY <2>2 DEF Listed, GetTokens
    <3>5. FreeSlotsAreClear'
        BY <2>2, <3>2, <3>4 DEF SwapMinimalSwapInfoPool, LayoutInv, FreeSlotsAreClear
    <3>6. LayoutInv'
        BY <2>2, <3>5 DEF SwapMinimalSwapInfoPool, LayoutInv, ManagedWordsHoldNoBlock, PairsAreSorted
    <3> QED BY <3>1, <3>3, <3>6
  <2>3. CASE Specialization(id) = "TWO_TOKEN" /\ SwapTwoTokenPool(id, pair, delta)
    <3>1. CashMoved(id, delta) /\ LayoutInv'
        BY <2>3, CashTwo
    <3>2. \A q \in PoolIds \ {id} : sharedCash'[q] = sharedCash[q]
        BY <2>3 DEF SwapTwoTokenPool, TypeOK
    <3>3. Elsewhere(id)
        BY <2>3, <3>2, LayoutUnchanged DEF SwapTwoTokenPool, Elsewhere
    <3> QED BY <3>1, <3>3
  <2> QED BY <2>1, <2>2, <2>3 DEF ChangeCashOf
<1>4. Listed(id) \subseteq Tokens /\ \A t \in Listed(id) : GetBalance(id, t) \in Words
    BY ReadTyped DEF Listed
<1>5. ASSUME NEW t \in Listed(id), t \in DOMAIN delta
      PROVE  /\ Fits(Cash(GetBalance(id, t)'), Managed(GetBalance(id, t)'))
             /\ Cash(GetBalance(id, t)') = Cash(GetBalance(id, t)) + event'.cash[t]
             /\ Managed(GetBalance(id, t)') = Managed(GetBalance(id, t)) + event'.managed[t]
             /\ LastChangeBlock(GetBalance(id, t)') = blockNumber
  <2>1. event'.cash[t] = delta[t] /\ event'.managed[t] = 0
      BY <1>2, <1>4, <1>5
  <2>2. Managed(GetBalance(id, t)) \in Int
      BY <1>4, WordFields
  <2>3. Managed(GetBalance(id, t)) + 0 = Managed(GetBalance(id, t))
      BY <2>2
  <2> QED BY <1>3, <1>5, <2>1, <2>3 DEF CashMoved
<1>6. ASSUME NEW t \in Listed(id), t \notin DOMAIN delta
      PROVE  /\ Fits(Cash(GetBalance(id, t)'), Managed(GetBalance(id, t)'))
             /\ Cash(GetBalance(id, t)') = Cash(GetBalance(id, t)) + event'.cash[t]
             /\ Managed(GetBalance(id, t)') = Managed(GetBalance(id, t)) + event'.managed[t]
             /\ LastChangeBlock(GetBalance(id, t)') = LastChangeBlock(GetBalance(id, t))
  <2>1. event'.cash[t] = 0 /\ event'.managed[t] = 0
      BY <1>2, <1>4, <1>6
  <2>2. GetBalance(id, t)' = GetBalance(id, t)
      BY <1>3, <1>6 DEF CashMoved
  <2> DEFINE old == GetBalance(id, t)
  <2>3. Managed(old) \in 0 .. AmountSize - 1 /\ Cash(old) \in 0 .. AmountSize - 1
      BY <1>4, WordFields
  <2>4. Total(old) < AmountSize
      OBVIOUS
  <2> HIDE DEF old
  <2>5. Fits(Cash(old), Managed(old)) /\ Cash(old) + 0 = Cash(old) /\ Managed(old) + 0 = Managed(old)
      BY <2>3, <2>4 DEF Fits, Total
  <2> QED BY <2>1, <2>2, <2>5 DEF old
<1>7. /\ \A t \in Listed(id) : event'.managed[t] = 0
      /\ \A t \in Tokens \ Listed(id) : event'.cash[t] = 0 /\ event'.managed[t] = 0
      /\ DOMAIN event'.cash = Tokens
    BY <1>2, <1>4
<1>8. GetTokens(id)' = GetTokens(id)
    BY <1>3 DEF CashMoved
<1> QED BY <1>1, <1>2, <1>3, <1>5, <1>6, <1>7, <1>8 DEF Moves

\* What the replacement of one token's word does. The two words of a Two Token Pool share
\* the block of their last change.
Replaced(id, token, newBalance) ==
    /\ GetTokens(id)' = GetTokens(id)
    /\ \A t : t = token =>
         /\ Cash(GetBalance(id, t)') = Cash(newBalance)
         /\ Managed(GetBalance(id, t)') = Managed(newBalance)
         /\ LastChangeBlock(GetBalance(id, t)') = LastChangeBlock(newBalance)
    /\ \A t \in Listed(id) \ {token} :
         /\ Cash(GetBalance(id, t)') = Cash(GetBalance(id, t))
         /\ Managed(GetBalance(id, t)') = Managed(GetBalance(id, t))
         /\ \/ LastChangeBlock(GetBalance(id, t)') = LastChangeBlock(GetBalance(id, t))
            \/ /\ LastChangeBlock(GetBalance(id, t)') = LastChangeBlock(newBalance)
               /\ LastChangeBlock(GetBalance(id, t)) = LastChangeBlock(GetBalance(id, token))

LEMMA ReplacedGeneral ==
    ASSUME TypeOK, TypeOK', NEW id \in PoolIds, Distinct(GetTokens(id)),
           Specialization(id) = "GENERAL", NEW token \in Listed(id), NEW newBalance,
           UpdateGeneralPoolBalance(id, token, newBalance)
    PROVE  Replaced(id, token, newBalance)
<1> DEFINE entries == generalPoolsBalances[id]
           list == GetTokens(id)
           at == IndexIn(list, token)
<1>1. entries \in Seq(Entries)
    BY DEF TypeOK, Entries
<1>2. /\ DOMAIN list = DOMAIN entries
      /\ \A i \in DOMAIN entries : /\ list[i] = entries[i].token
                                   /\ GetBalance(id, list[i]) = entries[i].balance
    BY GeneralViewNow DEF GeneralViews
<1>3. at \in DOMAIN entries /\ list[at] = token
  <2>1. \E i \in DOMAIN list : list[i] = token
      BY DEF Listed, ToSet
  <2>2. at \in DOMAIN list /\ list[at] = token
      BY <2>1 DEF IndexIn
  <2> QED BY <1>2, <2>2
<1>4. \A i \in DOMAIN entries : list[i] = token <=> i = at
    BY <1>2, <1>3 DEF Distinct
<1>5. generalPoolsBalances'[id] = [entries EXCEPT ![at].balance = newBalance]
    BY DEF UpdateGeneralPoolBalance, TypeOK
<1> HIDE DEF at
<1>6. /\ DOMAIN generalPoolsBalances'[id] = DOMAIN entries
      /\ \A i \in DOMAIN entries : i # at => generalPoolsBalances'[id][i] = entries[i]
      /\ generalPoolsBalances'[id][at] = [entries[at] EXCEPT !.balance = newBalance]
    BY <1>3, <1>5
<1>7. generalPoolsBalances'[id][at].token = entries[at].token /\ generalPoolsBalances'[id][at].balance = newBalance
  <2> HIDE DEF entries
  <2>1. entries[at] \in Entries
      BY <1>1, <1>3
  <2> QED BY <1>6, <2>1 DEF Entries
<1>8. GetTokens(id)' = list
  <2>1. GetTokens(id)' = [i \in DOMAIN entries |-> generalPoolsBalances'[id][i].token]
      BY <1>6 DEF GetTokens, TokensOfEntries
  <2>2. list = [i \in DOMAIN entries |-> entries[i].token]
      BY DEF GetTokens, TokensOfEntries
  <2>3. \A i \in DOMAIN entries : generalPoolsBalances'[id][i].token = entries[i].token
      BY <1>6, <1>7
  <2> QED BY <2>1, <2>2, <2>3
<1>9. \A i \in DOMAIN entries : \A t : t = list[i] => GetBalance(id, t)' = generalPoolsBalances'[id][i].balance
  <2>1. Distinct(GetTokens(id))'
      BY <1>8 DEF Distinct
  <2>2. \A i \in DOMAIN generalPoolsBalances'[id] :
            /\ GetTokens(id)'[i] = generalPoolsBalances'[id][i].token
            /\ \A t : t = GetTokens(id)'[i] => GetBalance(id, t)' = generalPoolsBalances'[id][i].balance
      BY <2>1, GeneralViewNext DEF GeneralViews
  <2> QED BY <2>2, <1>6, <1>8
<1>10. \A t : t = token => GetBalance(id, t)' = newBalance
    BY <1>3, <1>7, <1>9
<1>11. ASSUME NEW t \in Listed(id) \ {token}
       PROVE  GetBalance(id, t)' = GetBalance(id, t)
  <2>1. PICK i \in DOMAIN entries : list[i] = t
      BY <1>2 DEF Listed, ToSet
  <2>2. i # at
      BY <1>3, <2>1
  <2> QED BY <1>2, <1>6, <1>9, <2>1, <2>2
<1> QED BY <1>8, <1>10, <1>11 DEF Replaced

LEMMA ReplacedMinimal ==
    ASSUME TypeOK, NEW id \in PoolIds, Specialization(id) = "MINIMAL_SWAP_INFO",
           NEW token \in Listed(id), NEW newBalance,
           UpdateMinimalSwapInfoPoolBalance(id, token, newBalance)
    PROVE  Replaced(id, token, newBalance)
<1>1. GetTokens(id)' = GetTokens(id) /\ Listed(id) \subseteq Tokens
    BY ReadTyped DEF UpdateMinimalSwapInfoPoolBalance, GetTokens, Listed
<1>2. \A t : GetBalance(id, t) = minimalPoolsBalances[id][t] /\ GetBalance(id, t)' = minimalPoolsBalances'[id][t]
    BY DEF GetBalance
<1>3. /\ minimalPoolsBalances'[id][token] = newBalance
      /\ \A t \in Tokens \ {token} : minimalPoolsBalances'[id][t] = minimalPoolsBalances[id][t]
    BY <1>1 DEF UpdateMinimalSwapInfoPoolBalance, TypeOK
<1> QED BY <1>1, <1>2, <1>3 DEF Replaced

LEMMA ReplacedTwo ==
    ASSUME TypeOK, TypeOK', LayoutInv, NEW id \in PoolIds, Specialization(id) = "TWO_TOKEN",
           NEW token \in Listed(id), NEW newBalance \in Words,
           LastChangeBlock(GetBalance(id, token)) <= LastChangeBlock(newBalance),
           UpdateTwoTokenPoolSharedBalance(id, token, newBalance)
    PROVE  Replaced(id, token, newBalance) /\ LayoutInv'
<1> DEFINE pair == twoTokenPoolTokens[id]
           oldA == GetBalance(id, pair[1])
           oldB == GetBalance(id, pair[2])
           a == IF token = pair[1] THEN newBalance ELSE oldA
           b == IF token = pair[1] THEN oldB ELSE newBalance
           shared == sharedCash[id][pair]
           managed == sharedManaged[id][pair]
<1>1. pair # <<0, 0>>
    BY ListedTwoTokens
<1>2. /\ pair \in Pairs /\ pair[1] # pair[2] /\ shared \in Words /\ managed \in Words
      /\ GetTokens(id) = pair /\ Listed(id) = {pair[1], pair[2]}
      /\ oldA = FromSharedToBalanceA(shared, managed) /\ oldB = FromSharedToBalanceB(shared, managed)
      /\ oldA \in Words /\ oldB \in Words
    BY <1>1, TwoTokenFields
<1>3. /\ sharedCash' = [sharedCash EXCEPT ![id][pair] = ToSharedCash(a, b)]
      /\ sharedManaged' = [sharedManaged EXCEPT ![id][pair] = ToSharedManaged(a, b)]
      /\ UNCHANGED <<generalPoolsBalances, minimalPoolsTokens, minimalPoolsBalances, twoTokenPoolTokens>>
    BY DEF UpdateTwoTokenPoolSharedBalance
<1>4. a \in Words /\ b \in Words
    BY <1>2
<1>5. /\ sharedCash'[id][pair] = ToSharedCash(a, b) /\ sharedManaged'[id][pair] = ToSharedManaged(a, b)
      /\ \A q \in PoolIds, p \in Pairs : q # id \/ p # pair =>
            sharedCash'[q][p] = sharedCash[q][p] /\ sharedManaged'[q][p] = sharedManaged[q][p]
    BY <1>2, <1>3 DEF TypeOK
<1>6. /\ Cash(ToSharedCash(a, b)) = Cash(a) /\ Managed(ToSharedCash(a, b)) = Cash(b)
      /\ Cash(ToSharedManaged(a, b)) = Managed(a) /\ Managed(ToSharedManaged(a, b)) = Managed(b)
      /\ LastChangeBlock(ToSharedCash(a, b)) = MaxOf(LastChangeBlock(a), LastChangeBlock(b))
      /\ LastChangeBlock(ToSharedManaged(a, b)) = 0
  <2> HIDE DEF a, b
  <2> QED BY <1>4, ToSharedFields
<1>7. /\ LastChangeBlock(oldA) = LastChangeBlock(shared) /\ LastChangeBlock(oldB) = LastChangeBlock(shared)
      /\ LastChangeBlock(shared) \in Int /\ LastChangeBlock(newBalance) \in Int
  <2> HIDE DEF oldA, oldB, shared, managed
  <2> QED BY <1>2, SharedFields, WordFields, WordAssumption
<1>8. token = pair[1] \/ token = pair[2]
    BY <1>2
<1>9. MaxOf(LastChangeBlock(a), LastChangeBlock(b)) = LastChangeBlock(newBalance)
  <2>1. LastChangeBlock(shared) <= LastChangeBlock(newBalance)
      BY <1>7, <1>8
  <2>2. CASE token = pair[1]
    <3>1. a = newBalance /\ b = oldB
        BY <2>2
    <3> HIDE DEF a, b, oldA, oldB, shared, pair
    <3> QED BY <2>1, <3>1, <1>7 DEF MaxOf
  <2>3. CASE token = pair[2]
    <3>1. b = newBalance /\ a = oldA
        BY <2>3, <1>2
    <3> HIDE DEF a, b, oldA, oldB, shared, pair
    <3> QED BY <2>1, <3>1, <1>7 DEF MaxOf
  <2> QED BY <1>8, <2>2, <2>3
<1>10. /\ GetTokens(id)' = pair
       /\ \A t : t = pair[1] => /\ Cash(GetBalance(id, t)') = Cash(sharedCash'[id][pair])
                                /\ Managed(GetBalance(id, t)') = Cash(sharedManaged'[id][pair])
                                /\ LastChangeBlock(GetBalance(id, t)') = LastChangeBlock(sharedCash'[id][pair])
       /\ \A t : t = pair[2] => /\ Cash(GetBalance(id, t)') = Managed(sharedCash'[id][pair])
                                /\ Managed(GetBalance(id, t)') = Managed(sharedManaged'[id][pair])
                                /\ LastChangeBlock(GetBalance(id, t)') = LastChangeBlock(sharedCash'[id][pair])
  <2>1. TwoTokenViews'
      BY TwoTokenViewNext
  <2>2. twoTokenPoolTokens'[id] = pair
      BY <1>3
  <2> HIDE DEF pair
  <2> QED BY <2>1, <2>2, <1>1, <1>2 DEF TwoTokenViews
<1>11. /\ \A t : t = pair[1] => /\ Cash(GetBalance(id, t)') = Cash(a) /\ Managed(GetBalance(id, t)') = Managed(a)
                                /\ LastChangeBlock(GetBalance(id, t)') = LastChangeBlock(newBalance)
       /\ \A t : t = pair[2] => /\ Cash(GetBalance(id, t)') = Cash(b) /\ Managed(GetBalance(id, t)') = Managed(b)
                                /\ LastChangeBlock(GetBalance(id, t)') = LastChangeBlock(newBalance)
  <2> HIDE DEF a, b, pair
  <2> QED BY <1>5, <1>6, <1>9, <1>10
<1>12. Replaced(id, token, newBalance)
  <2>1. CASE token = pair[1]
    <3>1. a = newBalance /\ b = oldB /\ Listed(id) \ {token} = {pair[2]}
        BY <2>1, <1>2
    <3>2. LastChangeBlock(GetBalance(id, pair[2])) = LastChangeBlock(GetBalance(id, token))
        BY <2>1, <1>7
    <3> HIDE DEF a, b, pair
    <3> QED BY <2>1, <3>1, <3>2, <1>2, <1>10, <1>11 DEF Replaced
  <2>2. CASE token = pair[2]
    <3>1. b = newBalance /\ a = oldA /\ Listed(id) \ {token} = {pair[1]}
        BY <2>2, <1>2
    <3>2. LastChangeBlock(GetBalance(id, pair[1])) = LastChangeBlock(GetBalance(id, token))
        BY <2>2, <1>7
    <3> HIDE DEF a, b, pair
    <3> QED BY <2>2, <3>1, <3>2, <1>2, <1>10, <1>11 DEF Replaced
  <2> QED BY <1>8, <2>1, <2>2
<1>13. FreeSlotsAreClear'
  <2>1. FreeSlotsAreClear
      BY DEF LayoutInv
  <2> HIDE DEF pair, a, b
  <2>2. twoTokenPoolTokens[id] = pair
      BY DEF pair
  <2> QED BY <1>3, <1>5, <2>1, <2>2 DEF FreeSlotsAreClear
<1>14. ManagedWordsHoldNoBlock'
  <2>1. ManagedWordsHoldNoBlock
      BY DEF LayoutInv
  <2> HIDE DEF pair, a, b
  <2> QED BY <1>5, <1>6, <2>1 DEF ManagedWordsHoldNoBlock
<1>15. PairsAreSorted'
    BY <1>3 DEF LayoutInv, PairsAreSorted
<1> QED BY <1>12, <1>13, <1>14, <1>15 DEF LayoutInv

LEMMA UpdateMoves ==
    ASSUME TypeOK, TypeOK', LayoutInv, NEW id \in PoolIds, Distinct(GetTokens(id)),
           \A t \in Listed(id) : Total(GetBalance(id, t)) < AmountSize,
           NEW token \in Listed(id), NEW kind, NEW newBalance \in Words,
           UpdateBalance(id, token, kind, newBalance),
           Fits(Cash(newBalance), Managed(newBalance)),
           LastChangeBlock(GetBalance(id, token)) <= LastChangeBlock(newBalance),
           \/ /\ kind = "move" /\ LastChangeBlock(newBalance) = LastChangeBlock(GetBalance(id, token))
              /\ Cash(newBalance) - Cash(GetBalance(id, token))
                     = -(Managed(newBalance) - Managed(GetBalance(id, token)))
           \/ /\ kind = "report" /\ LastChangeBlock(newBalance) = blockNumber
              /\ Cash(newBalance) = Cash(GetBalance(id, token))
    PROVE  Moves(id) /\ LayoutInv'
<1> DEFINE old == GetBalance(id, token)
<1>1. UNCHANGED <<blockNumber, isPoolRegistered, poolAssetManagers>>
    BY DEF UpdateBalance
<1>2. Listed(id) \subseteq Tokens /\ \A t \in Listed(id) : GetBalance(id, t) \in Words
    BY ReadTyped DEF Listed
<1>3. /\ event'.pools = {id} /\ event'.kind = kind /\ event'.tokens = {token}
      /\ event'.cash = [NoDelta EXCEPT ![token] = Cash(newBalance) - Cash(old)]
      /\ event'.managed = [NoDelta EXCEPT ![token] = ManagedDelta(newBalance, old)]
    BY DEF UpdateBalance, Changed
<1>4. /\ DOMAIN event'.cash = Tokens
      /\ event'.cash[token] = Cash(newBalance) - Cash(old)
      /\ event'.managed[token] = Managed(newBalance) - Managed(old)
      /\ \A t \in Tokens \ {token} : event'.cash[t] = 0 /\ event'.managed[t] = 0
  <2> HIDE DEF old
  <2> QED BY <1>2, <1>3 DEF NoDelta, ManagedDelta
<1>5. Replaced(id, token, newBalance) /\ LayoutInv' /\ Elsewhere(id)
  <2>1. CASE Specialization(id) = "GENERAL" /\ UpdateGeneralPoolBalance(id, token, newBalance)
    <3>1. Replaced(id, token, newBalance)
        BY <2>1, ReplacedGeneral
    <3>2. \A q \in PoolIds \ {id} : generalPoolsBalances'[q] = generalPoolsBalances[q]
        BY <2>1 DEF UpdateGeneralPoolBalance, TypeOK
    <3>3. Elsewhere(id)
        BY <2>1, <3>2, LayoutUnchanged DEF UpdateGeneralPoolBalance, Elsewhere
    <3>4. LayoutInv'
        BY <2>1 DEF UpdateGeneralPoolBalance, LayoutInv, FreeSlotsAreClear, ManagedWordsHoldNoBlock, PairsAreSorted
    <3> QED BY <3>1, <3>3, <3>4
  <2>2. CASE Specialization(id) = "MINIMAL_SWAP_INFO" /\ UpdateMinimalSwapInfoPoolBalance(id, token, newBalance)
    <3>1. Replaced(id, token, newBalance)
        BY <2>2, ReplacedMinimal
    <3>2. \A q \in PoolIds, t \in Tokens : q # id \/ t # token =>
              minimalPoolsBalances'[q][t] = minimalPoolsBalances[q][t]
        BY <2>2 DEF UpdateMinimalSwapInfoPoolBalance, TypeOK
    <3>3. \A q \in PoolIds \ {id} : minimalPoolsBalances'[q] = minimalPoolsBalances[q]
        BY <2>2 DEF UpdateMinimalSwapInfoPoolBalance, TypeOK
    <3>4. Elsewhere(id)
        BY <2>2, <3>3, LayoutUnchanged DEF UpdateMinimalSwapInfoPoolBalance, Elsewhere
    <3>5. token \in ToSet(minimalPoolsTokens[id])
        BY <2>2 DEF Listed, GetTokens
    <3>6. FreeSlotsAreClear'
        BY <2>2, <3>2, <3>5 DEF UpdateMinimalSwapInfoPoolBalance, LayoutInv, FreeSlotsAreClear
    <3>7. LayoutInv'
        BY <2>2, <3>6 DEF UpdateMinimalSwapInfoPoolBalance, LayoutInv, ManagedWordsHoldNoBlock, PairsAreSorted
    <3> QED BY <3>1, <3>4, <3>7
  <2>3. CASE Specialization(id) = "TWO_TOKEN" /\ UpdateTwoTokenPoolSharedBalance(id, token, newBalance)
    <3>1. Replaced(id, token, newBalance) /\ LayoutInv'
        BY <2>3, ReplacedTwo
    <3>2. \A q \in PoolIds \ {id} : sharedCash'[q] = sharedCash[q] /\ sharedManaged'[q] = sharedManaged[q]
        BY <2>3 DEF UpdateTwoTokenPoolSharedBalance, TypeOK
    <3>3. Elsewhere(id)
        BY <2>3, <3>2, LayoutUnchanged DEF UpdateTwoTokenPoolSharedBalance, Elsewhere
    <3> QED BY <3>1, <3>3
  <2> QED BY <2>1, <2>2, <2>3 DEF UpdateBalance
<1>6. /\ Cash(newBalance) \in Int /\ Managed(newBalance) \in Int /\ Cash(old) \in Int /\ Managed(old) \in Int
    BY <1>2, WordFields
<1>7. \A t : t = token =>
        /\ CASE event'.kind = "cash" -> event'.managed[t] = 0
             [] event'.kind = "move" -> event'.cash[t] = -event'.managed[t]
             [] event'.kind = "report" -> event'.cash[t] = 0
        /\ Fits(Cash(GetBalance(id, t)'), Managed(GetBalance(id, t)'))
        /\ Cash(GetBalance(id, t)') = Cash(GetBalance(id, t)) + event'.cash[t]
        /\ Managed(GetBalance(id, t)') = Managed(GetBalance(id, t)) + event'.managed[t]
        /\ \/ LastChangeBlock(GetBalance(id, t)') = blockNumber
           \/ /\ LastChangeBlock(GetBalance(id, t)') = LastChangeBlock(GetBalance(id, t))
              /\ ~(event'.kind # "move" /\ t \in event'.tokens)
  <2>1. /\ Cash(newBalance) = Cash(old) + (Cash(newBalance) - Cash(old))
        /\ Managed(newBalance) = Managed(old) + (Managed(newBalance) - Managed(old))
        /\ Cash(newBalance) = Cash(old) => Cash(newBalance) - Cash(old) = 0
      BY <1>6
  <2> QED BY <1>3, <1>4, <1>5, <2>1 DEF Replaced
<1>8. ASSUME NEW t \in Listed(id) \ {token}
      PROVE  /\ CASE event'.kind = "cash" -> event'.managed[t] = 0
                  [] event'.kind = "move" -> event'.cash[t] = -event'.managed[t]
                  [] event'.kind = "report" -> event'.cash[t] = 0
             /\ Fits(Cash(GetBalance(id, t)'), Managed(GetBalance(id, t)'))
             /\ Cash(GetBalance(id, t)') = Cash(GetBalance(id, t)) + event'.cash[t]
             /\ Managed(GetBalance(id, t)') = Managed(GetBalance(id, t)) + event'.managed[t]
             /\ \/ LastChangeBlock(GetBalance(id, t)') = blockNumber
                \/ /\ LastChangeBlock(GetBalance(id, t)') = LastChangeBlock(GetBalance(id, t))
                   /\ ~(event'.kind # "move" /\ t \in event'.tokens)
  <2>1. event'.cash[t] = 0 /\ event'.managed[t] = 0
      BY <1>2, <1>4
  <2>9. event'.cash[t] = -event'.managed[t]
    <3>1. \A x, y \in Int : x + y = 0 => x = -y
        OBVIOUS
    <3>2. event'.cash[t] + event'.managed[t] = 0 /\ event'.cash[t] \in Int /\ event'.managed[t] \in Int
        BY <2>1
    <3> QED BY <3>1, <3>2
  <2>2. /\ Cash(GetBalance(id, t)') = Cash(GetBalance(id, t))
        /\ Managed(GetBalance(id, t)') = Managed(GetBalance(id, t))
        /\ \/ LastChangeBlock(GetBalance(id, t)') = LastChangeBlock(GetBalance(id, t))
           \/ /\ LastChangeBlock(GetBalance(id, t)') = LastChangeBlock(newBalance)
              /\ LastChangeBlock(GetBalance(id, t)) = LastChangeBlock(GetBalance(id, token))
      BY <1>5 DEF Replaced
  <2> DEFINE word == GetBalance(id, t)
  <2>3. Managed(word) \in 0 .. AmountSize - 1 /\ Cash(word) \in 0 .. AmountSize - 1
      BY <1>2, WordFields
  <2>4. Total(word) < AmountSize
      OBVIOUS
  <2>5. Fits(Cash(word), Managed(word)) /\ Cash(word) + 0 = Cash(word) /\ Managed(word) + 0 = Managed(word)
    <3> HIDE DEF word
    <3> QED BY <2>3, <2>4 DEF Fits, Total
  <2>6. \/ LastChangeBlock(GetBalance(id, t)') = blockNumber
        \/ LastChangeBlock(GetBalance(id, t)') = LastChangeBlock(GetBalance(id, t))
      BY <2>2
  <2>7. t \notin event'.tokens
      BY <1>3
  <2>8. event'.kind = "move" \/ event'.kind = "report"
      BY <1>3
  <2> QED BY <2>1, <2>2, <2>5, <2>6, <2>7, <2>8, <2>9
<1>9. GetTokens(id)' = GetTokens(id)
    BY <1>5 DEF Replaced
<1>10. \A t \in Tokens \ Listed(id) : event'.cash[t] = 0 /\ event'.managed[t] = 0
    BY <1>4
<1> HIDE DEF old
<1> QED BY <1>1, <1>3, <1>4, <1>5, <1>7, <1>8, <1>9, <1>10 DEF Moves

\* What the registration of tokens does: they are new, and start empty.
Adds(id, tokens) ==
    /\ ToSet(tokens) \subseteq Tokens /\ ToSet(tokens) \cap Listed(id) = {}
    /\ Listed(id)' = Listed(id) \cup ToSet(tokens)
    /\ Distinct(GetTokens(id))'
    /\ Elsewhere(id)
    /\ \A t \in Listed(id) : GetBalance(id, t)' = GetBalance(id, t)
    /\ \A t \in ToSet(tokens) :
         /\ Cash(GetBalance(id, t)') = 0 /\ Managed(GetBalance(id, t)') = 0
         /\ LastChangeBlock(GetBalance(id, t)') = 0

\* `all` is `list`, of length n, followed by `more`, of length k.
Joins(all, list, more, n, k) ==
    /\ n \in Nat /\ k \in Nat
    /\ DOMAIN list = 1 .. n /\ DOMAIN more = 1 .. k /\ DOMAIN all = 1 .. n + k
    /\ \A i \in 1 .. n : all[i] = list[i]
    /\ \A j \in 1 .. k : all[n + j] = more[j]

LEMMA Joined ==
    ASSUME NEW n, NEW k, NEW list, NEW more, NEW all, Joins(all, list, more, n, k)
    PROVE  /\ ToSet(all) = ToSet(list) \cup ToSet(more)
           /\ Distinct(list) /\ Distinct(more) /\ ToSet(more) \cap ToSet(list) = {} => Distinct(all)
<1> USE DEF Joins
<1>1. \A i \in 1 .. n + k : i \in 1 .. n \/ (i - n \in 1 .. k /\ i = n + (i - n))
    OBVIOUS
<1>2. \A j \in 1 .. k : n + j \in 1 .. n + k
    OBVIOUS
<1>3. \A i \in 1 .. n : i \in 1 .. n + k
    OBVIOUS
<1>4. ToSet(all) = ToSet(list) \cup ToSet(more)
  <2>1. ASSUME NEW i \in 1 .. n + k PROVE all[i] \in ToSet(list) \cup ToSet(more)
    <3>1. CASE i \in 1 .. n
        BY <3>1 DEF ToSet
    <3>2. CASE i - n \in 1 .. k
      <4>1. all[n + (i - n)] = more[i - n] /\ n + (i - n) = i
          BY <3>2
      <4> QED BY <3>2, <4>1 DEF ToSet
    <3> QED BY <1>1, <3>1, <3>2
  <2>2. ToSet(list) \subseteq ToSet(all)
      BY <1>3 DEF ToSet
  <2>3. ToSet(more) \subseteq ToSet(all)
      BY <1>2 DEF ToSet
  <2>4. \A x \in ToSet(all) : \E i \in 1 .. n + k : x = all[i]
      BY DEF ToSet
  <2> QED BY <2>1, <2>2, <2>3, <2>4
<1>5. ASSUME Distinct(list), Distinct(more), ToSet(more) \cap ToSet(list) = {}
      PROVE  Distinct(all)
  <2> SUFFICES ASSUME NEW i \in 1 .. n + k, NEW j \in 1 .. n + k, all[i] = all[j]
               PROVE  i = j
      BY DEF Distinct
  <2>1. CASE i \in 1 .. n /\ j \in 1 .. n
      BY <1>5, <2>1 DEF Distinct
  <2>2. CASE i - n \in 1 .. k /\ j - n \in 1 .. k
    <3>1. all[n + (i - n)] = more[i - n] /\ all[n + (j - n)] = more[j - n]
        BY <2>2
    <3>2. n + (i - n) = i /\ n + (j - n) = j
        OBVIOUS
    <3>3. i - n = j - n
        BY <1>5, <2>2, <3>1, <3>2 DEF Distinct
    <3> QED BY <3>3
  <2>3. ASSUME NEW x \in 1 .. n, NEW y \in 1 .. n + k, y - n \in 1 .. k, all[x] = all[y]
        PROVE  FALSE
    <3>1. all[n + (y - n)] = more[y - n] /\ n + (y - n) = y
        BY <2>3
    <3>2. more[y - n] \in ToSet(more) /\ list[x] \in ToSet(list)
        BY <2>3 DEF ToSet
    <3> QED BY <1>5, <2>3, <3>1, <3>2
  <2> QED BY <1>1, <2>1, <2>2, <2>3
<1> QED BY <1>4, <1>5

LEMMA AddsGeneral ==
    ASSUME TypeOK, TypeOK', NEW id \in PoolIds, Distinct(GetTokens(id)),
           Specialization(id) = "GENERAL", NEW tokens \in Seq(Tokens),
           RegisterGeneralPoolTokens(id, tokens)
    PROVE  Adds(id, tokens)
<1> DEFINE entries == generalPoolsBalances[id]
           list == GetTokens(id)
           new == [i \in DOMAIN tokens |-> Entry(tokens[i], 0)]
           n == Len(entries)
           k == Len(tokens)
           all == GetTokens(id)'
<1>1. entries \in Seq(Entries)
    BY DEF TypeOK, Entries
<1>2. new \in Seq(Entries) /\ Len(new) = k /\ k \in Nat /\ DOMAIN tokens = 1 .. k
  <2>1. DOMAIN tokens = 1 .. k /\ k \in Nat /\ \A i \in DOMAIN tokens : tokens[i] \in Tokens
      OBVIOUS
  <2>2. new \in [1 .. k -> Entries]
      BY <2>1, ZeroWord DEF Entry, Entries
  <2> QED BY <2>1, <2>2, FunctionIsSeq
<1>3. \A j \in 1 .. k : new[j].token = tokens[j] /\ new[j].balance = 0
    BY <1>2, EntryFields
<1>4. n \in Nat /\ DOMAIN entries = 1 .. n
    BY <1>1
<1>5. generalPoolsBalances'[id] = entries \o new
    BY DEF RegisterGeneralPoolTokens, TypeOK
<1> HIDE DEF new
<1>6. /\ DOMAIN generalPoolsBalances'[id] = 1 .. n + k
      /\ \A i \in 1 .. n : generalPoolsBalances'[id][i] = entries[i]
      /\ \A j \in 1 .. k : generalPoolsBalances'[id][n + j] = new[j]
  <2> HIDE DEF entries
  <2>1. /\ entries \o new \in Seq(Entries) /\ Len(entries \o new) = n + k
        /\ \A i \in 1 .. n : (entries \o new)[i] = entries[i]
        /\ \A j \in 1 .. k : (entries \o new)[n + j] = new[j]
      BY <1>1, <1>2
  <2> QED BY <1>5, <2>1
<1>7. /\ DOMAIN list = 1 .. n
      /\ \A i \in 1 .. n : /\ list[i] = entries[i].token
                           /\ GetBalance(id, list[i]) = entries[i].balance
    BY <1>4, GeneralViewNow DEF GeneralViews
<1>8. /\ DOMAIN all = 1 .. n + k
      /\ \A i \in 1 .. n + k : all[i] = generalPoolsBalances'[id][i].token
    BY <1>6 DEF GetTokens, TokensOfEntries
<1>9. (\A i \in 1 .. n : i \in 1 .. n + k) /\ (\A j \in 1 .. k : n + j \in 1 .. n + k)
    BY <1>2, <1>4
<1>10. (\A i \in 1 .. n : all[i] = list[i]) /\ (\A j \in 1 .. k : all[n + j] = tokens[j])
    BY ZenonT(30), <1>3, <1>6, <1>7, <1>8, <1>9
<1>11. ToSet(tokens) \cap ToSet(list) = {} /\ Distinct(tokens)
    BY DEF RegisterGeneralPoolTokens
<1>12. ToSet(all) = ToSet(list) \cup ToSet(tokens) /\ Distinct(all)
  <2>1. Distinct(list)
      OBVIOUS
  <2> HIDE DEF all, list, n, k
  <2>2. Joins(all, list, tokens, n, k)
      BY <1>2, <1>4, <1>7, <1>8, <1>10 DEF Joins
  <2> QED BY <2>1, <2>2, <1>11, Joined
<1>13. \A i \in 1 .. n + k : \A t : t = all[i] => GetBalance(id, t)' = generalPoolsBalances'[id][i].balance
  <2>1. GeneralViews' /\ Distinct(GetTokens(id))'
      BY <1>12, GeneralViewNext DEF Distinct
  <2> QED BY <2>1, <1>6 DEF GeneralViews
<1>14. ASSUME NEW t \in Listed(id)
       PROVE  GetBalance(id, t)' = GetBalance(id, t)
  <2>1. PICK i \in 1 .. n : list[i] = t
      BY <1>7 DEF Listed, ToSet
  <2>2. GetBalance(id, t) = entries[i].balance
      BY <2>1, <1>7
  <2>3. GetBalance(id, t)' = generalPoolsBalances'[id][i].balance
      BY <2>1, <1>9, <1>10, <1>13
  <2> QED BY <2>1, <2>2, <2>3, <1>6
<1>15. ASSUME NEW t \in ToSet(tokens)
       PROVE  GetBalance(id, t)' = 0
  <2>1. PICK j \in 1 .. k : tokens[j] = t
      BY <1>2 DEF ToSet
  <2>2. GetBalance(id, t)' = generalPoolsBalances'[id][n + j].balance
      BY <2>1, <1>9, <1>10, <1>13
  <2> QED BY <2>2, <1>3, <1>6
<1>16. Elsewhere(id)
  <2>1. \A q \in PoolIds \ {id} : generalPoolsBalances'[q] = generalPoolsBalances[q]
      BY DEF RegisterGeneralPoolTokens, TypeOK
  <2> QED BY <2>1, LayoutUnchanged DEF RegisterGeneralPoolTokens, Elsewhere
<1>17. ToSet(tokens) \subseteq Tokens
    BY <1>2 DEF ToSet
<1>18. Listed(id) = ToSet(list) /\ Listed(id)' = ToSet(all) /\ Distinct(GetTokens(id))' = Distinct(all)
    BY DEF Listed, ToSet, Distinct
<1> HIDE DEF list, all
<1> QED BY <1>11, <1>12, <1>14, <1>15, <1>16, <1>17, <1>18, ZeroWord DEF Adds

LEMMA AddsMinimal ==
    ASSUME TypeOK, FreeSlotsAreClear, NEW id \in PoolIds, Distinct(GetTokens(id)),
           Specialization(id) = "MINIMAL_SWAP_INFO", NEW tokens \in Seq(Tokens),
           RegisterMinimalSwapInfoPoolTokens(id, tokens)
    PROVE  Adds(id, tokens)
<1> DEFINE list == minimalPoolsTokens[id]
           all == minimalPoolsTokens'[id]
<1>1. list \in Seq(Tokens) /\ GetTokens(id) = list /\ GetTokens(id)' = all /\ all = list \o tokens
    BY DEF RegisterMinimalSwapInfoPoolTokens, GetTokens, TypeOK
<1>2. ToSet(tokens) \cap ToSet(list) = {} /\ Distinct(tokens) /\ Distinct(list)
    BY <1>1 DEF RegisterMinimalSwapInfoPoolTokens
<1>3. \A t : GetBalance(id, t) = minimalPoolsBalances[id][t] /\ GetBalance(id, t)' = minimalPoolsBalances'[id][t]
    BY DEF GetBalance
<1>4. Listed(id) = ToSet(list) /\ Listed(id)' = ToSet(all) /\ Distinct(GetTokens(id))' = Distinct(all)
    BY <1>1 DEF Listed, ToSet, Distinct
<1>5. minimalPoolsBalances' = minimalPoolsBalances
    BY DEF RegisterMinimalSwapInfoPoolTokens
<1>6. ToSet(all) = ToSet(list) \cup ToSet(tokens) /\ Distinct(all)
  <2> HIDE DEF list, all
  <2>1. Joins(all, list, tokens, Len(list), Len(tokens))
      BY <1>1 DEF Joins
  <2> QED BY <1>2, <2>1, Joined
<1>7. ToSet(tokens) \subseteq Tokens
    BY DEF ToSet
<1>8. \A t \in ToSet(tokens) : minimalPoolsBalances[id][t] = 0
    BY <1>2, <1>7 DEF FreeSlotsAreClear
<1>9. Elsewhere(id)
  <2>1. \A q \in PoolIds \ {id} : minimalPoolsTokens'[q] = minimalPoolsTokens[q]
      BY DEF RegisterMinimalSwapInfoPoolTokens, TypeOK
  <2> QED BY <2>1, LayoutUnchanged DEF RegisterMinimalSwapInfoPoolTokens, Elsewhere
<1> HIDE DEF list, all
<1> QED BY <1>2, <1>3, <1>4, <1>5, <1>6, <1>7, <1>8, <1>9, ZeroWord DEF Adds

LEMMA AddsTwo ==
    ASSUME TypeOK, TypeOK', FreeSlotsAreClear, NEW id \in PoolIds,
           Specialization(id) = "TWO_TOKEN", NEW tokens \in Seq(Tokens),
           RegisterTwoTokenPoolTokens(id, tokens)
    PROVE  Adds(id, tokens)
<1>1. tokens \in Pairs /\ tokens[1] < tokens[2] /\ twoTokenPoolTokens[id] = <<0, 0>>
    BY ListIsPair DEF RegisterTwoTokenPoolTokens
<1>2. /\ ToSet(tokens) = {tokens[1], tokens[2]} /\ DOMAIN tokens = {1, 2}
      /\ tokens[1] \in Tokens /\ tokens[2] \in Tokens
    BY <1>1, PairIsList
<1>3. tokens[1] # tokens[2]
  <2>1. tokens[1] \in Nat /\ tokens[2] \in Nat
      BY <1>2, StorageAssumption
  <2> QED BY <1>1, <2>1
<1>4. twoTokenPoolTokens'[id] = tokens /\ tokens # <<0, 0>>
    BY <1>1, TwoTokensArePair DEF RegisterTwoTokenPoolTokens, TypeOK
<1>5. sharedCash'[id][tokens] = 0 /\ sharedManaged'[id][tokens] = 0
    BY <1>1, <1>4 DEF FreeSlotsAreClear, RegisterTwoTokenPoolTokens
<1>6. /\ GetTokens(id)' = tokens /\ Listed(id)' = {tokens[1], tokens[2]}
      /\ \A t \in {tokens[1], tokens[2]} :
           /\ Cash(GetBalance(id, t)') = 0 /\ Managed(GetBalance(id, t)') = 0
           /\ LastChangeBlock(GetBalance(id, t)') = 0
  <2>1. /\ GetTokens(id)' = tokens /\ Listed(id)' = {tokens[1], tokens[2]}
        /\ \A t : t = tokens[1] => /\ Cash(GetBalance(id, t)') = Cash(0) /\ Managed(GetBalance(id, t)') = Cash(0)
                                   /\ LastChangeBlock(GetBalance(id, t)') = LastChangeBlock(0)
        /\ \A t : t = tokens[2] => /\ Cash(GetBalance(id, t)') = Managed(0) /\ Managed(GetBalance(id, t)') = Managed(0)
                                   /\ LastChangeBlock(GetBalance(id, t)') = LastChangeBlock(0)
    <3>1. TwoTokenViews'
        BY TwoTokenViewNext
    <3> QED BY <3>1, <1>3, <1>4, <1>5 DEF TwoTokenViews
  <2> QED BY <2>1, ZeroWord
<1>7. Listed(id) = {}
    BY <1>1, ListedTwoTokens
<1>8. Distinct(GetTokens(id))'
    BY <1>2, <1>3, <1>6 DEF Distinct
<1>9. Elsewhere(id)
  <2>1. \A q \in PoolIds \ {id} : twoTokenPoolTokens'[q] = twoTokenPoolTokens[q]
      BY DEF RegisterTwoTokenPoolTokens, TypeOK
  <2> QED BY <2>1, LayoutUnchanged DEF RegisterTwoTokenPoolTokens, Elsewhere
<1> QED BY <1>2, <1>6, <1>7, <1>8, <1>9 DEF Adds

LEMMA RegisterAdds ==
    ASSUME TypeOK, TypeOK', LayoutInv, NEW id \in PoolIds, Distinct(GetTokens(id)),
           NEW sender, NEW tokens \in RegisteredLists, NEW assetManagers,
           RegisterTokens(sender, id, tokens, assetManagers)
    PROVE  Adds(id, tokens) /\ LayoutInv'
<1>1. tokens \in Seq(Tokens)
    BY GivenLists DEF RegisterTokens
<1>2. FreeSlotsAreClear /\ ManagedWordsHoldNoBlock /\ PairsAreSorted
    BY DEF LayoutInv
<1>3. CASE Specialization(id) = "GENERAL" /\ RegisterGeneralPoolTokens(id, tokens)
  <2>1. LayoutInv'
      BY <1>3 DEF RegisterGeneralPoolTokens, LayoutInv, FreeSlotsAreClear, ManagedWordsHoldNoBlock, PairsAreSorted
  <2> QED BY <1>1, <1>3, <2>1, AddsGeneral
<1>4. CASE Specialization(id) = "MINIMAL_SWAP_INFO" /\ RegisterMinimalSwapInfoPoolTokens(id, tokens)
  <2>1. Adds(id, tokens)
      BY <1>1, <1>2, <1>4, AddsMinimal
  <2>2. ToSet(minimalPoolsTokens[id]) \subseteq ToSet(minimalPoolsTokens'[id])
    <3>1. Listed(id) = ToSet(minimalPoolsTokens[id]) /\ Listed(id)' = ToSet(minimalPoolsTokens'[id])
        BY <1>4 DEF Listed, GetTokens, ToSet
    <3> QED BY <2>1, <3>1 DEF Adds
  <2>3. \A q \in PoolIds \ {id} : minimalPoolsTokens'[q] = minimalPoolsTokens[q]
      BY <1>4 DEF RegisterMinimalSwapInfoPoolTokens, TypeOK
  <2>4. \A q \in PoolIds : ToSet(minimalPoolsTokens[q]) \subseteq ToSet(minimalPoolsTokens'[q])
      BY <2>2, <2>3
  <2>5. FreeSlotsAreClear'
    <3>1. \A q \in PoolIds : \A t \in Tokens \ ToSet(minimalPoolsTokens'[q]) : minimalPoolsBalances[q][t] = 0
        BY <1>2, <2>4 DEF FreeSlotsAreClear
    <3>2. \A q \in PoolIds : ToSet(minimalPoolsTokens[q])' = ToSet(minimalPoolsTokens'[q])
        BY DEF ToSet
    <3> QED BY <1>2, <1>4, <3>1, <3>2 DEF RegisterMinimalSwapInfoPoolTokens, FreeSlotsAreClear
  <2>6. LayoutInv'
      BY <1>2, <1>4, <2>5 DEF RegisterMinimalSwapInfoPoolTokens, LayoutInv, ManagedWordsHoldNoBlock, PairsAreSorted
  <2> QED BY <2>1, <2>6
<1>5. CASE Specialization(id) = "TWO_TOKEN" /\ RegisterTwoTokenPoolTokens(id, tokens)
  <2>1. Adds(id, tokens)
      BY <1>1, <1>2, <1>5, AddsTwo
  <2>2. tokens \in Pairs /\ tokens[1] < tokens[2] /\ twoTokenPoolTokens[id] = <<0, 0>> /\ tokens # <<0, 0>>
      BY <1>1, <1>5, ListIsPair, TwoTokensArePair DEF RegisterTwoTokenPoolTokens
  <2>3. \A q \in PoolIds : twoTokenPoolTokens'[q] = IF q = id THEN tokens ELSE twoTokenPoolTokens[q]
      BY <1>5 DEF RegisterTwoTokenPoolTokens, TypeOK
  <2>4. \A pair \in Pairs : pair # <<0, 0>>
      BY <1>5, TwoTokensArePair
  <2>5. FreeSlotsAreClear'
    <3>1. /\ minimalPoolsTokens' = minimalPoolsTokens /\ minimalPoolsBalances' = minimalPoolsBalances
          /\ sharedCash' = sharedCash /\ sharedManaged' = sharedManaged
        BY <1>5 DEF RegisterTwoTokenPoolTokens
    <3>2. \A q \in PoolIds, pair \in Pairs : twoTokenPoolTokens'[q] # pair => twoTokenPoolTokens[q] # pair
        BY <2>2, <2>3, <2>4
    <3> QED BY <1>2, <3>1, <3>2 DEF FreeSlotsAreClear
  <2>6. PairsAreSorted'
      BY <1>2, <2>2, <2>3 DEF PairsAreSorted
  <2>7. ManagedWordsHoldNoBlock'
      BY <1>2, <1>5 DEF RegisterTwoTokenPoolTokens, ManagedWordsHoldNoBlock
  <2> QED BY <2>1, <2>5, <2>6, <2>7 DEF LayoutInv
<1> QED BY <1>3, <1>4, <1>5 DEF RegisterTokens

\* What the removal of tokens does: they were listed, and held nothing.
Removes(id, tokens) ==
    /\ ToSet(tokens) \subseteq Listed(id)
    /\ Listed(id)' = Listed(id) \ ToSet(tokens)
    /\ Distinct(GetTokens(id))'
    /\ Elsewhere(id)
    /\ \A t \in Listed(id) \ ToSet(tokens) : GetBalance(id, t)' = GetBalance(id, t)
    /\ \A t \in ToSet(tokens) : Cash(GetBalance(id, t)) = 0 /\ Managed(GetBalance(id, t)) = 0

\* `all` is `list`, of length n, whose last entry took the place of the i-th.
Pops(all, list, i, n) ==
    /\ n \in Nat /\ i \in 1 .. n
    /\ DOMAIN list = 1 .. n /\ DOMAIN all = 1 .. n - 1
    /\ \A j \in 1 .. n - 1 : all[j] = IF j = i THEN list[n] ELSE list[j]

\* Where the entries of the shorter list are found in the longer one, and back.
LEMMA PopMoves ==
    ASSUME NEW all, NEW list, NEW i, NEW n, Pops(all, list, i, n)
    PROVE  /\ \A j \in 1 .. n - 1 : \E m \in 1 .. n : /\ m # i /\ all[j] = list[m]
                                                      /\ m = IF j = i THEN n ELSE j
           /\ \A m \in 1 .. n : m # i => \E j \in 1 .. n - 1 : /\ all[j] = list[m]
                                                               /\ m = IF j = i THEN n ELSE j
<1> USE DEF Pops
<1>1. ASSUME NEW j \in 1 .. n - 1
      PROVE  \E m \in 1 .. n : m # i /\ all[j] = list[m] /\ m = IF j = i THEN n ELSE j
  <2>1. CASE j = i
    <3>1. n \in 1 .. n /\ n # i /\ all[j] = list[n]
        BY <2>1
    <3> QED BY <2>1, <3>1
  <2>2. CASE j # i
    <3>1. j \in 1 .. n /\ all[j] = list[j]
        BY <2>2
    <3> QED BY <2>2, <3>1
  <2> QED BY <2>1, <2>2
<1>2. ASSUME NEW m \in 1 .. n, m # i
      PROVE  \E j \in 1 .. n - 1 : all[j] = list[m] /\ m = IF j = i THEN n ELSE j
  <2>1. CASE m = n
    <3>1. i \in 1 .. n - 1 /\ all[i] = list[n]
        BY <1>2, <2>1
    <3> QED BY <2>1, <3>1
  <2>2. CASE m # n
    <3>1. m \in 1 .. n - 1 /\ all[m] = list[m]
        BY <1>2, <2>2
    <3> QED BY <1>2, <3>1
  <2> QED BY <2>1, <2>2
<1> QED BY <1>1, <1>2

LEMMA Popped ==
    ASSUME NEW all, NEW list, NEW i, NEW n, Pops(all, list, i, n), Distinct(list)
    PROVE  Distinct(all) /\ ToSet(all) = ToSet(list) \ {list[i]}
<1>1. n \in Nat /\ i \in 1 .. n /\ DOMAIN list = 1 .. n /\ DOMAIN all = 1 .. n - 1
    BY DEF Pops
<1>2. \A j \in 1 .. n - 1 : \E m \in 1 .. n : m # i /\ all[j] = list[m] /\ m = IF j = i THEN n ELSE j
    BY PopMoves
<1>3. \A m \in 1 .. n : m # i => \E j \in 1 .. n - 1 : all[j] = list[m]
    BY PopMoves
<1>4. Distinct(all)
  <2> SUFFICES ASSUME NEW j \in 1 .. n - 1, NEW k \in 1 .. n - 1, all[j] = all[k]
               PROVE  j = k
      BY <1>1 DEF Distinct
  <2>1. PICK m \in 1 .. n : m # i /\ all[j] = list[m] /\ m = IF j = i THEN n ELSE j
      BY <1>2
  <2>2. PICK o \in 1 .. n : o # i /\ all[k] = list[o] /\ o = IF k = i THEN n ELSE k
      BY <1>2
  <2>3. m = o
      BY <1>1, <2>1, <2>2 DEF Distinct
  <2> QED BY <1>1, <2>1, <2>2, <2>3
<1>5. \A x \in ToSet(all) : x \in ToSet(list) \ {list[i]}
  <2> SUFFICES ASSUME NEW j \in 1 .. n - 1 PROVE all[j] \in ToSet(list) \ {list[i]}
      BY <1>1 DEF ToSet
  <2>1. PICK m \in 1 .. n : m # i /\ all[j] = list[m]
      BY <1>2
  <2>2. list[m] \in ToSet(list) /\ list[m] # list[i]
      BY <1>1, <2>1 DEF ToSet, Distinct
  <2> QED BY <2>1, <2>2
<1>6. \A x \in ToSet(list) \ {list[i]} : x \in ToSet(all)
  <2> SUFFICES ASSUME NEW m \in 1 .. n, m # i PROVE list[m] \in ToSet(all)
      BY <1>1 DEF ToSet
  <2>1. PICK j \in 1 .. n - 1 : all[j] = list[m]
      BY <1>3
  <2> QED BY <1>1, <2>1 DEF ToSet
<1> QED BY <1>4, <1>5, <1>6

LEMMA ListedAt ==
    ASSUME NEW list, NEW x \in ToSet(list)
    PROVE  IndexIn(list, x) \in DOMAIN list /\ list[IndexIn(list, x)] = x
<1>1. \E i \in DOMAIN list : list[i] = x
    BY DEF ToSet
<1> QED BY <1>1 DEF IndexIn

LEMMA RemovesGeneral ==
    ASSUME TypeOK, TypeOK', NEW id \in PoolIds, Distinct(GetTokens(id)),
           Specialization(id) = "GENERAL", NEW tokens \in Seq(Tokens),
           DeregisterGeneralPoolTokens(id, tokens)
    PROVE  Removes(id, tokens)
<1> DEFINE entries == generalPoolsBalances[id]
           list == GetTokens(id)
           token == tokens[1]
           i == IndexIn(list, token)
           n == Len(entries)
           all == GetTokens(id)'
           left == generalPoolsBalances'[id]
<1>1. ToSet(tokens) = {token} /\ token \in ToSet(list) /\ IsZero(GetBalance(id, token))
    BY DEF DeregisterGeneralPoolTokens, IsTokenRegistered, ToSet
<1>2. entries \in Seq(Entries) /\ n \in Nat /\ DOMAIN entries = 1 .. n
  <2>1. entries \in Seq(Entries)
      BY DEF TypeOK, Entries
  <2> HIDE DEF entries
  <2> QED BY <2>1
<1>3. /\ DOMAIN list = 1 .. n
      /\ \A m \in 1 .. n : list[m] = entries[m].token /\ GetBalance(id, list[m]) = entries[m].balance
    BY <1>2, GeneralViewNow DEF GeneralViews
<1>4. i \in 1 .. n /\ list[i] = token
    BY <1>1, <1>3, ListedAt
<1>5. left = SwapAndPop(entries, i)
    BY DEF DeregisterGeneralPoolTokens, TypeOK
<1> HIDE DEF i
<1>6. DOMAIN left = 1 .. n - 1 /\ \A j \in 1 .. n - 1 : left[j] = IF j = i THEN entries[n] ELSE entries[j]
    BY <1>5 DEF SwapAndPop
<1>7. DOMAIN all = 1 .. n - 1 /\ \A j \in 1 .. n - 1 : all[j] = left[j].token
  <2>1. all = [j \in DOMAIN left |-> left[j].token]
      BY DEF GetTokens, TokensOfEntries
  <2> HIDE DEF left, all, n
  <2> QED BY <1>6, <2>1
<1>8. Pops(all, list, i, n)
  <2>1. n \in 1 .. n
      BY <1>2, <1>4
  <2>2. ASSUME NEW j \in 1 .. n - 1 PROVE all[j] = IF j = i THEN list[n] ELSE list[j]
    <3>1. j \in 1 .. n
        BY <1>2
    <3>2. all[j] = left[j].token
        BY <1>7
    <3>3. left[j] = IF j = i THEN entries[n] ELSE entries[j]
        BY <1>6
    <3>4. list[n] = entries[n].token /\ list[j] = entries[j].token
        BY <1>3, <2>1, <3>1
    <3> HIDE DEF list, all, left, entries, n
    <3> QED BY <3>2, <3>3, <3>4
  <2> QED BY <1>2, <1>3, <1>4, <1>7, <2>2 DEF Pops
<1>9. Distinct(all) /\ ToSet(all) = ToSet(list) \ {token}
  <2>1. Distinct(list)
      OBVIOUS
  <2> HIDE DEF all, list, token, n
  <2> QED BY <1>4, <1>8, <2>1, Popped
<1>10. \A j \in 1 .. n - 1 : \A t : t = all[j] => GetBalance(id, t)' = left[j].balance
  <2>1. GeneralViews' /\ Distinct(GetTokens(id))'
      BY <1>9, GeneralViewNext DEF Distinct
  <2> QED BY <2>1, <1>6 DEF GeneralViews
<1>11. ASSUME NEW t \in ToSet(list) \ {token}
       PROVE  GetBalance(id, t)' = GetBalance(id, t)
  <2>1. PICK m \in 1 .. n : list[m] = t
      BY <1>3 DEF ToSet
  <2>2. m # i
      BY <1>4, <2>1
  <2>3. PICK j \in 1 .. n - 1 : all[j] = list[m] /\ m = IF j = i THEN n ELSE j
    <3> HIDE DEF all, list, n
    <3> QED BY <1>8, <2>2, PopMoves
  <2>4. GetBalance(id, t)' = left[j].balance
      BY <1>10, <2>1, <2>3
  <2>5. left[j] = entries[m]
      BY <1>6, <2>3
  <2>6. GetBalance(id, t) = entries[m].balance
      BY <1>3, <2>1
  <2> QED BY <2>4, <2>5, <2>6
<1>12. Cash(GetBalance(id, token)) = 0 /\ Managed(GetBalance(id, token)) = 0
  <2>1. GetBalance(id, token) \in Words
      BY <1>1, ReadTyped
  <2> QED BY <1>1, <2>1, ZeroTotal
<1>13. Elsewhere(id)
  <2>1. \A q \in PoolIds \ {id} : generalPoolsBalances'[q] = generalPoolsBalances[q]
      BY DEF DeregisterGeneralPoolTokens, TypeOK
  <2> QED BY <2>1, LayoutUnchanged DEF DeregisterGeneralPoolTokens, Elsewhere
<1>14. Listed(id) = ToSet(list) /\ Listed(id)' = ToSet(all) /\ Distinct(GetTokens(id))' = Distinct(all)
    BY DEF Listed, ToSet, Distinct
<1> HIDE DEF list, all, token
<1> QED BY <1>1, <1>9, <1>11, <1>12, <1>13, <1>14 DEF Removes

LEMMA RemovesMinimal ==
    ASSUME TypeOK, LayoutInv, NEW id \in PoolIds, Distinct(GetTokens(id)),
           Specialization(id) = "MINIMAL_SWAP_INFO", NEW tokens \in Seq(Tokens),
           DeregisterMinimalSwapInfoPoolTokens(id, tokens)
    PROVE  Removes(id, tokens) /\ LayoutInv'
<1> DEFINE list == minimalPoolsTokens[id]
           all == minimalPoolsTokens'[id]
           token == tokens[1]
           i == IndexIn(list, token)
           n == Len(list)
<1>1. list \in Seq(Tokens) /\ GetTokens(id) = list /\ GetTokens(id)' = all
    BY DEF GetTokens, TypeOK
<1>2. /\ ToSet(tokens) = {token} /\ token \in ToSet(list) /\ token \in Tokens
      /\ IsZero(minimalPoolsBalances[id][token])
    BY <1>1 DEF DeregisterMinimalSwapInfoPoolTokens, IsTokenRegistered, ToSet
<1>3. \A t : GetBalance(id, t) = minimalPoolsBalances[id][t] /\ GetBalance(id, t)' = minimalPoolsBalances'[id][t]
    BY DEF GetBalance
<1>4. n \in Nat /\ DOMAIN list = 1 .. n /\ i \in 1 .. n /\ list[i] = token
    BY <1>1, <1>2, ListedAt
<1>5. all = SwapAndPop(list, i)
    BY DEF DeregisterMinimalSwapInfoPoolTokens, TypeOK
<1>6. Distinct(all) /\ ToSet(all) = ToSet(list) \ {token}
  <2>1. Distinct(list)
      BY <1>1
  <2> HIDE DEF list, all, token, i
  <2>2. Pops(all, list, i, n)
      BY <1>4, <1>5 DEF Pops, SwapAndPop
  <2> HIDE DEF n
  <2> QED BY <1>4, <2>1, <2>2, Popped
<1>7. /\ minimalPoolsBalances'[id][token] = 0
      /\ \A q \in PoolIds, t \in Tokens : q # id \/ t # token =>
            minimalPoolsBalances'[q][t] = minimalPoolsBalances[q][t]
      /\ \A q \in PoolIds \ {id} : /\ minimalPoolsBalances'[q] = minimalPoolsBalances[q]
                                   /\ minimalPoolsTokens'[q] = minimalPoolsTokens[q]
    BY <1>2 DEF DeregisterMinimalSwapInfoPoolTokens, TypeOK
<1>8. Cash(GetBalance(id, token)) = 0 /\ Managed(GetBalance(id, token)) = 0
  <2>1. minimalPoolsBalances[id][token] \in Words
      BY <1>2 DEF TypeOK
  <2> QED BY <1>2, <1>3, <2>1, ZeroTotal
<1>9. Elsewhere(id)
    BY <1>7, LayoutUnchanged DEF DeregisterMinimalSwapInfoPoolTokens, Elsewhere
<1>10. Listed(id) = ToSet(list) /\ Listed(id)' = ToSet(all) /\ Distinct(GetTokens(id))' = Distinct(all)
    BY <1>1 DEF Listed, ToSet, Distinct
<1>11. \A t \in ToSet(list) \ {token} : GetBalance(id, t)' = GetBalance(id, t)
  <2>1. ToSet(list) \subseteq Tokens
      BY <1>1 DEF ToSet
  <2> QED BY <1>3, <1>7, <2>1
<1>12. Removes(id, tokens)
  <2> HIDE DEF list, all, token
  <2> QED BY <1>2, <1>6, <1>8, <1>9, <1>10, <1>11 DEF Removes
<1>13. UNCHANGED <<twoTokenPoolTokens, sharedCash, sharedManaged>>
    BY DEF DeregisterMinimalSwapInfoPoolTokens
<1>14. FreeSlotsAreClear'
  <2>1. ASSUME NEW q \in PoolIds, NEW t \in Tokens, t \notin ToSet(minimalPoolsTokens'[q])
        PROVE  minimalPoolsBalances'[q][t] = 0
    <3>1. t \notin ToSet(minimalPoolsTokens[q]) => minimalPoolsBalances[q][t] = 0
        BY DEF LayoutInv, FreeSlotsAreClear
    <3>2. CASE q = id
      <4>1. t = token \/ t \notin ToSet(list)
          BY <2>1, <3>2, <1>6
      <4> QED BY <3>1, <3>2, <4>1, <1>7
    <3>3. CASE q # id
        BY <2>1, <3>1, <3>3, <1>7
    <3> QED BY <3>2, <3>3
  <2>2. \A q : ToSet(minimalPoolsTokens[q])' = ToSet(minimalPoolsTokens'[q])
      BY DEF ToSet
  <2> HIDE DEF list, all, token
  <2> QED BY <2>1, <2>2, <1>13 DEF LayoutInv, FreeSlotsAreClear
<1>15. ManagedWordsHoldNoBlock' /\ PairsAreSorted'
    BY <1>13 DEF LayoutInv, ManagedWordsHoldNoBlock, PairsAreSorted
<1> QED BY <1>12, <1>14, <1>15 DEF LayoutInv

\* Each of the two tokens is named once, so that the pair is the one that is registered:
\* were both the same, the pair's balances would be lost with it.
LEMMA RemovesTwo ==
    ASSUME TypeOK, LayoutInv, NEW id \in PoolIds, Specialization(id) = "TWO_TOKEN",
           NEW tokens \in Seq(Tokens), Distinct(tokens),
           DeregisterTwoTokenPoolTokens(id, tokens)
    PROVE  Removes(id, tokens) /\ LayoutInv'
<1> DEFINE pair == Sorted(tokens[1], tokens[2])
           cash == sharedCash[id][pair]
           managed == sharedManaged[id][pair]
<1>1. /\ DOMAIN tokens = {1, 2} /\ tokens[1] \in Tokens /\ tokens[2] \in Tokens
      /\ ToSet(tokens) = {tokens[1], tokens[2]}
  <2>1. tokens \in Pairs
      BY ListIsPair DEF DeregisterTwoTokenPoolTokens
  <2> QED BY <2>1, PairIsList
<1>2. tokens[1] # tokens[2]
    BY <1>1 DEF Distinct
<1>3. pair \in Pairs /\ pair[1] < pair[2] /\ ToSet(tokens) = {pair[1], pair[2]}
    BY <1>1, <1>2, SortedTokens
<1>4. PairLooksRegistered(id, pair)
    BY DEF DeregisterTwoTokenPoolTokens
<1>5. /\ IsZero(FromSharedToBalanceA(cash, managed)) /\ IsZero(FromSharedToBalanceB(cash, managed))
      /\ sharedCash' = [sharedCash EXCEPT ![id][pair] = 0]
      /\ twoTokenPoolTokens' = [twoTokenPoolTokens EXCEPT ![id] = <<0, 0>>]
      /\ UNCHANGED <<generalPoolsBalances, minimalPoolsTokens, minimalPoolsBalances, sharedManaged>>
    BY DEF DeregisterTwoTokenPoolTokens, ResetSharedCash
<1> HIDE DEF pair
<1>6. twoTokenPoolTokens[id] = pair /\ pair # <<0, 0>>
    BY <1>3, <1>4, PairIsRegistered, TwoTokensArePair
<1>7. /\ cash \in Words /\ managed \in Words
      /\ Listed(id) = {pair[1], pair[2]}
      /\ GetBalance(id, pair[1]) = FromSharedToBalanceA(cash, managed)
      /\ GetBalance(id, pair[2]) = FromSharedToBalanceB(cash, managed)
      /\ GetBalance(id, pair[1]) \in Words /\ GetBalance(id, pair[2]) \in Words
    BY <1>6, TwoTokenFields
<1>8. \A t \in ToSet(tokens) : Cash(GetBalance(id, t)) = 0 /\ Managed(GetBalance(id, t)) = 0
  <2>1. /\ Cash(GetBalance(id, pair[1])) = 0 /\ Managed(GetBalance(id, pair[1])) = 0
        /\ Cash(GetBalance(id, pair[2])) = 0 /\ Managed(GetBalance(id, pair[2])) = 0
      BY <1>5, <1>7, ZeroTotal
  <2> QED BY <1>3, <2>1
<1>9. managed = 0
  <2> HIDE DEF managed, cash
  <2>1. Cash(managed) = Managed(GetBalance(id, pair[1])) /\ Managed(managed) = Managed(GetBalance(id, pair[2]))
      BY <1>7, SharedFields
  <2>2. Cash(managed) = 0 /\ Managed(managed) = 0
      BY <2>1, <1>3, <1>8
  <2>3. LastChangeBlock(managed) = 0
      BY <1>3 DEF LayoutInv, ManagedWordsHoldNoBlock, managed
  <2> QED BY <1>7, <2>2, <2>3, ZeroWord
<1>10. /\ \A q \in PoolIds : twoTokenPoolTokens'[q] = IF q = id THEN <<0, 0>> ELSE twoTokenPoolTokens[q]
       /\ sharedCash'[id][pair] = 0
       /\ \A q \in PoolIds, p \in Pairs : q # id \/ p # pair => sharedCash'[q][p] = sharedCash[q][p]
       /\ \A q \in PoolIds \ {id} : sharedCash'[q] = sharedCash[q]
    BY <1>3, <1>5 DEF TypeOK
<1>11. GetTokens(id)' = << >>
    BY <1>10 DEF GetTokens
<1>12. Listed(id)' = {} /\ Distinct(GetTokens(id))'
    BY <1>11 DEF Listed, ToSet, Distinct
<1>13. Elsewhere(id)
    BY <1>5, <1>10, LayoutUnchanged DEF Elsewhere
<1>14. Removes(id, tokens)
    BY <1>3, <1>7, <1>8, <1>12, <1>13 DEF Removes
<1>15. FreeSlotsAreClear'
  <2>1. ASSUME NEW q \in PoolIds, NEW p \in Pairs, twoTokenPoolTokens'[q] # p
        PROVE  sharedCash'[q][p] = 0 /\ sharedManaged'[q][p] = 0
    <3>1. twoTokenPoolTokens[q] # p => sharedCash[q][p] = 0 /\ sharedManaged[q][p] = 0
        BY DEF LayoutInv, FreeSlotsAreClear
    <3>2. sharedManaged' = sharedManaged
        BY <1>5
    <3>3. CASE q = id /\ p = pair
        BY <3>2, <3>3, <1>9, <1>10
    <3>4. CASE q # id
        BY <2>1, <3>1, <3>2, <3>4, <1>10
    <3>5. CASE q = id /\ p # pair
        BY <3>1, <3>2, <3>5, <1>6, <1>10
    <3> QED BY <3>3, <3>4, <3>5
  <2>2. minimalPoolsTokens' = minimalPoolsTokens /\ minimalPoolsBalances' = minimalPoolsBalances
      BY <1>5
  <2> QED BY <2>1, <2>2 DEF LayoutInv, FreeSlotsAreClear
<1>16. ManagedWordsHoldNoBlock' /\ PairsAreSorted'
    BY <1>5, <1>10 DEF LayoutInv, ManagedWordsHoldNoBlock, PairsAreSorted
<1> QED BY <1>14, <1>15, <1>16 DEF LayoutInv

LEMMA DeregisterRemoves ==
    ASSUME TypeOK, TypeOK', LayoutInv, NoTokenTwice, NEW id \in PoolIds, Distinct(GetTokens(id)),
           NEW sender, NEW tokens \in DeregisteredLists, DeregisterTokens(sender, id, tokens)
    PROVE  Removes(id, tokens) /\ LayoutInv'
<1>1. tokens \in Seq(Tokens) /\ Distinct(tokens)
    BY GivenLists DEF NoTokenTwice
<1>2. CASE Specialization(id) = "GENERAL" /\ DeregisterGeneralPoolTokens(id, tokens)
  <2>1. LayoutInv'
      BY <1>2 DEF DeregisterGeneralPoolTokens, LayoutInv, FreeSlotsAreClear, ManagedWordsHoldNoBlock, PairsAreSorted
  <2> QED BY <1>1, <1>2, <2>1, RemovesGeneral
<1>3. CASE Specialization(id) = "MINIMAL_SWAP_INFO" /\ DeregisterMinimalSwapInfoPoolTokens(id, tokens)
    BY <1>1, <1>3, RemovesMinimal
<1>4. CASE Specialization(id) = "TWO_TOKEN" /\ DeregisterTwoTokenPoolTokens(id, tokens)
    BY <1>1, <1>4, RemovesTwo
<1> QED BY <1>2, <1>3, <1>4 DEF DeregisterTokens

------------------------------------------------------------------------------
(* Every step is one of five effects.                                      *)

PoolAdded(id) ==
    /\ id \notin isPoolRegistered /\ isPoolRegistered' = isPoolRegistered \cup {id}
    /\ UNCHANGED <<blockNumber, storage, poolAssetManagers, event>>

TokensAdded(id, tokens, assetManagers) ==
    /\ Adds(id, tokens) /\ id \in isPoolRegistered
    /\ poolAssetManagers' = [poolAssetManagers EXCEPT ![id] =
         [t \in Tokens |-> IF t \in ToSet(tokens) THEN assetManagers[t] ELSE @[t]]]
    /\ UNCHANGED <<blockNumber, isPoolRegistered, event>>

TokensRemoved(id, tokens) ==
    /\ Removes(id, tokens)
    /\ poolAssetManagers' = [poolAssetManagers EXCEPT ![id] =
         [t \in Tokens |-> IF t \in ToSet(tokens) THEN NoManager ELSE @[t]]]
    /\ UNCHANGED <<blockNumber, isPoolRegistered, event>>

Effect ==
    \/ \E id \in PoolIds : PoolAdded(id)
    \/ \E id \in PoolIds : \E tokens, assetManagers : TokensAdded(id, tokens, assetManagers)
    \/ \E id \in PoolIds : \E tokens : TokensRemoved(id, tokens)
    \/ \E id \in PoolIds : Moves(id)
    \/ NextBlock

LEMMA SwapMoves ==
    ASSUME TypeOK, TypeOK', LayoutInv, NEW id \in PoolIds, Distinct(GetTokens(id)),
           \A t \in Listed(id) : Total(GetBalance(id, t)) < AmountSize,
           NEW tokenIn \in Tokens, NEW tokenOut \in Tokens, NEW amountIn, NEW amountOut,
           Swap(id, tokenIn, tokenOut, amountIn, amountOut)
    PROVE  Moves(id) /\ LayoutInv'
<1> DEFINE delta == [token \in {tokenIn, tokenOut} |-> IF token = tokenIn THEN amountIn ELSE -amountOut]
           pair == Sorted(tokenIn, tokenOut)
<1>1. tokenIn # tokenOut /\ SwapAccepts(id, tokenIn, tokenOut) /\ ChangeCashOf(id, pair, delta)
    BY DEF Swap
<1>2. /\ {tokenIn, tokenOut} \subseteq Listed(id)
      /\ Specialization(id) = "TWO_TOKEN" => pair = twoTokenPoolTokens[id]
    BY <1>1, AcceptedAreListed
<1>3. DOMAIN delta = {tokenIn, tokenOut} /\ pair \in Pairs /\ {pair[1], pair[2]} = {tokenIn, tokenOut}
    BY <1>1, SortedTokens
<1>4. Specialization(id) = "TWO_TOKEN" => pair # <<0, 0>>
    BY <1>3, TwoTokensArePair
<1> HIDE DEF delta, pair
<1> QED BY <1>1, <1>2, <1>3, <1>4, CashMoves

LEMMA JoinOrExitMoves ==
    ASSUME TypeOK, TypeOK', LayoutInv, NEW id \in PoolIds, Distinct(GetTokens(id)),
           \A t \in Listed(id) : Total(GetBalance(id, t)) < AmountSize,
           NEW amounts, NEW fees, JoinPool(id, amounts, fees) \/ ExitPool(id, amounts, fees)
    PROVE  Moves(id) /\ LayoutInv'
<1>1. GetTokens(id) # << >>
    BY DEF JoinPool, ExitPool
<1>2. PICK delta : ChangeCashOf(id, GetTokens(id), delta) /\ DOMAIN delta = Listed(id)
  <2>1. CASE JoinPool(id, amounts, fees)
    <3> DEFINE joined == [token \in ToSet(GetTokens(id)) |-> amounts[token] - fees[token]]
    <3>1. ChangeCashOf(id, GetTokens(id), joined) /\ DOMAIN joined = Listed(id)
        BY <2>1 DEF JoinPool, Listed
    <3> HIDE DEF joined
    <3> QED BY <3>1
  <2>2. CASE ExitPool(id, amounts, fees)
    <3> DEFINE left == [token \in ToSet(GetTokens(id)) |-> -(amounts[token] + fees[token])]
    <3>1. ChangeCashOf(id, GetTokens(id), left) /\ DOMAIN left = Listed(id)
        BY <2>2 DEF ExitPool, Listed
    <3> HIDE DEF left
    <3> QED BY <3>1
  <2> QED BY <2>1, <2>2
<1>3. ASSUME Specialization(id) = "TWO_TOKEN"
      PROVE  /\ twoTokenPoolTokens[id] = GetTokens(id) /\ GetTokens(id) # <<0, 0>>
             /\ Listed(id) = {GetTokens(id)[1], GetTokens(id)[2]}
    BY <1>1, <1>3, TwoTokensArePair, ListedTwoTokens
<1> QED BY <1>2, <1>3, CashMoves

LEMMA ManagerMoves ==
    ASSUME TypeOK, TypeOK', LayoutInv, NEW id \in PoolIds, Distinct(GetTokens(id)),
           \A t \in Listed(id) : /\ Total(GetBalance(id, t)) < AmountSize
                                 /\ LastChangeBlock(GetBalance(id, t)) <= blockNumber,
           NEW sender, NEW token, NEW amount \in Int,
           WithdrawOrDeposit(sender, id, token, amount) \/ UpdateManagedBalance(sender, id, token, amount)
    PROVE  Moves(id) /\ LayoutInv'
<1> DEFINE old == GetBalance(id, token)
           moved == MoveToManaged(old, amount)
           reported == SetManaged(old, amount, blockNumber)
<1>1. token \in Listed(id)
    BY DEF WithdrawOrDeposit, UpdateManagedBalance, CanManage, IsTokenRegistered, Listed
<1>2. /\ old \in Words /\ Cash(old) \in Int /\ Managed(old) \in Int
      /\ LastChangeBlock(old) \in Int /\ LastChangeBlock(old) <= blockNumber
  <2>1. old \in Words
      BY <1>1, ReadTyped DEF Listed
  <2> HIDE DEF old
  <2>2. Cash(old) \in Int /\ Managed(old) \in Int /\ LastChangeBlock(old) \in Int
      BY <2>1, WordFields, WordAssumption
  <2> QED BY <2>1, <2>2, <1>1 DEF old
<1>3. CASE WithdrawOrDeposit(sender, id, token, amount)
  <2>1. CanMoveToManaged(old, amount) /\ UpdateBalance(id, token, "move", moved)
      BY <1>3 DEF WithdrawOrDeposit
  <2>2. /\ moved \in Words /\ Fits(Cash(old) - amount, Managed(old) + amount)
        /\ Cash(moved) = Cash(old) - amount /\ Managed(moved) = Managed(old) + amount
        /\ LastChangeBlock(moved) = LastChangeBlock(old)
      BY <1>1, <2>1, ManagedWords DEF Listed
  <2> HIDE DEF old, moved
  <2>3. Cash(moved) - Cash(old) = -(Managed(moved) - Managed(old))
      BY <1>2, <2>2
  <2>4. LastChangeBlock(old) <= LastChangeBlock(moved)
      BY <1>2, <2>2
  <2> QED BY <1>1, <2>1, <2>2, <2>3, <2>4, UpdateMoves DEF old
<1>4. CASE UpdateManagedBalance(sender, id, token, amount)
  <2>1. CanSetManaged(old, amount) /\ UpdateBalance(id, token, "report", reported)
      BY <1>4 DEF UpdateManagedBalance
  <2>2. /\ reported \in Words /\ Fits(Cash(old), amount)
        /\ Cash(reported) = Cash(old) /\ Managed(reported) = amount
        /\ LastChangeBlock(reported) = blockNumber
      BY <1>1, <2>1, ManagedWords DEF Listed
  <2> HIDE DEF old, reported
  <2>3. LastChangeBlock(old) <= LastChangeBlock(reported)
      BY <1>2, <2>2
  <2> QED BY <1>1, <2>1, <2>2, <2>3, UpdateMoves DEF old
<1> QED BY <1>3, <1>4

LEMMA StepEffects ==
    ASSUME TypeOK, LayoutInv, ListedOnceAndFitting, NoTokenTwice, Next
    PROVE  Effect /\ LayoutInv'
<1>1. TypeOK'
    BY StepTypeOK
<1>2. ASSUME NEW id \in PoolIds
      PROVE  /\ Distinct(GetTokens(id))
             /\ \A t \in Listed(id) : /\ Total(GetBalance(id, t)) < AmountSize
                                      /\ LastChangeBlock(GetBalance(id, t)) <= blockNumber
    BY DEF ListedOnceAndFitting, Listed
<1>3. ASSUME NEW sender \in Pools, NEW specialization \in Specializations,
             RegisterPool(sender, specialization)
      PROVE  Effect /\ LayoutInv'
  <2>1. <<sender, specialization, nextPoolNonce>> \in PoolIds
      BY <1>3, StorageAssumption DEF RegisterPool, TypeOK, PoolIds
  <2>2. PoolAdded(<<sender, specialization, nextPoolNonce>>)
      BY <1>3 DEF RegisterPool, PoolAdded
  <2>3. LayoutInv'
      BY <1>3 DEF RegisterPool, storage, LayoutInv, FreeSlotsAreClear, ManagedWordsHoldNoBlock, PairsAreSorted
  <2> QED BY <2>1, <2>2, <2>3 DEF Effect
<1>4. ASSUME NEW sender \in Pools, NEW id \in PoolIds, NEW tokens \in RegisteredLists,
             NEW assetManagers, RegisterTokens(sender, id, tokens, assetManagers)
      PROVE  Effect /\ LayoutInv'
  <2>1. Adds(id, tokens) /\ LayoutInv'
      BY <1>1, <1>2, <1>4, RegisterAdds
  <2>2. TokensAdded(id, tokens, assetManagers)
      BY <1>4, <2>1 DEF RegisterTokens, CalledByPool, TokensAdded
  <2> QED BY <2>1, <2>2 DEF Effect
<1>5. ASSUME NEW sender \in Pools, NEW id \in PoolIds, NEW tokens \in DeregisteredLists,
             DeregisterTokens(sender, id, tokens)
      PROVE  Effect /\ LayoutInv'
  <2>1. Removes(id, tokens) /\ LayoutInv'
      BY <1>1, <1>2, <1>5, DeregisterRemoves
  <2>2. TokensRemoved(id, tokens)
      BY <1>5, <2>1 DEF DeregisterTokens, TokensRemoved
  <2> QED BY <2>1, <2>2 DEF Effect
<1>6. ASSUME NEW id \in PoolIds, NEW tokenIn \in Tokens, NEW tokenOut \in Tokens,
             NEW amountIn, NEW amountOut, Swap(id, tokenIn, tokenOut, amountIn, amountOut)
      PROVE  Effect /\ LayoutInv'
    BY <1>1, <1>2, <1>6, SwapMoves DEF Effect
<1>7. ASSUME NEW id \in PoolIds, NEW amounts, NEW fees,
             JoinPool(id, amounts, fees) \/ ExitPool(id, amounts, fees)
      PROVE  Effect /\ LayoutInv'
    BY <1>1, <1>2, <1>7, JoinOrExitMoves DEF Effect
<1>8. ASSUME NEW id \in PoolIds, NEW sender, NEW token, NEW amount \in Int,
             WithdrawOrDeposit(sender, id, token, amount) \/ UpdateManagedBalance(sender, id, token, amount)
      PROVE  Effect /\ LayoutInv'
    BY <1>1, <1>2, <1>8, ManagerMoves DEF Effect
<1>9. CASE NextBlock
  <2>1. LayoutInv'
      BY <1>9 DEF NextBlock, storage, LayoutInv, FreeSlotsAreClear, ManagedWordsHoldNoBlock, PairsAreSorted
  <2> QED BY <1>9, <2>1 DEF Effect
<1>10. \A amount \in Amounts : amount \in Int /\ -amount \in Int
    BY StorageAssumption
<1> QED BY <1>3, <1>4, <1>5, <1>6, <1>7, <1>8, <1>9, <1>10 DEF Next

------------------------------------------------------------------------------
(* The invariant.                                                          *)

ListsFit ==
    \A id \in PoolIds :
        /\ Distinct(GetTokens(id))
        /\ \A t \in Listed(id) : /\ Total(GetBalance(id, t)) < AmountSize
                                 /\ LastChangeBlock(GetBalance(id, t)) <= blockNumber

LEMMA ListsFitNow == ListedOnceAndFitting <=> ListsFit /\ PairsAreSorted
BY DEF ListedOnceAndFitting, ListsFit, PairsAreSorted, Listed

\* The lists and balances of a Pool that a step leaves alone.
LEMMA FitElsewhere ==
    ASSUME ListsFit, NEW id \in PoolIds, Elsewhere(id), blockNumber' = blockNumber,
           NEW q \in PoolIds \ {id}
    PROVE  /\ Distinct(GetTokens(q))' /\ Listed(q)' = Listed(q)
           /\ \A t \in Listed(q)' : /\ Total(GetBalance(q, t)') < AmountSize
                                    /\ LastChangeBlock(GetBalance(q, t)') <= blockNumber'
<1>1. GetTokens(q)' = GetTokens(q) /\ \A t : GetBalance(q, t)' = GetBalance(q, t)
    BY DEF Elsewhere
<1>2. Listed(q)' = Listed(q) /\ Distinct(GetTokens(q))' = Distinct(GetTokens(q))
    BY <1>1 DEF Listed, ToSet, Distinct
<1> QED BY <1>1, <1>2 DEF ListsFit

LEMMA EffectKeepsListsFit ==
    ASSUME TypeOK, ListsFit, Effect
    PROVE  ListsFit'
<1>1. blockNumber \in Int /\ 0 <= blockNumber
    BY WordAssumption DEF TypeOK
<1>2. \A id \in PoolIds : \A t : t \in Listed(id) =>
        Total(GetBalance(id, t)) < AmountSize /\ LastChangeBlock(GetBalance(id, t)) <= blockNumber
    BY DEF ListsFit
<1>3. ASSUME NEW id \in PoolIds, PoolAdded(id) PROVE ListsFit'
    BY ZenonT(30), <1>3 DEF PoolAdded, storage, ListsFit, Listed, GetTokens, GetBalance, IsTokenRegistered
<1>4. ASSUME NEW id \in PoolIds, NEW tokens, NEW assetManagers, TokensAdded(id, tokens, assetManagers)
      PROVE  ListsFit'
  <2>1. Adds(id, tokens) /\ blockNumber' = blockNumber
      BY <1>4 DEF TokensAdded
  <2>2. Elsewhere(id) /\ Distinct(GetTokens(id))'
      BY <2>1 DEF Adds
  <2>3. ASSUME NEW t \in Listed(id)'
        PROVE  Total(GetBalance(id, t)') < AmountSize /\ LastChangeBlock(GetBalance(id, t)') <= blockNumber'
    <3>1. CASE t \in Listed(id)
      <4>1. GetBalance(id, t)' = GetBalance(id, t)
          BY <2>1, <3>1 DEF Adds
      <4> QED BY <1>2, <2>1, <3>1, <4>1
    <3>2. CASE t \in ToSet(tokens)
      <4>1. /\ Cash(GetBalance(id, t)') = 0 /\ Managed(GetBalance(id, t)') = 0
            /\ LastChangeBlock(GetBalance(id, t)') = 0
          BY <2>1, <3>2 DEF Adds
      <4> QED BY <1>1, <2>1, <4>1, WordAssumption DEF Total
    <3> QED BY <2>1, <3>1, <3>2 DEF Adds
  <2> QED BY <2>1, <2>2, <2>3, FitElsewhere DEF ListsFit
<1>5. ASSUME NEW id \in PoolIds, NEW tokens, TokensRemoved(id, tokens) PROVE ListsFit'
  <2>1. Removes(id, tokens) /\ blockNumber' = blockNumber
      BY <1>5 DEF TokensRemoved
  <2>2. Elsewhere(id) /\ Distinct(GetTokens(id))'
      BY <2>1 DEF Removes
  <2>3. ASSUME NEW t \in Listed(id)'
        PROVE  Total(GetBalance(id, t)') < AmountSize /\ LastChangeBlock(GetBalance(id, t)') <= blockNumber'
    <3>1. t \in Listed(id) /\ GetBalance(id, t)' = GetBalance(id, t)
        BY <2>1 DEF Removes
    <3> QED BY <1>2, <2>1, <3>1
  <2> QED BY <2>1, <2>2, <2>3, FitElsewhere DEF ListsFit
<1>6. ASSUME NEW id \in PoolIds, Moves(id) PROVE ListsFit'
  <2>1. Elsewhere(id) /\ GetTokens(id)' = GetTokens(id) /\ blockNumber' = blockNumber
      BY <1>6 DEF Moves
  <2>2. Listed(id)' = Listed(id) /\ Distinct(GetTokens(id))'
      BY <2>1 DEF ListsFit, Listed, ToSet, Distinct
  <2>3. ASSUME NEW t \in Listed(id)'
        PROVE  Total(GetBalance(id, t)') < AmountSize /\ LastChangeBlock(GetBalance(id, t)') <= blockNumber'
    <3>1. /\ Fits(Cash(GetBalance(id, t)'), Managed(GetBalance(id, t)'))
          /\ \/ LastChangeBlock(GetBalance(id, t)') = blockNumber
             \/ LastChangeBlock(GetBalance(id, t)') = LastChangeBlock(GetBalance(id, t))
        BY <1>6, <2>2 DEF Moves
    <3>2. LastChangeBlock(GetBalance(id, t)') <= blockNumber
        BY <1>1, <1>2, <2>2, <3>1
    <3> QED BY <2>1, <3>1, <3>2 DEF Fits, Total
  <2> QED BY <2>1, <2>2, <2>3, FitElsewhere DEF ListsFit
<1>7. CASE NextBlock
  <2>1. \A id : GetTokens(id)' = GetTokens(id) /\ \A t : GetBalance(id, t)' = GetBalance(id, t)
      BY <1>7, LayoutUnchanged DEF NextBlock, storage
  <2>2. \A id : Listed(id)' = Listed(id) /\ Distinct(GetTokens(id))' = Distinct(GetTokens(id))
      BY <2>1 DEF Listed, ToSet, Distinct
  <2>3. ASSUME NEW id \in PoolIds, NEW t \in Listed(id)
        PROVE  LastChangeBlock(GetBalance(id, t)) <= blockNumber + 1
    <3>1. GetBalance(id, t) \in Words
        BY ReadTyped DEF Listed
    <3>2. LastChangeBlock(GetBalance(id, t)) \in Int
        BY <3>1, WordFields, WordAssumption
    <3> QED BY <1>1, <1>2, <3>2
  <2> QED BY <1>7, <2>1, <2>2, <2>3 DEF NextBlock, ListsFit
<1> QED BY <1>3, <1>4, <1>5, <1>6, <1>7 DEF Effect

LEMMA EffectKeepsManagers ==
    ASSUME TypeOK, ManagersOfRegisteredTokens, Effect
    PROVE  ManagersOfRegisteredTokens'
<1> SUFFICES ASSUME NEW q \in PoolIds, NEW t \in Tokens, poolAssetManagers'[q][t] # NoManager
             PROVE  q \in isPoolRegistered' /\ t \in Listed(q)'
    BY DEF ManagersOfRegisteredTokens, IsTokenRegistered, Listed
<1>1. poolAssetManagers[q][t] # NoManager => q \in isPoolRegistered /\ t \in Listed(q)
    BY DEF ManagersOfRegisteredTokens, IsTokenRegistered, Listed
<1>2. ASSUME NEW id \in PoolIds, PoolAdded(id) PROVE q \in isPoolRegistered' /\ t \in Listed(q)'
  <2>1. Listed(q)' = Listed(q)
      BY <1>2 DEF PoolAdded, storage, Listed, GetTokens
  <2> QED BY <1>1, <1>2, <2>1 DEF PoolAdded
<1>3. ASSUME NEW id \in PoolIds, Elsewhere(id), q # id PROVE Listed(q)' = Listed(q)
    BY <1>3 DEF Elsewhere, Listed, ToSet
<1>4. ASSUME NEW id \in PoolIds, NEW tokens, NEW assetManagers, TokensAdded(id, tokens, assetManagers)
      PROVE  q \in isPoolRegistered' /\ t \in Listed(q)'
  <2>1. poolAssetManagers'[q][t] = IF q = id /\ t \in ToSet(tokens) THEN assetManagers[t] ELSE poolAssetManagers[q][t]
      BY <1>4 DEF TokensAdded, TypeOK
  <2>2. Adds(id, tokens) /\ id \in isPoolRegistered /\ isPoolRegistered' = isPoolRegistered
      BY <1>4 DEF TokensAdded
  <2>3. CASE q = id /\ t \in ToSet(tokens)
      BY <2>2, <2>3 DEF Adds
  <2>4. CASE q = id /\ t \notin ToSet(tokens)
      BY <1>1, <2>1, <2>2, <2>4 DEF Adds
  <2>5. CASE q # id
      BY <1>1, <1>3, <2>1, <2>2, <2>5 DEF Adds
  <2> QED BY <2>3, <2>4, <2>5
<1>5. ASSUME NEW id \in PoolIds, NEW tokens, TokensRemoved(id, tokens)
      PROVE  q \in isPoolRegistered' /\ t \in Listed(q)'
  <2>1. poolAssetManagers'[q][t] = IF q = id /\ t \in ToSet(tokens) THEN NoManager ELSE poolAssetManagers[q][t]
      BY <1>5 DEF TokensRemoved, TypeOK
  <2>2. Removes(id, tokens) /\ isPoolRegistered' = isPoolRegistered
      BY <1>5 DEF TokensRemoved
  <2>3. ~(q = id /\ t \in ToSet(tokens)) /\ q \in isPoolRegistered /\ t \in Listed(q)
      BY <1>1, <2>1
  <2>4. CASE q = id
      BY <2>2, <2>3, <2>4 DEF Removes
  <2>5. CASE q # id
      BY <1>3, <2>2, <2>3, <2>5 DEF Removes
  <2> QED BY <2>2, <2>3, <2>4, <2>5
<1>6. ASSUME NEW id \in PoolIds, Moves(id) PROVE q \in isPoolRegistered' /\ t \in Listed(q)'
  <2>1. Listed(q)' = Listed(q)
    <3>1. CASE q = id
        BY <1>6, <3>1 DEF Moves, Listed, ToSet
    <3>2. CASE q # id
        BY <1>3, <1>6, <3>2 DEF Moves
    <3> QED BY <3>1, <3>2
  <2> QED BY <1>1, <1>6, <2>1 DEF Moves
<1>7. CASE NextBlock
    BY <1>1, <1>7 DEF NextBlock, storage, Listed, GetTokens
<1> QED BY <1>2, <1>4, <1>5, <1>6, <1>7 DEF Effect

LEMMA InitStorageIInv == Init => StorageIInv
<1> SUFFICES ASSUME Init PROVE StorageIInv
    OBVIOUS
<1>1. TypeOK
    BY InitTypeOK
<1>2. ASSUME NEW id \in PoolIds PROVE GetTokens(id) = << >> /\ Listed(id) = {}
  <2>1. GetTokens(id) = << >>
    <3>1. CASE Specialization(id) = "GENERAL"
      <4>1. generalPoolsBalances[id] = << >>
          BY DEF Init
      <4>2. GetTokens(id) = [i \in DOMAIN << >> |-> << >>[i].token]
          BY <3>1, <4>1 DEF GetTokens, TokensOfEntries
      <4> QED BY <4>2
    <3>2. CASE Specialization(id) = "MINIMAL_SWAP_INFO"
        BY <3>2 DEF Init, GetTokens
    <3>3. CASE Specialization(id) = "TWO_TOKEN"
        BY <3>3 DEF Init, GetTokens
    <3> QED BY <3>1, <3>2, <3>3, PoolIdParts
  <2> QED BY <2>1 DEF Listed, ToSet
<1>3. ListsFit
    BY <1>2 DEF ListsFit, Distinct
<1>4. LayoutInv
    BY ZeroWord DEF Init, LayoutInv, FreeSlotsAreClear, ManagedWordsHoldNoBlock, PairsAreSorted
<1>5. ManagersOfRegisteredTokens
    BY DEF Init, ManagersOfRegisteredTokens
<1> QED BY <1>1, <1>3, <1>4, <1>5, ListsFitNow DEF StorageIInv, LayoutInv

LEMMA StutterStorage == StorageIInv /\ UNCHANGED vars => StorageIInv'
<1> SUFFICES ASSUME StorageIInv, UNCHANGED vars PROVE StorageIInv'
    OBVIOUS
<1>1. \A id : GetTokens(id)' = GetTokens(id) /\ \A t : GetBalance(id, t)' = GetBalance(id, t)
    BY LayoutUnchanged DEF vars, storage
<1>2. \A id : Listed(id)' = Listed(id) /\ Distinct(GetTokens(id))' = Distinct(GetTokens(id))
    BY <1>1 DEF Listed, ToSet, Distinct
<1>3. TypeOK'
    BY StepTypeOK DEF StorageIInv
<1>4. LayoutInv'
    BY DEF vars, storage, StorageIInv, LayoutInv, FreeSlotsAreClear, ManagedWordsHoldNoBlock, PairsAreSorted
<1>5. ListsFit'
  <2>1. ListsFit
      BY ListsFitNow DEF StorageIInv
  <2> QED BY <1>1, <1>2, <2>1 DEF ListsFit, vars
<1>6. ListedOnceAndFitting'
  <2>1. PairsAreSorted'
      BY <1>4 DEF LayoutInv
  <2> QED BY <1>5, <2>1, ListsFitNow, PTL
<1>7. ManagersOfRegisteredTokens'
    BY <1>2 DEF vars, StorageIInv, ManagersOfRegisteredTokens, IsTokenRegistered, Listed
<1> QED BY <1>3, <1>4, <1>6, <1>7 DEF StorageIInv

LEMMA StepStorageIInv ==
    ASSUME NoTokenTwice
    PROVE  StorageIInv /\ [Next]_vars => StorageIInv'
<1> SUFFICES ASSUME StorageIInv, Next PROVE StorageIInv'
    BY StutterStorage
<1>1. TypeOK /\ LayoutInv /\ ListedOnceAndFitting /\ ManagersOfRegisteredTokens
    BY DEF StorageIInv
<1>2. Effect /\ LayoutInv' /\ TypeOK'
    BY <1>1, StepEffects, StepTypeOK
<1>3. ListsFit'
    BY <1>1, <1>2, ListsFitNow, EffectKeepsListsFit
<1>4. ListedOnceAndFitting'
  <2>1. PairsAreSorted'
      BY <1>2 DEF LayoutInv
  <2> QED BY <1>3, <2>1, ListsFitNow, PTL
<1>5. ManagersOfRegisteredTokens'
    BY <1>1, <1>2, EffectKeepsManagers
<1> QED BY <1>2, <1>4, <1>5 DEF StorageIInv

LEMMA StorageIInvImplies == StorageIInv => StorageInv
<1> SUFFICES ASSUME StorageIInv PROVE NonzeroMeansRegistered
    BY DEF StorageInv, StorageIInv, LayoutInv
<1>1. IsZero(0)
    BY ZeroWord, ZeroTotal
<1>2. FreeSlotsAreClear
    BY DEF StorageIInv, LayoutInv
<1> QED BY <1>1, <1>2 DEF FreeSlotsAreClear, NonzeroMeansRegistered

\* The shortcuts by which swaps skip the registry are right, unused slots are clear, every
\* token is listed once with a total that fits, and Asset Managers belong to registered
\* tokens: as long as no Pool deregisters a token twice in one call.
THEOREM StorageIsConsistent == ASSUME NoTokenTwice PROVE Spec => []StorageInv
BY InitStorageIInv, StepStorageIInv, StorageIInvImplies, PTL DEF Spec

------------------------------------------------------------------------------
(* The refinement.                                                         *)

LEMMA LedgerNow ==
    /\ DOMAIN LedgerBalance = PoolIds /\ DOMAIN LedgerManager = PoolIds
    /\ \A q \in PoolIds :
         /\ LedgerBalance[q] = [t \in Listed(q) |-> BalanceOf(q, t)]
         /\ LedgerManager[q] = [t \in Listed(q) |-> poolAssetManagers[q][t]]
BY DEF LedgerBalance, LedgerManager, Listed

LEMMA LedgerNext ==
    /\ LedgerBalance' = [q \in PoolIds |-> [t \in Listed(q)' |-> BalanceOf(q, t)']]
    /\ LedgerManager' = [q \in PoolIds |-> [t \in Listed(q)' |-> poolAssetManagers'[q][t]]]
BY DEF LedgerBalance, LedgerManager, Listed

LEMMA LedgerElsewhere ==
    ASSUME NEW id \in PoolIds, Elsewhere(id), NEW q \in PoolIds \ {id}
    PROVE  /\ LedgerBalance'[q] = LedgerBalance[q]
           /\ poolAssetManagers'[q] = poolAssetManagers[q] => LedgerManager'[q] = LedgerManager[q]
<1>1. GetTokens(q)' = GetTokens(q) /\ \A t : GetBalance(q, t)' = GetBalance(q, t)
    BY DEF Elsewhere
<1>2. Listed(q)' = Listed(q) /\ \A t : BalanceOf(q, t)' = BalanceOf(q, t)
    BY <1>1 DEF Listed, ToSet, BalanceOf
<1>3. LedgerBalance'[q] = [t \in Listed(q) |-> BalanceOf(q, t)]
    BY <1>2, LedgerNext
<1>4. LedgerManager'[q] = [t \in Listed(q) |-> poolAssetManagers'[q][t]]
    BY <1>2, LedgerNext
<1> QED BY <1>3, <1>4, LedgerNow

LEMMA LedgerUnchanged ==
    ASSUME UNCHANGED <<storage, poolAssetManagers>>
    PROVE  LedgerBalance' = LedgerBalance /\ LedgerManager' = LedgerManager
<1>1. \A q : GetTokens(q)' = GetTokens(q) /\ \A t : GetBalance(q, t)' = GetBalance(q, t)
    BY LayoutUnchanged DEF storage
<1>2. \A q : Listed(q)' = Listed(q) /\ \A t : BalanceOf(q, t)' = BalanceOf(q, t)
    BY <1>1 DEF Listed, ToSet, BalanceOf
<1>3. LedgerBalance = [q \in PoolIds |-> [t \in Listed(q) |-> BalanceOf(q, t)]]
    BY DEF LedgerBalance, Listed
<1>4. LedgerManager = [q \in PoolIds |-> [t \in Listed(q) |-> poolAssetManagers[q][t]]]
    BY DEF LedgerManager, Listed
<1>5. LedgerBalance' = [q \in PoolIds |-> [t \in Listed(q) |-> BalanceOf(q, t)]]
    BY <1>2, LedgerNext
<1>6. LedgerManager' = [q \in PoolIds |-> [t \in Listed(q) |-> poolAssetManagers[q][t]]]
    BY <1>2, LedgerNext
<1> QED BY <1>3, <1>4, <1>5, <1>6

LEMMA LedgerTokens ==
    \A q \in PoolIds : Ledger!TokensOf(q) = Listed(q) /\ Ledger!TokensOf(q)' = Listed(q)'
BY LedgerNow, LedgerNext DEF Ledger!TokensOf

LEMMA InitLedger == Init => Ledger!Init
<1> SUFFICES ASSUME Init PROVE Ledger!Init
    OBVIOUS
<1>1. blockNumber \in Nat
    BY StorageAssumption DEF Init
<1>2. ASSUME NEW id \in PoolIds PROVE Listed(id) = {}
  <2>1. CASE Specialization(id) = "GENERAL"
      BY <2>1 DEF Init, Listed, ToSet, GetTokens, TokensOfEntries
  <2>2. CASE Specialization(id) = "MINIMAL_SWAP_INFO"
      BY <2>2 DEF Init, Listed, ToSet, GetTokens
  <2>3. CASE Specialization(id) = "TWO_TOKEN"
      BY <2>3 DEF Init, Listed, ToSet, GetTokens
  <2> QED BY <2>1, <2>2, <2>3, PoolIdParts
<1>3. LedgerBalance = [q \in PoolIds |-> << >>] /\ LedgerManager = [q \in PoolIds |-> << >>]
  <2>1. LedgerBalance = [q \in PoolIds |-> [t \in Listed(q) |-> BalanceOf(q, t)]]
      BY DEF LedgerBalance, Listed
  <2>2. LedgerManager = [q \in PoolIds |-> [t \in Listed(q) |-> poolAssetManagers[q][t]]]
      BY DEF LedgerManager, Listed
  <2>3. ASSUME NEW q \in PoolIds
        PROVE  /\ [t \in Listed(q) |-> BalanceOf(q, t)] = << >>
               /\ [t \in Listed(q) |-> poolAssetManagers[q][t]] = << >>
      BY <1>2
  <2> QED BY <2>1, <2>2, <2>3
<1> QED BY <1>1, <1>3 DEF Init, NoEvent, Ledger!Init

LEMMA LedgerRegistersTokens ==
    ASSUME TypeOK, NEW id \in PoolIds, NEW tokens, NEW assetManagers,
           TokensAdded(id, tokens, assetManagers)
    PROVE  Ledger!RegisterTokens(id)
<1>1. /\ Adds(id, tokens) /\ id \in isPoolRegistered
      /\ UNCHANGED <<blockNumber, isPoolRegistered, event>>
    BY DEF TokensAdded
<1>2. /\ \A q \in PoolIds \ {id} : poolAssetManagers'[q] = poolAssetManagers[q]
      /\ \A t \in Tokens \ ToSet(tokens) : poolAssetManagers'[id][t] = poolAssetManagers[id][t]
    BY DEF TokensAdded, TypeOK
<1>3. /\ Elsewhere(id) /\ Listed(id)' = Listed(id) \cup ToSet(tokens)
      /\ ToSet(tokens) \cap Listed(id) = {} /\ Listed(id) \subseteq Tokens
    BY <1>1, ReadTyped DEF Adds, Listed
<1>4. \A t \in Listed(id)' : BalanceOf(id, t)' = IF t \in Listed(id) THEN LedgerBalance[id][t] ELSE Ledger!Empty
  <2>1. ASSUME NEW t \in Listed(id) PROVE BalanceOf(id, t)' = LedgerBalance[id][t]
    <3>1. GetBalance(id, t)' = GetBalance(id, t)
        BY <1>1 DEF Adds
    <3>2. BalanceOf(id, t)' = BalanceOf(id, t)
        BY <3>1 DEF BalanceOf
    <3> QED BY <3>2, LedgerNow
  <2>2. ASSUME NEW t \in ToSet(tokens) PROVE BalanceOf(id, t)' = Ledger!Empty
      BY <1>1 DEF Adds, BalanceOf, Ledger!Empty
  <2> QED BY <1>3, <2>1, <2>2
<1>5. LedgerBalance' = [LedgerBalance EXCEPT ![id] =
        [t \in Listed(id)' |-> IF t \in Listed(id) THEN LedgerBalance[id][t] ELSE Ledger!Empty]]
  <2>1. LedgerBalance'[id] = [t \in Listed(id)' |-> IF t \in Listed(id) THEN LedgerBalance[id][t] ELSE Ledger!Empty]
      BY <1>4, LedgerNext
  <2>2. \A q \in PoolIds \ {id} : LedgerBalance'[q] = LedgerBalance[q]
      BY <1>3, LedgerElsewhere
  <2>3. DOMAIN LedgerBalance' = PoolIds
      BY LedgerNext
  <2> QED BY <2>1, <2>2, <2>3, LedgerNow DEF LedgerBalance
<1>6. LedgerManager' = [LedgerManager EXCEPT ![id] =
        [t \in Listed(id)' |-> IF t \in Listed(id) THEN LedgerManager[id][t] ELSE LedgerManager'[id][t]]]
  <2>1. LedgerManager'[id] = [t \in Listed(id)' |-> poolAssetManagers'[id][t]]
      BY LedgerNext
  <2>2. \A t \in Listed(id) : poolAssetManagers'[id][t] = LedgerManager[id][t]
      BY <1>2, <1>3, LedgerNow
  <2>3. \A t \in Listed(id)' : LedgerManager'[id][t] = poolAssetManagers'[id][t]
      BY <2>1
  <2>4. LedgerManager'[id] =
          [t \in Listed(id)' |-> IF t \in Listed(id) THEN LedgerManager[id][t] ELSE LedgerManager'[id][t]]
      BY <2>1, <2>2, <2>3
  <2>5. \A q \in PoolIds \ {id} : LedgerManager'[q] = LedgerManager[q]
      BY <1>2, <1>3, LedgerElsewhere
  <2>6. DOMAIN LedgerManager' = PoolIds
      BY LedgerNext
  <2> QED BY <2>4, <2>5, <2>6, LedgerNow DEF LedgerManager
<1>7. Ledger!TokensOf(id) = Listed(id) /\ Ledger!TokensOf(id)' = Listed(id)'
    BY LedgerTokens
<1> QED BY <1>1, <1>3, <1>5, <1>6, <1>7 DEF Ledger!RegisterTokens

LEMMA LedgerDeregistersTokens ==
    ASSUME TypeOK, NEW id \in PoolIds, NEW tokens, TokensRemoved(id, tokens)
    PROVE  Ledger!DeregisterTokens(id)
<1>1. Removes(id, tokens) /\ UNCHANGED <<blockNumber, isPoolRegistered, event>>
    BY DEF TokensRemoved
<1>2. /\ \A q \in PoolIds \ {id} : poolAssetManagers'[q] = poolAssetManagers[q]
      /\ \A t \in Tokens \ ToSet(tokens) : poolAssetManagers'[id][t] = poolAssetManagers[id][t]
    BY DEF TokensRemoved, TypeOK
<1>3. /\ Elsewhere(id) /\ Listed(id)' = Listed(id) \ ToSet(tokens)
      /\ ToSet(tokens) \subseteq Listed(id) /\ Listed(id) \subseteq Tokens
    BY <1>1, ReadTyped DEF Removes, Listed
<1>4. ASSUME NEW t \in Listed(id)'
      PROVE  BalanceOf(id, t)' = LedgerBalance[id][t] /\ poolAssetManagers'[id][t] = LedgerManager[id][t]
  <2>1. GetBalance(id, t)' = GetBalance(id, t)
      BY <1>1, <1>3 DEF Removes
  <2>2. BalanceOf(id, t)' = BalanceOf(id, t)
      BY <2>1 DEF BalanceOf
  <2> QED BY <1>2, <1>3, <2>2, LedgerNow
<1>5. LedgerBalance' = [LedgerBalance EXCEPT ![id] = [t \in Listed(id)' |-> LedgerBalance[id][t]]]
  <2>1. LedgerBalance'[id] = [t \in Listed(id)' |-> LedgerBalance[id][t]]
      BY <1>4, LedgerNext
  <2>2. \A q \in PoolIds \ {id} : LedgerBalance'[q] = LedgerBalance[q]
      BY <1>3, LedgerElsewhere
  <2>3. DOMAIN LedgerBalance' = PoolIds
      BY LedgerNext
  <2> QED BY <2>1, <2>2, <2>3, LedgerNow DEF LedgerBalance
<1>6. LedgerManager' = [LedgerManager EXCEPT ![id] = [t \in Listed(id)' |-> LedgerManager[id][t]]]
  <2>1. LedgerManager'[id] = [t \in Listed(id)' |-> LedgerManager[id][t]]
      BY <1>4, LedgerNext
  <2>2. \A q \in PoolIds \ {id} : LedgerManager'[q] = LedgerManager[q]
      BY <1>2, <1>3, LedgerElsewhere
  <2>3. DOMAIN LedgerManager' = PoolIds
      BY LedgerNext
  <2> QED BY <2>1, <2>2, <2>3, LedgerNow DEF LedgerManager
<1>7. \A t \in Listed(id) \ Listed(id)' : LedgerBalance[id][t].cash = 0 /\ LedgerBalance[id][t].managed = 0
  <2>1. \A t \in ToSet(tokens) : Cash(GetBalance(id, t)) = 0 /\ Managed(GetBalance(id, t)) = 0
      BY <1>1 DEF Removes
  <2>2. \A t \in Listed(id) \ Listed(id)' : t \in ToSet(tokens)
      BY <1>3
  <2> QED BY <2>1, <2>2, LedgerNow DEF BalanceOf
<1>8. Ledger!TokensOf(id) = Listed(id) /\ Ledger!TokensOf(id)' = Listed(id)'
    BY LedgerTokens
<1> QED BY <1>1, <1>3, <1>5, <1>6, <1>7, <1>8 DEF Ledger!DeregisterTokens

LEMMA LedgerChanges ==
    ASSUME TypeOK, NEW id \in PoolIds, Moves(id)
    PROVE  Ledger!Change(id)
<1>1. /\ UNCHANGED <<blockNumber, isPoolRegistered, poolAssetManagers>>
      /\ event'.pools = {id} /\ DOMAIN event'.cash = Tokens
      /\ \A t \in Tokens \ Listed(id) : event'.cash[t] = 0 /\ event'.managed[t] = 0
      /\ Elsewhere(id) /\ GetTokens(id)' = GetTokens(id)
    BY DEF Moves
<1>2. Listed(id)' = Listed(id)
    BY <1>1 DEF Listed, ToSet
<1>3. LedgerManager' = LedgerManager
  <2>1. LedgerManager'[id] = LedgerManager[id]
      BY <1>1, <1>2, LedgerNext, LedgerNow
  <2>2. \A q \in PoolIds \ {id} : LedgerManager'[q] = LedgerManager[q]
      BY <1>1, LedgerElsewhere
  <2>3. DOMAIN LedgerManager' = PoolIds
      BY LedgerNext
  <2> QED BY <2>1, <2>2, <2>3, LedgerNow DEF LedgerManager
<1>4. \A q \in PoolIds \ {id} : LedgerBalance'[q] = LedgerBalance[q]
    BY <1>1, LedgerElsewhere
<1>5. \A t \in Listed(id) :
        CASE event'.kind = "cash" -> event'.managed[t] = 0
          [] event'.kind = "move" -> event'.cash[t] = -event'.managed[t]
          [] event'.kind = "report" -> event'.cash[t] = 0
    BY DEF Moves
<1>6. ASSUME NEW t \in Listed(id)
      PROVE  /\ LedgerBalance'[id][t].cash = LedgerBalance[id][t].cash + event'.cash[t]
             /\ LedgerBalance'[id][t].managed = LedgerBalance[id][t].managed + event'.managed[t]
             /\ LedgerBalance'[id][t].cash >= 0 /\ LedgerBalance'[id][t].managed >= 0
             /\ LedgerBalance'[id][t].cash + LedgerBalance'[id][t].managed <= AmountSize - 1
             /\ Ledger!Dated(LedgerBalance[id][t], LedgerBalance'[id][t],
                             event'.kind # "move" /\ t \in event'.tokens)
  <2>1. /\ LedgerBalance[id][t] = BalanceOf(id, t) /\ LedgerBalance'[id][t] = BalanceOf(id, t)'
      BY <1>2, LedgerNow, LedgerNext
  <2>2. /\ LedgerBalance[id][t].cash = Cash(GetBalance(id, t))
        /\ LedgerBalance[id][t].managed = Managed(GetBalance(id, t))
        /\ LedgerBalance[id][t].lastChangeBlock = LastChangeBlock(GetBalance(id, t))
        /\ LedgerBalance'[id][t].cash = Cash(GetBalance(id, t)')
        /\ LedgerBalance'[id][t].managed = Managed(GetBalance(id, t)')
        /\ LedgerBalance'[id][t].lastChangeBlock = LastChangeBlock(GetBalance(id, t)')
      BY <2>1 DEF BalanceOf
  <2>3. /\ Fits(Cash(GetBalance(id, t)'), Managed(GetBalance(id, t)'))
        /\ Cash(GetBalance(id, t)') = Cash(GetBalance(id, t)) + event'.cash[t]
        /\ Managed(GetBalance(id, t)') = Managed(GetBalance(id, t)) + event'.managed[t]
        /\ \/ LastChangeBlock(GetBalance(id, t)') = blockNumber
           \/ /\ LastChangeBlock(GetBalance(id, t)') = LastChangeBlock(GetBalance(id, t))
              /\ ~(event'.kind # "move" /\ t \in event'.tokens)
      BY DEF Moves
  <2>4. Ledger!Dated(LedgerBalance[id][t], LedgerBalance'[id][t], event'.kind # "move" /\ t \in event'.tokens)
      BY <2>2, <2>3 DEF Ledger!Dated
  <2>5. /\ LedgerBalance'[id][t].cash >= 0 /\ LedgerBalance'[id][t].managed >= 0
        /\ LedgerBalance'[id][t].cash + LedgerBalance'[id][t].managed <= AmountSize - 1
      BY <2>2, <2>3, WordAssumption DEF Fits
  <2> QED BY <2>2, <2>3, <2>4, <2>5
<1>7. Ledger!TokensOf(id) = Listed(id) /\ Ledger!TokensOf(id)' = Listed(id)'
    BY LedgerTokens
<1> QED BY <1>1, <1>2, <1>3, <1>4, <1>5, <1>6, <1>7 DEF Ledger!Change

LEMMA StepLedger ==
    ASSUME NoTokenTwice, StorageIInv, [Next]_vars
    PROVE  [Ledger!Next]_(Ledger!lvars)
<1>0. TypeOK /\ LayoutInv /\ ListedOnceAndFitting
    BY DEF StorageIInv
<1>1. ASSUME NEW id \in PoolIds, PoolAdded(id) PROVE Ledger!RegisterPool(id)
    BY <1>1, LedgerUnchanged DEF PoolAdded, Ledger!RegisterPool
<1>2. CASE NextBlock
  <2>1. blockNumber' > blockNumber
      BY <1>0, <1>2, WordAssumption DEF NextBlock, TypeOK
  <2> QED BY <1>2, <2>1, LedgerUnchanged DEF NextBlock, Ledger!Next, Ledger!NextBlock
<1>3. CASE UNCHANGED vars
    BY <1>3, LedgerUnchanged DEF vars, Ledger!lvars
<1>4. CASE Next
  <2>1. Effect
      BY <1>0, <1>4, StepEffects
  <2> QED BY <1>0, <1>1, <1>2, <2>1, LedgerRegistersTokens, LedgerDeregistersTokens, LedgerChanges
          DEF Effect, Ledger!Next
<1> QED BY <1>3, <1>4

\* Whatever the layout in which a Pool's balances are stored, the Vault keeps the promises
\* of registerTokens, deregisterTokens and managePoolBalance, and its events tell every
\* change: as long as no Pool deregisters a token twice in one call.
THEOREM LedgerIsImplemented == ASSUME NoTokenTwice PROVE Spec => ImplementsPoolLedger
<1>1. StorageIInv /\ [Next]_vars => [Ledger!Next]_(Ledger!lvars)
    BY StepLedger
<1> QED BY <1>1, InitLedger, InitStorageIInv, StepStorageIInv, PTL
        DEF Spec, ImplementsPoolLedger, Ledger!Spec
==============================================================================
