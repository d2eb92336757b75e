----------------------------- MODULE PoolTokens -----------------------------
(***************************************************************************)
(* The Vault's storage of Pools, their tokens and their balances:          *)
(* PoolRegistry.sol, PoolTokens.sol, and the layouts of the three          *)
(* specializations, GeneralPoolsBalance.sol, MinimalSwapInfoPoolsBalance.  *)
(* sol and TwoTokenPoolsBalance.sol (pkg/vault/contracts), with what       *)
(* swaps, joins, exits and Asset Managers do to it.                        *)
(*                                                                         *)
(* One action is one call.  That no other call comes between the balances  *)
(* a swap, join or exit reads before it calls the Pool and those it writes *)
(* afterwards is what module Vault is about.                               *)
(*                                                                         *)
(* Abstractions.  Token addresses are numbers (the code orders them) and 0 *)
(* is the zero address.  An enumerable map or set is the sequence of its   *)
(* entries, in the order the code enumerates them.                         *)
(***************************************************************************)
EXTENDS BalanceAllocation, Sequences

CONSTANTS
  Pools,            \* addresses that register Pools
  Specializations,  \* those tried, of "GENERAL", "MINIMAL_SWAP_INFO", "TWO_TOKEN"
  Tokens,
  AssetManagers,    \* addresses given as Asset Managers
  NoManager,        \* address(0)
  RegisteredLists,  \* lists of tokens tried with registerTokens
  DeregisteredLists,\* lists of tokens tried with deregisterTokens
  Amounts,          \* amounts tried in swaps, joins, exits and by Asset Managers
  FeeAmounts,       \* protocol fees tried in joins and exits
  MaxPools,         \* bound: number of registered Pools
  FirstBlock, MaxBlock  \* bounds: block numbers explored

ASSUME StorageAssumption ==
  /\ Tokens \subseteq Nat \ {0}
  /\ RegisteredLists \subseteq Seq(Tokens \cup {0}) /\ DeregisteredLists \subseteq Seq(Tokens)
  /\ NoManager \notin AssetManagers
  /\ Specializations \subseteq {"GENERAL", "MINIMAL_SWAP_INFO", "TWO_TOKEN"}
  /\ Amounts \subseteq Nat /\ FeeAmounts \subseteq Nat
  /\ MaxPools \in Nat /\ MaxBlock \in Nat /\ MaxBlock < BlockSize /\ FirstBlock \in 0 .. MaxBlock

\* A Pool ID packs the Pool's address, its specialization and a nonce.
PoolIds == Pools \X Specializations \X (0 .. (MaxPools - 1))
PoolAddress(id) == id[1]
Specialization(id) == id[2]
Pairs == Tokens \X Tokens

VARIABLES
  blockNumber,              \* block.number
  isPoolRegistered,         \* _isPoolRegistered: the IDs that are true
  nextPoolNonce,            \* _nextPoolNonce
  generalPoolsBalances,     \* _generalPoolsBalances: per Pool, [token, balance] entries
  minimalPoolsTokens,       \* _minimalSwapInfoPoolsTokens
  minimalPoolsBalances,     \* _minimalSwapInfoPoolsBalances
  twoTokenPoolTokens,       \* _twoTokenPoolTokens: per Pool, <<tokenA, tokenB>>
  sharedCash, sharedManaged,\* and its balances, per pair of tokens
  poolAssetManagers,        \* _poolAssetManagers
  event                     \* the last PoolBalanceChanged, Swap or PoolBalanceManaged

storage == <<generalPoolsBalances, minimalPoolsTokens, minimalPoolsBalances,
             twoTokenPoolTokens, sharedCash, sharedManaged>>
vars == <<blockNumber, isPoolRegistered, nextPoolNonce, storage, poolAssetManagers, event>>

ToSet(list) == {list[i] : i \in DOMAIN list}
Distinct(list) == \A i, j \in DOMAIN list : list[i] = list[j] => i = j
IndexIn(list, x) == CHOOSE i \in DOMAIN list : list[i] = x

\* Mutant: the last entry goes, whatever entry was to be removed.
PopLast(list, i) == [j \in 1 .. (Len(list) - 1) |-> list[j]]

\* remove: the last entry takes the place of the removed one.
SwapAndPop(list, i) ==
  [j \in 1 .. (Len(list) - 1) |-> IF j = i THEN list[Len(list)] ELSE list[j]]

Entry(token, balance) == [token |-> token, balance |-> balance]
TokensOfEntries(entries) == [i \in DOMAIN entries |-> entries[i].token]

-----------------------------------------------------------------------------
\* Reading a Pool, whatever its specialization.

\* The tokens in the order of getPoolTokens.
GetTokens(id) ==
  CASE Specialization(id) = "GENERAL" -> TokensOfEntries(generalPoolsBalances[id])
    [] Specialization(id) = "MINIMAL_SWAP_INFO" -> minimalPoolsTokens[id]
    [] Specialization(id) = "TWO_TOKEN" ->
         IF twoTokenPoolTokens[id] = <<0, 0>> THEN << >> ELSE twoTokenPoolTokens[id]

IsTokenRegistered(id, token) == token \in ToSet(GetTokens(id))

\* _getTwoTokenPoolBalance reads the pair that is registered.
GetBalance(id, token) ==
  CASE Specialization(id) = "GENERAL" ->
         generalPoolsBalances[id][IndexIn(GetTokens(id), token)].balance
    [] Specialization(id) = "MINIMAL_SWAP_INFO" -> minimalPoolsBalances[id][token]
    [] Specialization(id) = "TWO_TOKEN" ->
         LET pair == twoTokenPoolTokens[id] IN
         IF token = pair[1]
         THEN FromSharedToBalanceA(sharedCash[id][pair], sharedManaged[id][pair])
         ELSE FromSharedToBalanceB(sharedCash[id][pair], sharedManaged[id][pair])

\* _sortTwoTokens
Sorted(tokenX, tokenY) == IF tokenX < tokenY THEN <<tokenX, tokenY>> ELSE <<tokenY, tokenX>>

\* What _getTwoTokenPoolSharedBalances takes for registered: a nonzero word of the pair
\* is enough, and only for zero words are the tokens looked up.
PairLooksRegistered(id, pair) ==
  \/ ~IsZero(sharedCash[id][pair])
  \/ ~IsZero(sharedManaged[id][pair])
  \/ IsTokenRegistered(id, pair[1]) /\ IsTokenRegistered(id, pair[2])

\* The tokens that swaps take for registered: _getMinimalSwapInfoPoolBalance takes a
\* nonzero balance for a proof of registration, too.
SwapAccepts(id, tokenIn, tokenOut) ==
  CASE Specialization(id) = "GENERAL" ->
         IsTokenRegistered(id, tokenIn) /\ IsTokenRegistered(id, tokenOut)
    [] Specialization(id) = "MINIMAL_SWAP_INFO" ->
         \A token \in {tokenIn, tokenOut} :
           ~IsZero(minimalPoolsBalances[id][token]) \/ IsTokenRegistered(id, token)
    [] Specialization(id) = "TWO_TOKEN" -> PairLooksRegistered(id, Sorted(tokenIn, tokenOut))

-----------------------------------------------------------------------------
NoEvent == [pools |-> {}]

Init ==
  /\ blockNumber = FirstBlock
  /\ isPoolRegistered = {} /\ nextPoolNonce = 0
  /\ generalPoolsBalances = [id \in PoolIds |-> << >>]
  /\ minimalPoolsTokens = [id \in PoolIds |-> << >>]
  /\ minimalPoolsBalances = [id \in PoolIds |-> [token \in Tokens |-> 0]]
  /\ twoTokenPoolTokens = [id \in PoolIds |-> <<0, 0>>]
  /\ sharedCash = [id \in PoolIds |-> [pair \in Pairs |-> 0]]
  /\ sharedManaged = [id \in PoolIds |-> [pair \in Pairs |-> 0]]
  /\ poolAssetManagers = [id \in PoolIds |-> [token \in Tokens |-> NoManager]]
  /\ event = NoEvent

RegisterPool(sender, specialization) ==
  LET id == <<sender, specialization, nextPoolNonce>> IN
  /\ nextPoolNonce < MaxPools
  /\ id \notin isPoolRegistered
  /\ isPoolRegistered' = isPoolRegistered \cup {id}
  /\ nextPoolNonce' = nextPoolNonce + 1
  /\ UNCHANGED <<blockNumber, storage, poolAssetManagers, event>>

\* onlyPool
CalledByPool(id, sender) == id \in isPoolRegistered /\ sender = PoolAddress(id)

RegisterTwoTokenPoolTokens(id, tokens) ==
  /\ Len(tokens) = 2
  /\ tokens[1] < tokens[2]
  /\ twoTokenPoolTokens[id] = <<0, 0>>
  /\ twoTokenPoolTokens' = [twoTokenPoolTokens EXCEPT ![id] = tokens]
  /\ UNCHANGED <<generalPoolsBalances, minimalPoolsTokens, minimalPoolsBalances,
                 sharedCash, sharedManaged>>

RegisterMinimalSwapInfoPoolTokens(id, tokens) ==
  /\ Distinct(tokens) /\ ToSet(tokens) \cap ToSet(minimalPoolsTokens[id]) = {}
  /\ minimalPoolsTokens' = [minimalPoolsTokens EXCEPT ![id] = @ \o tokens]
  /\ UNCHANGED <<generalPoolsBalances, minimalPoolsBalances, twoTokenPoolTokens,
                 sharedCash, sharedManaged>>

RegisterGeneralPoolTokens(id, tokens) ==
  /\ Distinct(tokens) /\ ToSet(tokens) \cap ToSet(GetTokens(id)) = {}
  /\ generalPoolsBalances' = [generalPoolsBalances EXCEPT
       ![id] = @ \o [i \in DOMAIN tokens |-> Entry(tokens[i], 0)]]
  /\ UNCHANGED <<minimalPoolsTokens, minimalPoolsBalances, twoTokenPoolTokens,
                 sharedCash, sharedManaged>>

RegisterTokens(sender, id, tokens, assetManagers) ==
  /\ CalledByPool(id, sender)
  /\ 0 \notin ToSet(tokens)
  /\ \/ Specialization(id) = "TWO_TOKEN" /\ RegisterTwoTokenPoolTokens(id, tokens)
     \/ Specialization(id) = "MINIMAL_SWAP_INFO" /\ RegisterMinimalSwapInfoPoolTokens(id, tokens)
     \/ Specialization(id) = "GENERAL" /\ RegisterGeneralPoolTokens(id, tokens)
  /\ poolAssetManagers' = [poolAssetManagers EXCEPT ![id] =
       [token \in Tokens |-> IF token \in ToSet(tokens)
                             THEN assetManagers[token] ELSE @[token]]]
  /\ UNCHANGED <<blockNumber, isPoolRegistered, nextPoolNonce, event>>

-----------------------------------------------------------------------------
\* Mutant: the shared cash, which may hold a block number, is not reset.
LeavesSharedCash(id, pair) == UNCHANGED sharedCash

ResetSharedCash(id, pair) == sharedCash' = [sharedCash EXCEPT ![id][pair] = 0]

\* The balances are those of the pair given, which is not compared with the Pool's
\* pair: a pair of zero words passes if each of its tokens is registered.
DeregisterTwoTokenPoolTokens(id, tokens) ==
  /\ Len(tokens) = 2
  /\ LET pair == Sorted(tokens[1], tokens[2]) IN
       /\ PairLooksRegistered(id, pair)
       /\ IsZero(FromSharedToBalanceA(sharedCash[id][pair], sharedManaged[id][pair]))
       /\ IsZero(FromSharedToBalanceB(sharedCash[id][pair], sharedManaged[id][pair]))
       /\ ResetSharedCash(id, pair)
  /\ twoTokenPoolTokens' = [twoTokenPoolTokens EXCEPT ![id] = <<0, 0>>]
  /\ UNCHANGED <<generalPoolsBalances, minimalPoolsTokens, minimalPoolsBalances, sharedManaged>>

\* The loops of the other two remove token after token: a longer list is the calls with
\* its tokens one by one.
DeregisterMinimalSwapInfoPoolTokens(id, tokens) ==
  /\ Len(tokens) = 1
  /\ LET token == tokens[1]
         list == minimalPoolsTokens[id]
     IN  /\ IsZero(minimalPoolsBalances[id][token])
         /\ IsTokenRegistered(id, token)
         /\ minimalPoolsBalances' = [minimalPoolsBalances EXCEPT ![id][token] = 0]
         /\ minimalPoolsTokens' = [minimalPoolsTokens EXCEPT
              ![id] = SwapAndPop(list, IndexIn(list, token))]
  /\ UNCHANGED <<generalPoolsBalances, twoTokenPoolTokens, sharedCash, sharedManaged>>

DeregisterGeneralPoolTokens(id, tokens) ==
  /\ Len(tokens) = 1
  /\ LET token == tokens[1] IN
       /\ IsTokenRegistered(id, token)
       /\ IsZero(GetBalance(id, token))
       /\ generalPoolsBalances' = [generalPoolsBalances EXCEPT
            ![id] = SwapAndPop(@, IndexIn(GetTokens(id), token))]
  /\ UNCHANGED <<minimalPoolsTokens, minimalPoolsBalances, twoTokenPoolTokens,
                 sharedCash, sharedManaged>>

DeregisterTokens(sender, id, tokens) ==
  /\ CalledByPool(id, sender)
  /\ \/ Specialization(id) = "TWO_TOKEN" /\ DeregisterTwoTokenPoolTokens(id, tokens)
     \/ Specialization(id) = "MINIMAL_SWAP_INFO" /\ DeregisterMinimalSwapInfoPoolTokens(id, tokens)
     \/ Specialization(id) = "GENERAL" /\ DeregisterGeneralPoolTokens(id, tokens)
  /\ poolAssetManagers' = [poolAssetManagers EXCEPT ![id] =
       [token \in Tokens |-> IF token \in ToSet(tokens) THEN NoManager ELSE @[token]]]
  /\ UNCHANGED <<blockNumber, isPoolRegistered, nextPoolNonce, event>>

-----------------------------------------------------------------------------
\* Swaps, joins, exits and Asset Managers.

\* The event of a change: what kind, of which tokens, and the deltas of every token.
Changed(id, kind, tokens, cashDelta, managedDelta) ==
  [pools |-> {id}, kind |-> kind, tokens |-> tokens, cash |-> cashDelta, managed |-> managedDelta]
NoDelta == [token \in Tokens |-> 0]

SwapGeneralPool(id, delta) ==
  LET entries == generalPoolsBalances[id] IN
  /\ \A i \in DOMAIN entries :
       entries[i].token \in DOMAIN delta => CanChangeCash(entries[i].balance, delta[entries[i].token])
  /\ generalPoolsBalances' = [generalPoolsBalances EXCEPT ![id] =
       [i \in DOMAIN entries |->
          LET token == entries[i].token IN
          IF token \in DOMAIN delta
          THEN Entry(token, ChangeCash(entries[i].balance, delta[token], blockNumber))
          ELSE entries[i]]]
  /\ UNCHANGED <<minimalPoolsTokens, minimalPoolsBalances, twoTokenPoolTokens,
                 sharedCash, sharedManaged>>

SwapMinimalSwapInfoPool(id, delta) ==
  LET balances == minimalPoolsBalances[id] IN
  /\ \A token \in DOMAIN delta : CanChangeCash(balances[token], delta[token])
  /\ minimalPoolsBalances' = [minimalPoolsBalances EXCEPT ![id] =
       [token \in Tokens |-> IF token \in DOMAIN delta
                             THEN ChangeCash(balances[token], delta[token], blockNumber)
                             ELSE balances[token]]]
  /\ UNCHANGED <<generalPoolsBalances, minimalPoolsTokens, twoTokenPoolTokens,
                 sharedCash, sharedManaged>>

\* Swaps, joins and exits of Two Token Pools write the shared cash only.
SwapTwoTokenPool(id, pair, delta) ==
  LET balanceA == FromSharedToBalanceA(sharedCash[id][pair], sharedManaged[id][pair])
      balanceB == FromSharedToBalanceB(sharedCash[id][pair], sharedManaged[id][pair])
  IN  /\ CanChangeCash(balanceA, delta[pair[1]]) /\ CanChangeCash(balanceB, delta[pair[2]])
      /\ sharedCash' = [sharedCash EXCEPT ![id][pair] =
           ToSharedCash(ChangeCash(balanceA, delta[pair[1]], blockNumber),
                        ChangeCash(balanceB, delta[pair[2]], blockNumber))]
      /\ UNCHANGED <<generalPoolsBalances, minimalPoolsTokens, minimalPoolsBalances,
                     twoTokenPoolTokens, sharedManaged>>

\* The cash of the tokens in the domain of `delta` changes by it.
ChangeCashOf(id, pair, delta) ==
  /\ \/ Specialization(id) = "GENERAL" /\ SwapGeneralPool(id, delta)
     \/ Specialization(id) = "MINIMAL_SWAP_INFO" /\ SwapMinimalSwapInfoPool(id, delta)
     \/ Specialization(id) = "TWO_TOKEN" /\ SwapTwoTokenPool(id, pair, delta)
  /\ event' = Changed(id, "cash", DOMAIN delta,
       [token \in Tokens |-> IF token \in DOMAIN delta THEN delta[token] ELSE 0], NoDelta)
  /\ UNCHANGED <<blockNumber, isPoolRegistered, nextPoolNonce, poolAssetManagers>>

Swap(id, tokenIn, tokenOut, amountIn, amountOut) ==
  /\ tokenIn # tokenOut
  /\ SwapAccepts(id, tokenIn, tokenOut)
  /\ ChangeCashOf(id, Sorted(tokenIn, tokenOut),
       [token \in {tokenIn, tokenOut} |-> IF token = tokenIn THEN amountIn ELSE -amountOut])

\* A join adds what it takes in and an exit subtracts what it gives out, and both
\* subtract the protocol fees.
JoinPool(id, amountsIn, fees) ==
  LET tokens == GetTokens(id) IN
  /\ id \in isPoolRegistered /\ tokens # << >>
  /\ ChangeCashOf(id, tokens, [token \in ToSet(tokens) |-> amountsIn[token] - fees[token]])

ExitPool(id, amountsOut, fees) ==
  LET tokens == GetTokens(id) IN
  /\ id \in isPoolRegistered /\ tokens # << >>
  /\ ChangeCashOf(id, tokens, [token \in ToSet(tokens) |-> -(amountsOut[token] + fees[token])])

\* _updateXPoolBalance: the balance of one token is replaced.
UpdateGeneralPoolBalance(id, token, newBalance) ==
  /\ generalPoolsBalances' = [generalPoolsBalances EXCEPT
       ![id][IndexIn(GetTokens(id), token)].balance = newBalance]
  /\ UNCHANGED <<minimalPoolsTokens, minimalPoolsBalances, twoTokenPoolTokens,
                 sharedCash, sharedManaged>>

UpdateMinimalSwapInfoPoolBalance(id, token, newBalance) ==
  /\ minimalPoolsBalances' = [minimalPoolsBalances EXCEPT ![id][token] = newBalance]
  /\ UNCHANGED <<generalPoolsBalances, minimalPoolsTokens, twoTokenPoolTokens,
                 sharedCash, sharedManaged>>

UpdateTwoTokenPoolSharedBalance(id, token, newBalance) ==
  LET pair == twoTokenPoolTokens[id]
      balanceA == IF token = pair[1] THEN newBalance ELSE GetBalance(id, pair[1])
      balanceB == IF token = pair[1] THEN GetBalance(id, pair[2]) ELSE newBalance
  IN  /\ sharedCash' = [sharedCash EXCEPT ![id][pair] = ToSharedCash(balanceA, balanceB)]
      /\ sharedManaged' = [sharedManaged EXCEPT ![id][pair] = ToSharedManaged(balanceA, balanceB)]
      /\ UNCHANGED <<generalPoolsBalances, minimalPoolsTokens, minimalPoolsBalances,
                     twoTokenPoolTokens>>

UpdateBalance(id, token, kind, newBalance) ==
  LET old == GetBalance(id, token) IN
  /\ \/ Specialization(id) = "GENERAL" /\ UpdateGeneralPoolBalance(id, token, newBalance)
     \/ Specialization(id) = "MINIMAL_SWAP_INFO"
          /\ UpdateMinimalSwapInfoPoolBalance(id, token, newBalance)
     \/ Specialization(id) = "TWO_TOKEN"
          /\ UpdateTwoTokenPoolSharedBalance(id, token, newBalance)
  /\ event' = Changed(id, kind, {token},
       [NoDelta EXCEPT ![token] = Cash(newBalance) - Cash(old)],
       [NoDelta EXCEPT ![token] = ManagedDelta(newBalance, old)])
  /\ UNCHANGED <<blockNumber, isPoolRegistered, nextPoolNonce, poolAssetManagers>>

\* The checks managePoolBalance makes for each of its operations.
CanManage(sender, id, token) ==
  /\ id \in isPoolRegistered
  /\ IsTokenRegistered(id, token)
  /\ poolAssetManagers[id][token] = sender

\* A withdrawal moves cash to managed, a deposit (a negative amount) moves it back.
WithdrawOrDeposit(sender, id, token, amount) ==
  /\ CanManage(sender, id, token)
  /\ LET old == GetBalance(id, token) IN
       /\ CanMoveToManaged(old, amount)
       /\ UpdateBalance(id, token, "move", MoveToManaged(old, amount))

UpdateManagedBalance(sender, id, token, amount) ==
  /\ CanManage(sender, id, token)
  /\ LET old == GetBalance(id, token) IN
       /\ CanSetManaged(old, amount)
       /\ UpdateBalance(id, token, "report", SetManaged(old, amount, blockNumber))

NextBlock ==
  /\ blockNumber < MaxBlock
  /\ blockNumber' = blockNumber + 1
  /\ UNCHANGED <<isPoolRegistered, nextPoolNonce, storage, poolAssetManagers, event>>

Next ==
  \/ \E sender \in Pools, specialization \in Specializations :
       RegisterPool(sender, specialization)
  \/ \E sender \in Pools, id \in PoolIds :
       \/ \E tokens \in RegisteredLists :
            \E assetManagers \in [ToSet(tokens) -> AssetManagers \cup {NoManager}] :
              RegisterTokens(sender, id, tokens, assetManagers)
       \/ \E tokens \in DeregisteredLists : DeregisterTokens(sender, id, tokens)
  \/ \E id \in PoolIds :
       \/ \E tokenIn, tokenOut \in Tokens, amountIn, amountOut \in Amounts :
            Swap(id, tokenIn, tokenOut, amountIn, amountOut)
       \/ \E amounts \in [ToSet(GetTokens(id)) -> Amounts],
            fees \in [ToSet(GetTokens(id)) -> FeeAmounts] :
            JoinPool(id, amounts, fees) \/ ExitPool(id, amounts, fees)
       \/ \E sender \in AssetManagers, token \in Tokens, amount \in Amounts :
            \/ WithdrawOrDeposit(sender, id, token, amount)
            \/ WithdrawOrDeposit(sender, id, token, -amount)
            \/ UpdateManagedBalance(sender, id, token, amount)
  \/ NextBlock

Spec == Init /\ [][Next]_vars

-----------------------------------------------------------------------------
TypeOK ==
  /\ blockNumber \in 0 .. (BlockSize - 1)
  /\ isPoolRegistered \subseteq PoolIds /\ nextPoolNonce \in 0 .. MaxPools
  /\ generalPoolsBalances \in [PoolIds -> Seq([token : Tokens, balance : Words])]
  /\ minimalPoolsTokens \in [PoolIds -> Seq(Tokens)]
  /\ minimalPoolsBalances \in [PoolIds -> [Tokens -> Words]]
  /\ twoTokenPoolTokens \in [PoolIds -> Pairs \cup {<<0, 0>>}]
  /\ sharedCash \in [PoolIds -> [Pairs -> Words]]
  /\ sharedManaged \in [PoolIds -> [Pairs -> Words]]
  /\ poolAssetManagers \in [PoolIds -> [Tokens -> AssetManagers \cup {NoManager}]]

\* "A non-zero balance guarantees that the token is registered", and "non-zero balances
\* are only possible if both tokens in the pair are registered with the Pool": the
\* shortcuts by which swaps skip the registry are right, for single tokens and for pairs.
NonzeroMeansRegistered ==
  \A id \in PoolIds :
    /\ \A token \in Tokens :
         ~IsZero(minimalPoolsBalances[id][token]) => token \in ToSet(minimalPoolsTokens[id])
    /\ \A pair \in Pairs :
         ~IsZero(sharedCash[id][pair]) \/ ~IsZero(sharedManaged[id][pair])
           => twoTokenPoolTokens[id] = pair

\* A slot that no registered token uses is clear, its last change block included, so
\* that a token registered again starts afresh.
FreeSlotsAreClear ==
  \A id \in PoolIds :
    /\ \A token \in Tokens \ ToSet(minimalPoolsTokens[id]) : minimalPoolsBalances[id][token] = 0
    /\ \A pair \in Pairs : twoTokenPoolTokens[id] # pair =>
         sharedCash[id][pair] = 0 /\ sharedManaged[id][pair] = 0

\* Every registered token is listed once, with a total that fits its 112 bits and a last
\* change that is not in the future; the tokens of a Two Token Pool are sorted.
ListedOnceAndFitting ==
  \A id \in PoolIds :
    /\ Distinct(GetTokens(id))
    /\ twoTokenPoolTokens[id] # <<0, 0>> => twoTokenPoolTokens[id][1] < twoTokenPoolTokens[id][2]
    /\ \A token \in ToSet(GetTokens(id)) :
         /\ Total(GetBalance(id, token)) < AmountSize
         /\ LastChangeBlock(GetBalance(id, token)) <= blockNumber

\* An Asset Manager is kept for registered tokens of registered Pools only.
ManagersOfRegisteredTokens ==
  \A id \in PoolIds, token \in Tokens :
    poolAssetManagers[id][token] # NoManager =>
      id \in isPoolRegistered /\ IsTokenRegistered(id, token)

StorageInv ==
  /\ NonzeroMeansRegistered /\ FreeSlotsAreClear
  /\ ListedOnceAndFitting /\ ManagersOfRegisteredTokens

\* The ledger that the three layouts store.
BalanceOf(id, token) ==
  LET word == GetBalance(id, token) IN
  [cash |-> Cash(word), managed |-> Managed(word), lastChangeBlock |-> LastChangeBlock(word)]

LedgerBalance ==
  [id \in PoolIds |-> [token \in ToSet(GetTokens(id)) |-> BalanceOf(id, token)]]
LedgerManager ==
  [id \in PoolIds |-> [token \in ToSet(GetTokens(id)) |-> poolAssetManagers[id][token]]]

Ledger == INSTANCE PoolLedger WITH
  MaxBalance <- AmountSize - 1,
  pools <- isPoolRegistered, balance <- LedgerBalance, manager <- LedgerManager

\* Whatever the layout, the Vault keeps the promises of PoolLedger.
ImplementsPoolLedger == Ledger!Spec
=============================================================================
