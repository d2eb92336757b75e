-------------------------------- MODULE Vault --------------------------------
(***************************************************************************)
(* How the Vault moves tokens: swaps and batch swaps, joins and exits,     *)
(* Internal Balance, Asset Managers, flash loans and protocol fees         *)
(* (pkg/vault/contracts: Swaps, PoolBalances, UserBalance, AssetManagers,  *)
(* FlashLoans, Fees, ProtocolFeesCollector, AssetTransfersHandler), under  *)
(* the reentrancy lock and the emergency pause.                            *)
(*                                                                         *)
(* A call into the Vault that hands control to a Pool or a borrower while  *)
(* it works is a frame on the call stack, and one action for every part of *)
(* it between two such external calls; the actions of other parties may    *)
(* come in between.  A call that fails leaves no trace, so the steps of a  *)
(* call that cannot go on are never seen outside.                          *)
(*                                                                         *)
(* Abstractions.  Tokens are ERC20s that transfer what they are asked to;  *)
(* in joins and exits, where they move before the balances are written, a  *)
(* transfer may hand over control (as those of ERC777 tokens do), so that  *)
(* each is an action.  ETH is left out.  Recipients are accounts, not the  *)
(* Vault itself.  The allowances and consent a call needs are taken as     *)
(* given (authenticateFor is not modelled), and limits and deadlines,      *)
(* which only make calls fail, are left out.  What a Pool answers is any   *)
(* amount.  Arguments that only matter at the end of a call are chosen     *)
(* there.  An array of operations given to manageUserBalance or            *)
(* managePoolBalance is as many calls, as each operation reads and writes  *)
(* all it needs.  Last change blocks and the layouts of balances are in    *)
(* PoolTokens.  The mappings from users to tokens are indexed by the token *)
(* first, as the balances of token contracts are.                          *)
(***************************************************************************)
EXTENDS TemporarilyPausable, Sequences, FiniteSets, Functions

CONSTANTS
  Pools, Tokens,
  Accounts,         \* users, relayed or not, borrowers and Asset Managers
  TheVault,         \* address(this)
  FeesCollector,    \* address(_protocolFeesCollector)
  AssetManagerOf,   \* _poolAssetManagers, per Pool
  Supply,           \* of every token
  Amounts,          \* amounts tried
  SwapAmounts,      \* amounts tried in swaps, joins and exits
  FeeAmounts,       \* protocol fees tried in joins, exits and flash loans
  MaxBalance,       \* 2^112 - 1
  MaxHops,          \* bound: swaps in a batch
  MaxDepth          \* bound: calls on the stack

ASSUME VaultAssumption ==
  /\ IsFiniteSet(Pools) /\ IsFiniteSet(Accounts)
  /\ TheVault \notin Accounts /\ FeesCollector \notin Accounts \cup {TheVault}
  /\ AssetManagerOf \in [Pools -> Accounts]
  /\ Supply \in Nat /\ MaxBalance \in Nat /\ MaxHops \in Nat /\ MaxDepth \in Nat
  /\ Amounts \subseteq Nat /\ SwapAmounts \subseteq Nat /\ FeeAmounts \subseteq Nat

Holders == Accounts \cup {TheVault, FeesCollector}

\* At first the accounts hold all tokens.
InitialBalances ==
  {b \in [Holders -> 0 .. Supply] :
     b[TheVault] = 0 /\ b[FeesCollector] = 0 /\ SumFunction(b) = Supply}

VARIABLES
  status,           \* _status of the ReentrancyGuard: is a call in progress?
  frames,           \* the call stack, the innermost call first
  registered,       \* per Pool, its registered tokens
  cash, managed,    \* per Pool and token
  internalBalance,  \* _internalTokenBalance
  balanceOf,        \* of the token contracts
  unclaimed         \* history: what reached the Vault without any call, minus loans

vaultVars == <<status, frames, registered, cash, managed, internalBalance, balanceOf, unclaimed>>
vars == <<pauseVars, vaultVars>>
books == <<registered, cash, managed>>

NoPool == 0
NoToken == 0
Zero == [t \in Tokens |-> 0]

-----------------------------------------------------------------------------
\* The lock.

\* Mutant: the lock is not looked at.
LockIgnored == TRUE

NotEntered == status = "NOT_ENTERED"

\* A call that starts, its frame, and the end of the innermost call.
Enter(frame) ==
  /\ NotEntered
  /\ Len(frames) < MaxDepth
  /\ status' = "ENTERED"
  /\ frames' = <<frame>> \o frames

Continue(frame) ==
  /\ frames' = [frames EXCEPT ![1] = frame]
  /\ UNCHANGED status

Leave ==
  /\ frames' = Tail(frames)
  /\ status' = "NOT_ENTERED"

\* A call that needs no frame.
Locked == NotEntered /\ UNCHANGED <<status, frames>>

\* The balances a call reads before it hands over control, and writes back changed.
Read(p, t) == [cash |-> cash[p][t], managed |-> managed[p][t]]

\* Mutant: a decrease is not checked.
AllowsNegative(newCash, newManaged) == newCash + newManaged <= MaxBalance

\* What the checked arithmetic of BalanceAllocation lets pass.
Fits(newCash, newManaged) == newCash >= 0 /\ newManaged >= 0 /\ newCash + newManaged <= MaxBalance

\* A whole word is written back, the managed part as it was read.
WriteBack(frame, delta) ==
  /\ \A t \in DOMAIN frame.read : Fits(frame.read[t].cash + delta[t], frame.read[t].managed)
  /\ cash' = [cash EXCEPT ![frame.pool] =
       [t \in Tokens |-> IF t \in DOMAIN frame.read THEN frame.read[t].cash + delta[t] ELSE @[t]]]
  /\ managed' = [managed EXCEPT ![frame.pool] =
       [t \in Tokens |-> IF t \in DOMAIN frame.read THEN frame.read[t].managed ELSE @[t]]]

Running(op, stage) == frames # << >> /\ frames[1].op = op /\ frames[1].stage = stage

-----------------------------------------------------------------------------
\* Funds: per token, who owns what as Internal Balance and in the token contract.

FundsOf(t) == [internal |-> internalBalance[t], tokens |-> balanceOf[t]]
Funds == [t \in Tokens |-> FundsOf(t)]

\* Transfers of more than there is fail.
SetFunds(funds) ==
  /\ \A t \in Tokens :
       /\ \A a \in Accounts : funds[t].internal[a] >= 0
       /\ \A h \in Holders : funds[t].tokens[h] >= 0
  /\ internalBalance' = [t \in Tokens |-> funds[t].internal]
  /\ balanceOf' = [t \in Tokens |-> funds[t].tokens]

Transferred(f, from, to, amount) ==
  [internal |-> f.internal,
   tokens |-> [f.tokens EXCEPT ![from] = @ - amount, ![to] = @ + amount]]

Credited(f, account, amount) == [f EXCEPT !.internal[account] = @ + amount]

\* Mutant: what Internal Balance covers is charged to the wallet again.
ChargedAgain(amount, deducted) == amount

RestToTransfer(amount, deducted) == amount - deducted

\* _receiveAsset: Internal Balance is used first, and the wallet pays the rest.
Received(f, amount, sender, fromInternalBalance) ==
  LET deducted == IF ~fromInternalBalance THEN 0
                  ELSE IF f.internal[sender] < amount THEN f.internal[sender] ELSE amount
  IN  Transferred(Credited(f, sender, -deducted),
                  sender, TheVault, RestToTransfer(amount, deducted))

\* _sendAsset
Sent(f, amount, recipient, toInternalBalance) ==
  IF toInternalBalance THEN Credited(f, recipient, amount)
  ELSE Transferred(f, TheVault, recipient, amount)

\* _payFeeAmount
FeePaid(f, amount) == Transferred(f, TheVault, FeesCollector, amount)

-----------------------------------------------------------------------------
Init ==
  /\ PauseInit
  /\ status = "NOT_ENTERED" /\ frames = << >>
  /\ registered = [p \in Pools |-> {}]
  /\ cash = [p \in Pools |-> Zero] /\ managed = [p \in Pools |-> Zero]
  /\ internalBalance = [t \in Tokens |-> [a \in Accounts |-> 0]]
  /\ balanceOf \in [Tokens -> InitialBalances]
  /\ unclaimed = Zero

\* PoolTokens.registerTokens and deregisterTokens, called by the Pool.
RegisterTokens(p, tokens) ==
  /\ Locked /\ IsNotPaused
  /\ tokens \cap registered[p] = {}
  /\ registered' = [registered EXCEPT ![p] = @ \cup tokens]
  /\ UNCHANGED <<pauseVars, cash, managed, internalBalance, balanceOf, unclaimed>>

\* Mutant: the managed balance is not looked at.
HasNoCash(p, t) == cash[p][t] = 0

HasNoBalance(p, t) == cash[p][t] = 0 /\ managed[p][t] = 0

DeregisterTokens(p, tokens) ==
  /\ Locked /\ IsNotPaused
  /\ tokens \subseteq registered[p]
  /\ \A t \in tokens : HasNoBalance(p, t)
  /\ registered' = [registered EXCEPT ![p] = @ \ tokens]
  /\ UNCHANGED <<pauseVars, cash, managed, internalBalance, balanceOf, unclaimed>>

-----------------------------------------------------------------------------
\* swap and batchSwap: a frame works through its hops, each of which asks a Pool between
\* reading the balances and writing them, and settles the differences at the end.

StartSwap(hops) ==
  /\ IsNotPaused
  /\ Enter([op |-> "swap", stage |-> "ready", hops |-> hops, pool |-> NoPool, in |-> NoToken,
            out |-> NoToken, read |-> << >>, deltas |-> Zero])
  /\ UNCHANGED <<pauseVars, books, internalBalance, balanceOf, unclaimed>>

\* _swapWithPool, up to the call of onSwap.
AskPool(p, tokenIn, tokenOut) ==
  /\ Running("swap", "ready") /\ frames[1].hops > 0
  /\ tokenIn # tokenOut /\ {tokenIn, tokenOut} \subseteq registered[p]
  /\ Continue([frames[1] EXCEPT
       !.stage = "onSwap", !.hops = @ - 1,
       !.pool = p, !.in = tokenIn, !.out = tokenOut,
       !.read = [t \in {tokenIn, tokenOut} |-> Read(p, t)]])
  /\ UNCHANGED <<pauseVars, books, internalBalance, balanceOf, unclaimed>>

\* And after it: the new balances are those read before the call, changed.
PoolAnswers(amountIn, amountOut) ==
  /\ Running("swap", "onSwap")
  /\ LET f == frames[1]
         delta == [t \in {f.in, f.out} |-> IF t = f.in THEN amountIn ELSE -amountOut]
         deltas == [f.deltas EXCEPT ![f.in] = @ + amountIn, ![f.out] = @ - amountOut]
     IN  /\ WriteBack(f, delta)
         /\ Continue([f EXCEPT !.stage = "ready", !.read = << >>, !.deltas = deltas])
  /\ UNCHANGED <<pauseVars, registered, internalBalance, balanceOf, unclaimed>>

\* Of each asset the Vault receives what is missing and sends what is left over.
EndSwap(sender, recipient, fromInternalBalance, toInternalBalance) ==
  /\ Running("swap", "ready") /\ frames[1].hops = 0
  /\ SetFunds([t \in Tokens |->
       LET delta == frames[1].deltas[t] IN
       IF delta > 0 THEN Received(FundsOf(t), delta, sender, fromInternalBalance)
                    ELSE Sent(FundsOf(t), -delta, recipient, toInternalBalance)])
  /\ Leave
  /\ UNCHANGED <<pauseVars, books, unclaimed>>

-----------------------------------------------------------------------------
\* joinPool and exitPool: the balances are read, the Pool is asked, the tokens move one
\* by one, and only then are the balances written.

\* Mutant: joining is possible while paused.
JoinsWhilePaused(op) == TRUE

\* exitPool does not ask whether the Vault is paused.
PauseAllows(op) == op = "join" => IsNotPaused

StartJoinOrExit(op, p, account, useInternalBalance) ==
  /\ PauseAllows(op)
  /\ registered[p] # {}
  /\ Enter([op |-> op, stage |-> "onJoinOrExit", pool |-> p, account |-> account,
            useInternalBalance |-> useInternalBalance,
            read |-> [t \in registered[p] |-> Read(p, t)], deltas |-> Zero, left |-> registered[p]])
  /\ UNCHANGED <<pauseVars, books, internalBalance, balanceOf, unclaimed>>

\* _processJoinPoolTransfers and _processExitPoolTransfers, for one token.
JoinOrExitTransfer(op, t, delta, funds) ==
  /\ Running(op, "onJoinOrExit") /\ t \in frames[1].left
  /\ SetFunds([Funds EXCEPT ![t] = funds])
  /\ Continue([frames[1] EXCEPT !.deltas[t] = delta, !.left = @ \ {t}])
  /\ UNCHANGED <<pauseVars, books, unclaimed>>

JoinTransfer(t, amountIn, fee) ==
  JoinOrExitTransfer("join", t, amountIn - fee,
    FeePaid(Received(FundsOf(t), amountIn, frames[1].account, frames[1].useInternalBalance), fee))

ExitTransfer(t, amountOut, fee) ==
  JoinOrExitTransfer("exit", t, -(amountOut + fee),
    FeePaid(Sent(FundsOf(t), amountOut, frames[1].account, frames[1].useInternalBalance), fee))

\* Every token of the Pool is written, from the balances read at the start.
EndJoinOrExit(op) ==
  /\ Running(op, "onJoinOrExit") /\ frames[1].left = {}
  /\ WriteBack(frames[1], frames[1].deltas)
  /\ Leave
  /\ UNCHANGED <<pauseVars, registered, internalBalance, balanceOf, unclaimed>>

-----------------------------------------------------------------------------
\* flashLoan

\* Mutant: the balance is read after the loan has gone out.
ReadAfterTransfer(t, amount) == balanceOf[t][TheVault] - amount

PreLoanBalance(t, amount) == balanceOf[t][TheVault]

StartLoan(recipient, amounts, fees) ==
  /\ IsNotPaused
  /\ Enter([op |-> "loan", stage |-> "receiveFlashLoan", fees |-> fees,
            before |-> [t \in DOMAIN amounts |-> PreLoanBalance(t, amounts[t])]])
  /\ SetFunds([t \in Tokens |->
       IF t \in DOMAIN amounts THEN Transferred(FundsOf(t), TheVault, recipient, amounts[t])
                               ELSE FundsOf(t)])
  /\ unclaimed' = [t \in Tokens |->
       unclaimed[t] - (IF t \in DOMAIN amounts THEN amounts[t] ELSE 0)]
  /\ UNCHANGED <<pauseVars, books>>

\* All that came in above the balance before the loan goes to the fees collector.
EndLoan ==
  /\ Running("loan", "receiveFlashLoan")
  /\ LET before == frames[1].before
         extra(t) == IF t \in DOMAIN before THEN balanceOf[t][TheVault] - before[t] ELSE 0
     IN  /\ \A t \in DOMAIN before : extra(t) >= frames[1].fees[t]
         /\ SetFunds([t \in Tokens |-> FeePaid(FundsOf(t), extra(t))])
         /\ unclaimed' = [t \in Tokens |-> unclaimed[t] - extra(t)]
  /\ Leave
  /\ UNCHANGED <<pauseVars, books>>

-----------------------------------------------------------------------------
\* manageUserBalance: only withdrawals are possible while paused.

UserBalanceOp(t, kind, funds) ==
  /\ Locked
  /\ kind # "WITHDRAW_INTERNAL" => IsNotPaused
  /\ SetFunds([Funds EXCEPT ![t] = funds])
  /\ UNCHANGED <<pauseVars, books, unclaimed>>

DepositInternal(t, sender, recipient, amount) ==
  UserBalanceOp(t, "DEPOSIT_INTERNAL",
    Received(Credited(FundsOf(t), recipient, amount), amount, sender, FALSE))

WithdrawInternal(t, sender, recipient, amount) ==
  UserBalanceOp(t, "WITHDRAW_INTERNAL",
    Sent(Credited(FundsOf(t), sender, -amount), amount, recipient, FALSE))

TransferInternal(t, sender, recipient, amount) ==
  /\ internalBalance[t][sender] >= amount
  /\ UserBalanceOp(t, "TRANSFER_INTERNAL",
       Credited(Credited(FundsOf(t), sender, -amount), recipient, amount))

TransferExternal(t, sender, recipient, amount) ==
  /\ balanceOf[t][sender] >= amount
  /\ UserBalanceOp(t, "TRANSFER_EXTERNAL", Transferred(FundsOf(t), sender, recipient, amount))

-----------------------------------------------------------------------------
\* managePoolBalance

\* Mutant: Asset Managers do not stop for the pause.
ManagedWhilePaused(p, t) == Locked /\ t \in registered[p]

ManagePoolBalance(p, t) == Locked /\ IsNotPaused /\ t \in registered[p]

WithdrawPoolBalance(p, t, amount) ==
  /\ ManagePoolBalance(p, t)
  /\ Fits(cash[p][t] - amount, managed[p][t] + amount)
  /\ cash' = [cash EXCEPT ![p][t] = @ - amount]
  /\ managed' = [managed EXCEPT ![p][t] = @ + amount]
  /\ SetFunds([Funds EXCEPT ![t] = Transferred(@, TheVault, AssetManagerOf[p], amount)])
  /\ UNCHANGED <<pauseVars, registered, unclaimed>>

DepositPoolBalance(p, t, amount) ==
  /\ ManagePoolBalance(p, t)
  /\ Fits(cash[p][t] + amount, managed[p][t] - amount)
  /\ cash' = [cash EXCEPT ![p][t] = @ + amount]
  /\ managed' = [managed EXCEPT ![p][t] = @ - amount]
  /\ SetFunds([Funds EXCEPT ![t] = Transferred(@, AssetManagerOf[p], TheVault, amount)])
  /\ UNCHANGED <<pauseVars, registered, unclaimed>>

UpdateManagedBalance(p, t, amount) ==
  /\ ManagePoolBalance(p, t)
  /\ Fits(cash[p][t], amount)
  /\ managed' = [managed EXCEPT ![p][t] = amount]
  /\ UNCHANGED <<pauseVars, registered, cash, internalBalance, balanceOf, unclaimed>>

-----------------------------------------------------------------------------
SetPaused(newPaused) ==
  /\ Locked
  /\ SetPausedFlag(newPaused)
  /\ UNCHANGED <<books, internalBalance, balanceOf, unclaimed>>

\* withdrawCollectedFees has a lock of its own, so that it is possible at any moment.
WithdrawCollectedFees(t, recipient, amount) ==
  /\ SetFunds([Funds EXCEPT ![t] = Transferred(@, FeesCollector, recipient, amount)])
  /\ UNCHANGED <<pauseVars, status, frames, books, unclaimed>>

\* Anyone may send tokens at any moment, to the Vault as well.
TransferToken(t, from, to, amount) ==
  /\ SetFunds([Funds EXCEPT ![t] = Transferred(@, from, to, amount)])
  /\ unclaimed' = IF to = TheVault THEN [unclaimed EXCEPT ![t] = @ + amount] ELSE unclaimed
  /\ UNCHANGED <<pauseVars, status, frames, books>>

\* A transaction runs within one block.
TimePasses ==
  /\ frames = << >>
  /\ Tick
  /\ UNCHANGED vaultVars

TransfersAndTime ==
  \/ \E t \in Tokens, from \in Accounts, to \in Accounts \cup {TheVault}, amount \in Amounts :
       TransferToken(t, from, to, amount)
  \/ \E t \in Tokens, recipient \in Accounts, amount \in Amounts :
       WithdrawCollectedFees(t, recipient, amount)
  \/ TimePasses

SwapNext ==
  \/ \E hops \in 1 .. MaxHops : StartSwap(hops)
  \/ \E p \in Pools, tokenIn, tokenOut \in Tokens : AskPool(p, tokenIn, tokenOut)
  \/ \E amountIn, amountOut \in SwapAmounts : PoolAnswers(amountIn, amountOut)
  \/ \E sender, recipient \in Accounts, fromInternal, toInternal \in BOOLEAN :
       EndSwap(sender, recipient, fromInternal, toInternal)

JoinExitNext ==
  \/ \E op \in {"join", "exit"} :
       \/ \E p \in Pools, account \in Accounts, useInternalBalance \in BOOLEAN :
            StartJoinOrExit(op, p, account, useInternalBalance)
       \/ EndJoinOrExit(op)
  \/ \E t \in Tokens, amount \in SwapAmounts, fee \in FeeAmounts :
       JoinTransfer(t, amount, fee) \/ ExitTransfer(t, amount, fee)

LoanNext ==
  \/ \E recipient \in Accounts, tokens \in SUBSET Tokens \ {{}} :
       \E amounts \in [tokens -> Amounts], fees \in [tokens -> FeeAmounts] :
         StartLoan(recipient, amounts, fees)
  \/ EndLoan

UserBalanceNext ==
  \E t \in Tokens, sender, recipient \in Accounts, amount \in Amounts :
    \/ DepositInternal(t, sender, recipient, amount)
    \/ WithdrawInternal(t, sender, recipient, amount)
    \/ TransferInternal(t, sender, recipient, amount)
    \/ TransferExternal(t, sender, recipient, amount)

PoolNext ==
  \E p \in Pools :
    \/ \E tokens \in SUBSET Tokens \ {{}} : RegisterTokens(p, tokens) \/ DeregisterTokens(p, tokens)
    \/ \E t \in Tokens, amount \in Amounts :
         \/ WithdrawPoolBalance(p, t, amount)
         \/ DepositPoolBalance(p, t, amount)
         \/ UpdateManagedBalance(p, t, amount)

Next ==
  \/ SwapNext \/ JoinExitNext \/ LoanNext \/ UserBalanceNext \/ PoolNext
  \/ \E newPaused \in BOOLEAN : SetPaused(newPaused)
  \/ TransfersAndTime

Spec == Init /\ [][Next]_vars

-----------------------------------------------------------------------------
BooksTypeOK ==
  /\ registered \in [Pools -> SUBSET Tokens]
  /\ cash \in [Pools -> [Tokens -> Nat]] /\ managed \in [Pools -> [Tokens -> Nat]]
  /\ \A p \in Pools, t \in Tokens : cash[p][t] + managed[p][t] <= MaxBalance

FundsTypeOK ==
  /\ internalBalance \in [Tokens -> [Accounts -> Nat]]
  /\ balanceOf \in [Tokens -> [Holders -> Nat]]
  /\ unclaimed \in [Tokens -> Int]

TypeOK ==
  /\ now \in Nat /\ paused \in BOOLEAN
  /\ status = IF frames = << >> THEN "NOT_ENTERED" ELSE "ENTERED"
  /\ BooksTypeOK /\ FundsTypeOK

\* What a call in progress has changed in the books and not yet in the tokens, or the
\* other way round.
InFlight(frame, t) ==
  CASE frame.op = "swap" -> -frame.deltas[t]
    [] frame.op \in {"join", "exit"} -> frame.deltas[t]
    [] frame.op = "loan" -> 0

Booked(t) == SumFunction([p \in Pools |-> cash[p][t]]) + SumFunction(internalBalance[t])
Owed(t) == Booked(t) + SumFunction([i \in DOMAIN frames |-> InFlight(frames[i], t)])

\* The books are exact, in the middle of any call as well: the tokens of the Vault are
\* the cash of the Pools, the Internal Balances, what calls in progress still have to
\* settle, and what was sent to it unasked; no operation books a token twice or drops one.
BooksBalance == \A t \in Tokens : balanceOf[t][TheVault] = Owed(t) + unclaimed[t]

\* Whenever no call is in progress, the Vault can pay everything it owes at once: loans
\* came back whole, and nobody's balance is backed by somebody else's tokens.
Solvent == frames = << >> => \A t \in Tokens : balanceOf[t][TheVault] >= Booked(t)

\* No lost update: while a Pool, a borrower or a recipient has control, the balances that
\* a call has read, and will write back changed, stay as they were read.
ReadsAreFresh ==
  \A i \in DOMAIN frames :
    frames[i].op # "loan" =>
      \A t \in DOMAIN frames[i].read :
        t \in registered[frames[i].pool] /\ frames[i].read[t] = Read(frames[i].pool, t)

\* A token that a Pool has not registered has no balance in it, however registering and
\* deregistering mix with the calls that write balances.
OnlyRegisteredTokensHaveBalance ==
  \A p \in Pools, t \in Tokens :
    cash[p][t] # 0 \/ managed[p][t] # 0 => t \in registered[p]

\* "While the contract is paused", what the Vault owes to Pools, accounts and calls in
\* progress only shrinks: tokens leave it by exits and withdrawals, and nothing else moves.
PausedOnlyDrains ==
  [][~IsNotPaused => \A t \in Tokens : Owed(t)' <= Owed(t)]_vars

\* And so for each Pool, whichever call is in progress when the pause begins: no cash
\* comes in, and neither managed balances nor registered tokens change.
PausedDrainsPools ==
  [][~IsNotPaused =>
       /\ \A p \in Pools, t \in Tokens : cash'[p][t] <= cash[p][t]
       /\ UNCHANGED <<managed, registered>>]_vars
=============================================================================
