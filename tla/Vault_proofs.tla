---------------------------- MODULE Vault_proofs ----------------------------
(***************************************************************************)
(* What TLAPS proves about the Vault, for every value of the constants:    *)
(* the lock keeps calls apart, so that what a call has read is what it     *)
(* writes back, and no word of a balance is lost or outlives its token;    *)
(* then the pause alone; and then the books: they balance with the tokens  *)
(* the Vault holds, in the middle of calls as well, so that it is solvent  *)
(* whenever no call is in progress and only pays out while paused.         *)
(***************************************************************************)
EXTENDS Vault, Functions, FiniteSetTheorems, WellFoundedInduction, TLAPS

Balance == [cash : Nat, managed : Nat]
ReadBalances == UNION {[S -> Balance] : S \in SUBSET Tokens}

SwapFrame ==
  [op : {"swap"}, stage : {"ready", "onSwap"}, hops : Int, pool : Pools \cup {NoPool},
   in : Tokens \cup {NoToken}, out : Tokens \cup {NoToken}, read : ReadBalances,
   deltas : [Tokens -> Int]]

JoinOrExitFrame ==
  [op : {"join", "exit"}, stage : {"onJoinOrExit"}, pool : Pools, account : Accounts,
   useInternalBalance : BOOLEAN, read : ReadBalances, deltas : [Tokens -> Int],
   left : SUBSET Tokens]

LoanFrame ==
  [op : {"loan"}, stage : {"receiveFlashLoan"}, fees : UNION {[S -> Nat] : S \in SUBSET Tokens},
   before : UNION {[S -> Int] : S \in SUBSET Tokens}]

Frame == SwapFrame \cup JoinOrExitFrame \cup LoanFrame

\* At most one call is in progress.
OneCall == frames = << >> \/ \E f \in Frame : frames = <<f>>

\* Where a swap is, its read balances are those of a Pool; elsewhere it has read none.
ReadsHavePool ==
  \A f \in SwapFrame : frames = <<f>> =>
    IF f.stage = "onSwap"
    THEN f.pool \in Pools /\ f.in \in Tokens /\ f.out \in Tokens /\ DOMAIN f.read = {f.in, f.out}
    ELSE DOMAIN f.read = {}

\* The inductive invariant.
VaultInv == TypeOK /\ OneCall /\ ReadsHavePool /\ ReadsAreFresh /\ OnlyRegisteredTokensHaveBalance

-----------------------------------------------------------------------------
\* The call stack as it is.

LEMMA EnterShape ==
  ASSUME TypeOK, NEW f, Enter(f)
  PROVE  frames = << >> /\ frames' = <<f>> /\ status' = "ENTERED"
<1>1. frames = << >>  BY DEF TypeOK, Enter, NotEntered
<1>2. <<f>> \o << >> = <<f>>  OBVIOUS
<1> QED BY <1>1, <1>2 DEF Enter

LEMMA ContinueShape ==
  ASSUME TypeOK, OneCall, NEW f, frames # << >>, Continue(f)
  PROVE  frames' = <<f>> /\ status' = "ENTERED"
<1>1. PICK g \in Frame : frames = <<g>>  BY DEF OneCall
<1>2. [frames EXCEPT ![1] = f] = <<f>>  BY <1>1
<1> QED BY <1>2 DEF Continue, TypeOK

LEMMA LeaveShape ==
  ASSUME TypeOK, OneCall, frames # << >>, Leave
  PROVE  frames' = << >> /\ status' = "NOT_ENTERED"
<1>1. PICK g \in Frame : frames = <<g>>  BY DEF OneCall
<1>2. Tail(frames) = << >>  BY <1>1
<1> QED BY <1>2 DEF Leave

LEMMA LockedShape ==
  ASSUME TypeOK, Locked
  PROVE  frames = << >> /\ frames' = << >> /\ status' = "NOT_ENTERED"
BY DEF TypeOK, Locked, NotEntered

\* The frame that runs is the only one.
LEMMA RunningShape ==
  ASSUME TypeOK, OneCall, NEW op, NEW stage, Running(op, stage)
  PROVE  /\ frames # << >> /\ frames = <<frames[1]>> /\ frames[1] \in Frame
         /\ frames[1].op = op /\ frames[1].stage = stage
BY DEF OneCall, Running

LEMMA SwapFrameRuns ==
  ASSUME TypeOK, OneCall, NEW stage, Running("swap", stage)
  PROVE  frames[1] \in SwapFrame
BY RunningShape DEF Frame, SwapFrame, JoinOrExitFrame, LoanFrame

LEMMA JoinOrExitFrameRuns ==
  ASSUME TypeOK, OneCall, NEW op \in {"join", "exit"}, Running(op, "onJoinOrExit")
  PROVE  frames[1] \in JoinOrExitFrame
BY RunningShape DEF Frame, SwapFrame, JoinOrExitFrame, LoanFrame

LEMMA LoanFrameRuns ==
  ASSUME TypeOK, OneCall, Running("loan", "receiveFlashLoan")
  PROVE  frames[1] \in LoanFrame
BY RunningShape DEF Frame, SwapFrame, JoinOrExitFrame, LoanFrame

-----------------------------------------------------------------------------
\* What follows for the call stack of the next state.

LEMMA NoFrameNext ==
  ASSUME frames' = << >>
  PROVE  OneCall' /\ ReadsHavePool' /\ ReadsAreFresh'
BY DEF OneCall, ReadsHavePool, ReadsAreFresh

\* What reading a balance in the next state gives.
NewRead(p, t) == [cash |-> cash'[p][t], managed |-> managed'[p][t]]

LEMMA SwapFrameNext ==
  ASSUME NEW f \in SwapFrame, frames' = <<f>>,
         IF f.stage = "onSwap"
         THEN f.pool \in Pools /\ f.in \in Tokens /\ f.out \in Tokens /\ DOMAIN f.read = {f.in, f.out}
         ELSE DOMAIN f.read = {},
         \A t \in DOMAIN f.read : t \in registered'[f.pool] /\ f.read[t] = NewRead(f.pool, t)
  PROVE  OneCall' /\ ReadsHavePool' /\ ReadsAreFresh'
<1>1. OneCall'  BY DEF OneCall, Frame
<1>2. ReadsHavePool'  BY DEF ReadsHavePool
<1>3. DOMAIN frames' = {1} /\ frames'[1] = f  OBVIOUS
<1>4. ReadsAreFresh'  BY <1>3 DEF ReadsAreFresh, Read, NewRead
<1> QED BY <1>1, <1>2, <1>4

LEMMA JoinOrExitFrameNext ==
  ASSUME NEW f \in JoinOrExitFrame, frames' = <<f>>,
         \A t \in DOMAIN f.read : t \in registered'[f.pool] /\ f.read[t] = NewRead(f.pool, t)
  PROVE  OneCall' /\ ReadsHavePool' /\ ReadsAreFresh'
<1>1. OneCall'  BY DEF OneCall, Frame
<1>2. ReadsHavePool'  BY DEF ReadsHavePool, JoinOrExitFrame, SwapFrame
<1>3. DOMAIN frames' = {1} /\ frames'[1] = f  OBVIOUS
<1>4. ReadsAreFresh'  BY <1>3 DEF ReadsAreFresh, Read, NewRead
<1> QED BY <1>1, <1>2, <1>4

LEMMA LoanFrameNext ==
  ASSUME NEW f \in LoanFrame, frames' = <<f>>
  PROVE  OneCall' /\ ReadsHavePool' /\ ReadsAreFresh'
<1>1. OneCall'  BY DEF OneCall, Frame
<1>2. ReadsHavePool'  BY DEF ReadsHavePool, LoanFrame, SwapFrame
<1>3. DOMAIN frames' = {1} /\ frames'[1] = f /\ f.op = "loan"  BY DEF LoanFrame
<1>4. ReadsAreFresh'  BY <1>3 DEF ReadsAreFresh
<1> QED BY <1>1, <1>2, <1>4

\* What the running frame has read is what is in the books.
LEMMA RunningIsFresh ==
  ASSUME TypeOK, OneCall, ReadsAreFresh, frames # << >>, frames[1].op # "loan"
  PROVE  \A t \in DOMAIN frames[1].read :
           /\ t \in registered[frames[1].pool]
           /\ frames[1].read[t] = Read(frames[1].pool, t)
<1>1. 1 \in DOMAIN frames  BY DEF OneCall
<1> QED BY <1>1 DEF ReadsAreFresh

-----------------------------------------------------------------------------
\* Writing the books.

LEMMA WriteBackBooks ==
  ASSUME BooksTypeOK, OnlyRegisteredTokensHaveBalance, UNCHANGED registered,
         NEW f, f.pool \in Pools, f.read \in ReadBalances,
         \A t \in DOMAIN f.read : t \in registered[f.pool],
         NEW delta, \A t \in DOMAIN f.read : delta[t] \in Int,
         WriteBack(f, delta)
  PROVE  BooksTypeOK' /\ OnlyRegisteredTokensHaveBalance'
<1> DEFINE c == [t \in Tokens |-> IF t \in DOMAIN f.read THEN f.read[t].cash + delta[t]
                                                      ELSE cash[f.pool][t]]
           m == [t \in Tokens |-> IF t \in DOMAIN f.read THEN f.read[t].managed
                                                      ELSE managed[f.pool][t]]
<1>1. cash' = [cash EXCEPT ![f.pool] = c] /\ managed' = [managed EXCEPT ![f.pool] = m]
  BY DEF WriteBack, BooksTypeOK
<1>2. \A t \in DOMAIN f.read : f.read[t].cash \in Nat /\ f.read[t].managed \in Nat
  BY DEF ReadBalances, Balance
<1>3. \A t \in DOMAIN f.read : /\ f.read[t].cash + delta[t] >= 0
                               /\ f.read[t].cash + delta[t] + f.read[t].managed <= MaxBalance
  BY DEF WriteBack, Fits
<1>4. \A t \in Tokens : c[t] \in Nat /\ m[t] \in Nat /\ c[t] + m[t] <= MaxBalance
  BY <1>2, <1>3 DEF BooksTypeOK
<1>5. \A t \in Tokens : c[t] # 0 \/ m[t] # 0 => t \in registered[f.pool]
  BY DEF OnlyRegisteredTokensHaveBalance
<1>6. c \in [Tokens -> Nat] /\ m \in [Tokens -> Nat]  BY <1>4
<1> HIDE DEF c, m
<1>7. BooksTypeOK'  BY <1>1, <1>4, <1>6 DEF BooksTypeOK
<1>8. OnlyRegisteredTokensHaveBalance'
  BY <1>1, <1>5 DEF BooksTypeOK, OnlyRegisteredTokensHaveBalance
<1> QED BY <1>7, <1>8

\* Two balances of one registered token are replaced.
LEMMA SetBalanceBooks ==
  ASSUME BooksTypeOK, OnlyRegisteredTokensHaveBalance, UNCHANGED registered,
         NEW p \in Pools, NEW t \in registered[p], NEW c \in Int, NEW m \in Int, Fits(c, m),
         cash' = [cash EXCEPT ![p] = [cash[p] EXCEPT ![t] = c]],
         managed' = [managed EXCEPT ![p] = [managed[p] EXCEPT ![t] = m]]
  PROVE  BooksTypeOK' /\ OnlyRegisteredTokensHaveBalance'
<1> DEFINE cs == [cash[p] EXCEPT ![t] = c]
           ms == [managed[p] EXCEPT ![t] = m]
<1>1. t \in Tokens /\ c \in Nat /\ m \in Nat /\ c + m <= MaxBalance  BY DEF BooksTypeOK, Fits
<1>2. cs \in [Tokens -> Nat] /\ ms \in [Tokens -> Nat]  BY <1>1 DEF BooksTypeOK
<1>3. \A u \in Tokens : cs[u] + ms[u] <= MaxBalance  BY <1>1 DEF BooksTypeOK
<1>4. \A u \in Tokens : cs[u] # 0 \/ ms[u] # 0 => u \in registered[p]
  BY <1>1 DEF OnlyRegisteredTokensHaveBalance, BooksTypeOK
<1> HIDE DEF cs, ms
<1>5. cash' = [cash EXCEPT ![p] = cs] /\ managed' = [managed EXCEPT ![p] = ms]
  BY DEF cs, ms
<1>6. BooksTypeOK'  BY <1>2, <1>3, <1>5 DEF BooksTypeOK
<1>7. OnlyRegisteredTokensHaveBalance'
  BY <1>4, <1>5 DEF BooksTypeOK, OnlyRegisteredTokensHaveBalance
<1> QED BY <1>6, <1>7

LEMMA SameBooks ==
  ASSUME BooksTypeOK, OnlyRegisteredTokensHaveBalance, UNCHANGED books
  PROVE  BooksTypeOK' /\ OnlyRegisteredTokensHaveBalance'
BY DEF BooksTypeOK, OnlyRegisteredTokensHaveBalance, books

-----------------------------------------------------------------------------
\* Moving funds.

TokenFunds == [internal : [Accounts -> Int], tokens : [Holders -> Int]]

LEMMA FundsOfType == ASSUME FundsTypeOK, NEW t \in Tokens PROVE FundsOf(t) \in TokenFunds
<1>1. internalBalance[t] \in [Accounts -> Int] /\ balanceOf[t] \in [Holders -> Int]
  BY DEF FundsTypeOK
<1> QED BY <1>1 DEF FundsOf, TokenFunds

LEMMA TransferredType ==
  ASSUME NEW f \in TokenFunds, NEW from \in Holders, NEW to \in Holders, NEW amount \in Int
  PROVE  Transferred(f, from, to, amount) \in TokenFunds
<1> DEFINE b == [f.tokens EXCEPT ![from] = @ - amount, ![to] = @ + amount]
<1>1. f.tokens \in [Holders -> Int]  BY DEF TokenFunds
<1>2. b \in [Holders -> Int]  BY <1>1
<1> HIDE DEF b
<1>3. Transferred(f, from, to, amount) = [internal |-> f.internal, tokens |-> b]
  BY DEF Transferred, b
<1> QED BY <1>2, <1>3 DEF TokenFunds

LEMMA CreditedType ==
  ASSUME NEW f \in TokenFunds, NEW account \in Accounts, NEW amount \in Int
  PROVE  Credited(f, account, amount) \in TokenFunds
<1> DEFINE b == [f.internal EXCEPT ![account] = @ + amount]
<1>1. f.internal \in [Accounts -> Int]  BY DEF TokenFunds
<1>2. b \in [Accounts -> Int]  BY <1>1
<1>3. Credited(f, account, amount) = [f EXCEPT !.internal = b]
  BY DEF Credited, TokenFunds
<1> HIDE DEF b
<1> QED BY <1>2, <1>3 DEF TokenFunds

LEMMA HoldersAre ==
  Accounts \subseteq Holders /\ TheVault \in Holders /\ FeesCollector \in Holders
BY DEF Holders

LEMMA ReceivedType ==
  ASSUME NEW f \in TokenFunds, NEW amount \in Int, NEW sender \in Accounts,
         NEW fromInternalBalance \in BOOLEAN
  PROVE  Received(f, amount, sender, fromInternalBalance) \in TokenFunds
<1> DEFINE d == IF ~fromInternalBalance THEN 0
                ELSE IF f.internal[sender] < amount THEN f.internal[sender] ELSE amount
<1>1. d \in Int  BY DEF TokenFunds
<1> HIDE DEF d
<1>2. Credited(f, sender, -d) \in TokenFunds  BY <1>1, CreditedType
<1>3. RestToTransfer(amount, d) \in Int  BY <1>1 DEF RestToTransfer
<1>4. Transferred(Credited(f, sender, -d), sender, TheVault, RestToTransfer(amount, d)) \in TokenFunds
  BY <1>2, <1>3, TransferredType, HoldersAre
<1> QED BY <1>4 DEF Received, d

LEMMA SentType ==
  ASSUME NEW f \in TokenFunds, NEW amount \in Int, NEW recipient \in Accounts,
         NEW toInternalBalance \in BOOLEAN
  PROVE  Sent(f, amount, recipient, toInternalBalance) \in TokenFunds
BY CreditedType, TransferredType, HoldersAre DEF Sent

LEMMA FeePaidType ==
  ASSUME NEW f \in TokenFunds, NEW amount \in Int
  PROVE  FeePaid(f, amount) \in TokenFunds
BY TransferredType, HoldersAre DEF FeePaid

LEMMA SetFundsType ==
  ASSUME FundsTypeOK, NEW funds \in [Tokens -> TokenFunds], SetFunds(funds),
         unclaimed' \in [Tokens -> Int]
  PROVE  FundsTypeOK'
<1>1. \A t \in Tokens : funds[t].internal \in [Accounts -> Int] /\ funds[t].tokens \in [Holders -> Int]
  BY DEF TokenFunds
<1>2. \A t \in Tokens : funds[t].internal \in [Accounts -> Nat] /\ funds[t].tokens \in [Holders -> Nat]
  BY <1>1 DEF SetFunds
<1> QED BY <1>2 DEF SetFunds, FundsTypeOK

\* The funds of one token change.
LEMMA SetOneType ==
  ASSUME FundsTypeOK, NEW t \in Tokens, NEW f \in TokenFunds,
         SetFunds([Funds EXCEPT ![t] = f]), unclaimed' \in [Tokens -> Int]
  PROVE  FundsTypeOK'
<1>1. Funds \in [Tokens -> TokenFunds]  BY FundsOfType DEF Funds
<1>2. [Funds EXCEPT ![t] = f] \in [Tokens -> TokenFunds]  BY <1>1
<1> QED BY <1>2, SetFundsType

-----------------------------------------------------------------------------
\* Calls that need no frame: the call stack is empty before and after.

LEMMA LockedStep ==
  ASSUME VaultInv, Locked, now' \in Nat, paused' \in BOOLEAN, BooksTypeOK', FundsTypeOK',
         OnlyRegisteredTokensHaveBalance'
  PROVE  VaultInv'
<1>1. frames' = << >> /\ status' = "NOT_ENTERED"  BY LockedShape DEF VaultInv
<1>2. TypeOK'  BY <1>1 DEF TypeOK
<1> QED BY <1>1, <1>2, NoFrameNext DEF VaultInv

\* Nothing but the books changes.
LEMMA SameFunds ==
  ASSUME FundsTypeOK, UNCHANGED <<internalBalance, balanceOf, unclaimed>>
  PROVE  FundsTypeOK'
BY DEF FundsTypeOK

LEMMA RegistrationStep ==
  ASSUME VaultInv, NEW p \in Pools, NEW tokens \in SUBSET Tokens,
         RegisterTokens(p, tokens) \/ DeregisterTokens(p, tokens)
  PROVE  VaultInv'
<1> USE DEF VaultInv
<1>1. FundsTypeOK'  BY SameFunds DEF TypeOK, RegisterTokens, DeregisterTokens
<1>2. now' \in Nat /\ paused' \in BOOLEAN
  BY DEF TypeOK, RegisterTokens, DeregisterTokens, pauseVars
<1>3. CASE RegisterTokens(p, tokens)
  <2>1. BooksTypeOK'  BY <1>3 DEF TypeOK, BooksTypeOK, RegisterTokens
  <2>2. OnlyRegisteredTokensHaveBalance'
    BY <1>3 DEF TypeOK, BooksTypeOK, RegisterTokens, OnlyRegisteredTokensHaveBalance
  <2> QED BY <1>1, <1>2, <1>3, <2>1, <2>2, LockedStep DEF RegisterTokens
<1>4. CASE DeregisterTokens(p, tokens)
  <2>1. BooksTypeOK'  BY <1>4 DEF TypeOK, BooksTypeOK, DeregisterTokens
  <2>2. OnlyRegisteredTokensHaveBalance'
    BY <1>4 DEF TypeOK, BooksTypeOK, DeregisterTokens, HasNoBalance, OnlyRegisteredTokensHaveBalance
  <2> QED BY <1>1, <1>2, <1>4, <2>1, <2>2, LockedStep DEF DeregisterTokens
<1> QED BY <1>3, <1>4

LEMMA UserBalanceOpStep ==
  ASSUME VaultInv, NEW t \in Tokens, NEW kind, NEW f \in TokenFunds, UserBalanceOp(t, kind, f)
  PROVE  VaultInv'
<1> USE DEF VaultInv
<1>1. UNCHANGED books /\ unclaimed' \in [Tokens -> Int] /\ now' \in Nat /\ paused' \in BOOLEAN
  BY DEF UserBalanceOp, TypeOK, FundsTypeOK, pauseVars
<1>2. BooksTypeOK' /\ OnlyRegisteredTokensHaveBalance'  BY <1>1, SameBooks DEF TypeOK
<1>3. FundsTypeOK'  BY <1>1, SetOneType DEF UserBalanceOp, TypeOK
<1> QED BY <1>1, <1>2, <1>3, LockedStep DEF UserBalanceOp

LEMMA UserBalanceStep == ASSUME VaultInv, UserBalanceNext PROVE VaultInv'
<1>1. PICK t \in Tokens, sender \in Accounts, recipient \in Accounts, amount \in Amounts :
        \/ DepositInternal(t, sender, recipient, amount)
        \/ WithdrawInternal(t, sender, recipient, amount)
        \/ TransferInternal(t, sender, recipient, amount)
        \/ TransferExternal(t, sender, recipient, amount)
  BY DEF UserBalanceNext
<1>2. amount \in Int /\ -amount \in Int  BY VaultAssumption
<1>3. FundsOf(t) \in TokenFunds  BY FundsOfType DEF VaultInv, TypeOK
<1>4. Credited(FundsOf(t), recipient, amount) \in TokenFunds  BY <1>2, <1>3, CreditedType
<1>5. Credited(FundsOf(t), sender, -amount) \in TokenFunds  BY <1>2, <1>3, CreditedType
<1>6. Received(Credited(FundsOf(t), recipient, amount), amount, sender, FALSE) \in TokenFunds
  BY <1>2, <1>4, ReceivedType
<1>7. Sent(Credited(FundsOf(t), sender, -amount), amount, recipient, FALSE) \in TokenFunds
  BY <1>2, <1>5, SentType
<1>8. Credited(Credited(FundsOf(t), sender, -amount), recipient, amount) \in TokenFunds
  BY <1>2, <1>5, CreditedType
<1>9. Transferred(FundsOf(t), sender, recipient, amount) \in TokenFunds
  BY <1>2, <1>3, TransferredType, HoldersAre
<1> QED BY <1>1, <1>6, <1>7, <1>8, <1>9, UserBalanceOpStep
        DEF DepositInternal, WithdrawInternal, TransferInternal, TransferExternal

LEMMA ManageStep ==
  ASSUME VaultInv, NEW p \in Pools, NEW t \in Tokens, NEW amount \in Amounts,
         \/ WithdrawPoolBalance(p, t, amount)
         \/ DepositPoolBalance(p, t, amount)
         \/ UpdateManagedBalance(p, t, amount)
  PROVE  VaultInv'
<1> USE DEF VaultInv
<1> DEFINE Managed(c, m) ==
      /\ Fits(c, m) /\ c \in Int /\ m \in Int
      /\ cash' = [cash EXCEPT ![p] = [cash[p] EXCEPT ![t] = c]]
      /\ managed' = [managed EXCEPT ![p] = [managed[p] EXCEPT ![t] = m]]
<1>1. Locked /\ t \in registered[p] /\ UNCHANGED registered /\ now' \in Nat /\ paused' \in BOOLEAN
  BY DEF WithdrawPoolBalance, DepositPoolBalance, UpdateManagedBalance, ManagePoolBalance,
         TypeOK, pauseVars
<1>2. cash[p][t] \in Int /\ managed[p][t] \in Int /\ amount \in Int
  BY VaultAssumption DEF TypeOK, BooksTypeOK
<1>3. \E c, m : Managed(c, m)
  <2>1. CASE WithdrawPoolBalance(p, t, amount)
    <3>1. Managed(cash[p][t] - amount, managed[p][t] + amount)
      BY <1>2, <2>1 DEF WithdrawPoolBalance, TypeOK, BooksTypeOK
    <3> QED BY <3>1
  <2>2. CASE DepositPoolBalance(p, t, amount)
    <3>1. Managed(cash[p][t] + amount, managed[p][t] - amount)
      BY <1>2, <2>2 DEF DepositPoolBalance, TypeOK, BooksTypeOK
    <3> QED BY <3>1
  <2>3. CASE UpdateManagedBalance(p, t, amount)
    <3>1. Managed(cash[p][t], amount)
      BY <1>2, <2>3 DEF UpdateManagedBalance, TypeOK, BooksTypeOK
    <3> QED BY <3>1
  <2> QED BY <2>1, <2>2, <2>3
<1>4. BooksTypeOK' /\ OnlyRegisteredTokensHaveBalance'
  BY <1>1, <1>3, SetBalanceBooks DEF TypeOK
<1>5. FundsTypeOK'
  <2>1. AssetManagerOf[p] \in Holders  BY VaultAssumption, HoldersAre
  <2>2. FundsOf(t) \in TokenFunds  BY FundsOfType DEF TypeOK
  <2>3. /\ Transferred(FundsOf(t), TheVault, AssetManagerOf[p], amount) \in TokenFunds
        /\ Transferred(FundsOf(t), AssetManagerOf[p], TheVault, amount) \in TokenFunds
    BY <1>2, <2>1, <2>2, TransferredType, HoldersAre
  <2>4. Funds[t] = FundsOf(t) /\ DOMAIN Funds = Tokens  BY DEF Funds
  <2>5. CASE WithdrawPoolBalance(p, t, amount)
    BY <2>3, <2>4, <2>5, SetOneType DEF WithdrawPoolBalance, TypeOK, FundsTypeOK
  <2>6. CASE DepositPoolBalance(p, t, amount)
    BY <2>3, <2>4, <2>6, SetOneType DEF DepositPoolBalance, TypeOK, FundsTypeOK
  <2>7. CASE UpdateManagedBalance(p, t, amount)
    BY <2>7, SameFunds DEF UpdateManagedBalance, TypeOK
  <2> QED BY <2>5, <2>6, <2>7
<1> QED BY <1>1, <1>4, <1>5, LockedStep

LEMMA SetPausedStep ==
  ASSUME VaultInv, NEW newPaused \in BOOLEAN, SetPaused(newPaused)
  PROVE  VaultInv'
<1> USE DEF VaultInv
<1>1. BooksTypeOK' /\ OnlyRegisteredTokensHaveBalance'  BY SameBooks DEF TypeOK, SetPaused
<1>2. FundsTypeOK'
  <2>1. UNCHANGED unclaimed  BY DEF SetPaused
  <2> QED BY <2>1, SameFunds DEF TypeOK, SetPaused
<1> QED BY <1>1, <1>2, LockedStep DEF SetPaused, SetPausedFlag, TypeOK

-----------------------------------------------------------------------------
\* What happens beside the Vault: nothing of a call in progress changes.

LEMMA OutsideStep ==
  ASSUME VaultInv, UNCHANGED <<status, frames, books>>, now' \in Nat, paused' \in BOOLEAN,
         FundsTypeOK'
  PROVE  VaultInv'
<1> USE DEF VaultInv
<1>1. BooksTypeOK' /\ OnlyRegisteredTokensHaveBalance'  BY SameBooks DEF TypeOK
<1>2. TypeOK'  BY <1>1 DEF TypeOK
<1>3. OneCall' /\ ReadsHavePool'  BY DEF OneCall, ReadsHavePool
<1>4. ReadsAreFresh'  BY DEF ReadsAreFresh, Read, books
<1> QED BY <1>1, <1>2, <1>3, <1>4

LEMMA TransfersAndTimeStep == ASSUME VaultInv, TransfersAndTime PROVE VaultInv'
<1> USE DEF VaultInv
<1>1. ASSUME NEW t \in Tokens, NEW from \in Accounts, NEW to \in Accounts \cup {TheVault},
             NEW amount \in Amounts, TransferToken(t, from, to, amount)
      PROVE  VaultInv'
  <2>1. from \in Holders /\ to \in Holders /\ amount \in Int  BY VaultAssumption, HoldersAre
  <2>2. Transferred(FundsOf(t), from, to, amount) \in TokenFunds
    BY <2>1, FundsOfType, TransferredType DEF TypeOK
  <2>3. unclaimed' \in [Tokens -> Int]  BY <1>1, <2>1 DEF TransferToken, TypeOK, FundsTypeOK
  <2>4. Funds[t] = FundsOf(t) /\ DOMAIN Funds = Tokens  BY DEF Funds
  <2>5. FundsTypeOK'  BY <1>1, <2>2, <2>3, <2>4, SetOneType DEF TransferToken, TypeOK
  <2> QED BY <1>1, <2>5, OutsideStep DEF TransferToken, TypeOK, pauseVars
<1>2. ASSUME NEW t \in Tokens, NEW recipient \in Accounts, NEW amount \in Amounts,
             WithdrawCollectedFees(t, recipient, amount)
      PROVE  VaultInv'
  <2>1. recipient \in Holders /\ amount \in Int  BY VaultAssumption, HoldersAre
  <2>2. Transferred(FundsOf(t), FeesCollector, recipient, amount) \in TokenFunds
    BY <2>1, FundsOfType, TransferredType, HoldersAre DEF TypeOK
  <2>3. Funds[t] = FundsOf(t) /\ DOMAIN Funds = Tokens  BY DEF Funds
  <2>4. FundsTypeOK'
    BY <1>2, <2>2, <2>3, SetOneType DEF WithdrawCollectedFees, TypeOK, FundsTypeOK
  <2> QED BY <1>2, <2>4, OutsideStep DEF WithdrawCollectedFees, TypeOK, pauseVars
<1>3. CASE TimePasses
  <2>1. FundsTypeOK'  BY <1>3, SameFunds DEF TimePasses, vaultVars, TypeOK
  <2> QED BY <1>3, <2>1, OutsideStep DEF TimePasses, Tick, vaultVars, books, TypeOK
<1> QED BY <1>1, <1>2, <1>3 DEF TransfersAndTime

-----------------------------------------------------------------------------
\* Swaps.

LEMMA NoReads == << >> \in ReadBalances /\ DOMAIN << >> = {}
<1>1. << >> \in [{} -> Balance]  OBVIOUS
<1> QED BY <1>1 DEF ReadBalances

LEMMA ReadFields ==
  ASSUME NEW p, NEW t
  PROVE  Read(p, t).cash = cash[p][t] /\ Read(p, t).managed = managed[p][t]
BY DEF Read

LEMMA ReadType ==
  ASSUME BooksTypeOK, NEW p \in Pools, NEW S \in SUBSET Tokens
  PROVE  [t \in S |-> Read(p, t)] \in ReadBalances
<1>1. \A t \in S : Read(p, t) \in Balance  BY DEF BooksTypeOK, Read, Balance
<1>2. [t \in S |-> Read(p, t)] \in [S -> Balance]  BY <1>1
<1> QED BY <1>2 DEF ReadBalances

\* A step of a call that leaves the books alone.
LEMMA CallStep ==
  ASSUME VaultInv, UNCHANGED <<pauseVars, books>>, FundsTypeOK',
         status' = IF frames' = << >> THEN "NOT_ENTERED" ELSE "ENTERED",
         OneCall' /\ ReadsHavePool' /\ ReadsAreFresh'
  PROVE  VaultInv'
BY SameBooks DEF VaultInv, TypeOK, pauseVars

LEMMA StartSwapStep == ASSUME VaultInv, NEW hops \in 1 .. MaxHops, StartSwap(hops) PROVE VaultInv'
<1> DEFINE f == [op |-> "swap", stage |-> "ready", hops |-> hops, pool |-> NoPool, in |-> NoToken,
                 out |-> NoToken, read |-> << >>, deltas |-> Zero]
<1> USE DEF VaultInv
<1>1. Enter(f)  BY DEF StartSwap
<1>2. f \in SwapFrame
  <2>1. Zero \in [Tokens -> Int]  BY DEF Zero
  <2> QED BY <2>1, NoReads DEF SwapFrame
<1>3. f.stage = "ready" /\ DOMAIN f.read = {}  BY NoReads
<1> HIDE DEF f
<1>4. frames' = <<f>> /\ status' = "ENTERED"  BY <1>1, EnterShape
<1>5. OneCall' /\ ReadsHavePool' /\ ReadsAreFresh'  BY <1>2, <1>3, <1>4, SwapFrameNext
<1>6. FundsTypeOK'  BY SameFunds DEF StartSwap, TypeOK
<1> QED BY <1>4, <1>5, <1>6, CallStep DEF StartSwap

Asked(f, p, tokenIn, tokenOut, read) ==
  [f EXCEPT !.stage = "onSwap", !.hops = @ - 1, !.pool = p, !.in = tokenIn, !.out = tokenOut,
            !.read = read]

LEMMA AskedFrame ==
  ASSUME NEW f \in SwapFrame, NEW p \in Pools, NEW tokenIn \in Tokens, NEW tokenOut \in Tokens,
         NEW read \in ReadBalances
  PROVE  LET g == Asked(f, p, tokenIn, tokenOut, read) IN
         /\ g \in SwapFrame
         /\ g.stage = "onSwap" /\ g.pool = p /\ g.in = tokenIn /\ g.out = tokenOut /\ g.read = read
<1> DEFINE g1 == [f EXCEPT !.stage = "onSwap", !.hops = @ - 1, !.pool = p]
           g2 == [g1 EXCEPT !.in = tokenIn, !.out = tokenOut, !.read = read]
<1>1. f.hops - 1 \in Int  BY DEF SwapFrame
<1>2. g1 \in SwapFrame /\ g1.stage = "onSwap" /\ g1.pool = p  BY <1>1 DEF SwapFrame
<1>3. Asked(f, p, tokenIn, tokenOut, read) = g2  BY DEF Asked
<1> HIDE DEF g1
<1>4. /\ g2 \in SwapFrame
      /\ g2.stage = "onSwap" /\ g2.pool = p /\ g2.in = tokenIn /\ g2.out = tokenOut
      /\ g2.read = read
  BY <1>2 DEF SwapFrame
<1> HIDE DEF g2
<1> QED BY <1>3, <1>4

LEMMA AskPoolStep ==
  ASSUME VaultInv, NEW p \in Pools, NEW tokenIn \in Tokens, NEW tokenOut \in Tokens,
         AskPool(p, tokenIn, tokenOut)
  PROVE  VaultInv'
<1> USE DEF VaultInv
<1> DEFINE f == frames[1]
           read == [t \in {tokenIn, tokenOut} |-> Read(p, t)]
           g == Asked(f, p, tokenIn, tokenOut, read)
<1>1. Running("swap", "ready") /\ Continue(g)  BY DEF AskPool, Asked
<1>2. f \in SwapFrame  BY <1>1, SwapFrameRuns
<1>3. frames # << >>  BY <1>1 DEF Running
<1>4. read \in ReadBalances /\ DOMAIN read = {tokenIn, tokenOut}  BY ReadType DEF TypeOK
<1>5. \A t \in DOMAIN read : t \in registered'[p] /\ read[t] = NewRead(p, t)
  BY DEF AskPool, Read, NewRead, books
<1> HIDE DEF f, read
<1>6. /\ g \in SwapFrame
      /\ g.stage = "onSwap" /\ g.pool = p /\ g.in = tokenIn /\ g.out = tokenOut /\ g.read = read
  BY <1>2, <1>4, AskedFrame
<1> HIDE DEF g
<1>8. frames' = <<g>> /\ status' = "ENTERED"  BY <1>1, <1>3, ContinueShape
<1>9. OneCall' /\ ReadsHavePool' /\ ReadsAreFresh'
  BY <1>4, <1>5, <1>6, <1>8, SwapFrameNext
<1>10. FundsTypeOK'  BY SameFunds DEF AskPool, TypeOK
<1> QED BY <1>8, <1>9, <1>10, CallStep DEF AskPool

LEMMA PoolAnswersStep ==
  ASSUME VaultInv, NEW amountIn \in SwapAmounts, NEW amountOut \in SwapAmounts,
         PoolAnswers(amountIn, amountOut)
  PROVE  VaultInv'
<1> USE DEF VaultInv
<1> DEFINE f == frames[1]
           delta == [t \in {f.in, f.out} |-> IF t = f.in THEN amountIn ELSE -amountOut]
           deltas == [f.deltas EXCEPT ![f.in] = @ + amountIn, ![f.out] = @ - amountOut]
           g == [f EXCEPT !.stage = "ready", !.read = << >>, !.deltas = deltas]
<1>1. Running("swap", "onSwap") /\ WriteBack(f, delta) /\ Continue(g)  BY DEF PoolAnswers
<1>2. f \in SwapFrame /\ f.stage = "onSwap" /\ f.op = "swap" /\ frames = <<f>>
  BY <1>1, SwapFrameRuns, RunningShape
<1>3. f.pool \in Pools /\ f.in \in Tokens /\ f.out \in Tokens /\ DOMAIN f.read = {f.in, f.out}
  BY <1>2 DEF ReadsHavePool
<1>4. amountIn \in Int /\ amountOut \in Int /\ -amountOut \in Int  BY VaultAssumption
<1>5. \A t \in DOMAIN f.read : t \in registered[f.pool]  BY SMTT(30), <1>2, RunningIsFresh
<1>6. \A t \in DOMAIN f.read : delta[t] \in Int  BY <1>3, <1>4
<1>7. f.deltas \in [Tokens -> Int] /\ f.read \in ReadBalances  BY <1>2 DEF SwapFrame
<1>8. deltas \in [Tokens -> Int]  BY <1>3, <1>4, <1>7
<1> HIDE DEF f, delta, deltas
<1>9. UNCHANGED registered  BY DEF PoolAnswers
<1>10. BooksTypeOK' /\ OnlyRegisteredTokensHaveBalance'
  BY <1>1, <1>3, <1>5, <1>6, <1>7, <1>9, WriteBackBooks DEF TypeOK
<1>11. g \in SwapFrame  BY <1>2, <1>8, NoReads DEF SwapFrame
<1>12. g.stage = "ready" /\ g.read = << >>  BY <1>2 DEF SwapFrame
<1> HIDE DEF g
<1>13. frames' = <<g>> /\ status' = "ENTERED"  BY <1>1, <1>2, ContinueShape
<1>14. OneCall' /\ ReadsHavePool' /\ ReadsAreFresh'
  BY <1>11, <1>12, <1>13, NoReads, SwapFrameNext
<1>15. FundsTypeOK' /\ UNCHANGED pauseVars  BY SameFunds DEF PoolAnswers, TypeOK
<1>16. TypeOK'  BY <1>10, <1>13, <1>15 DEF TypeOK, pauseVars
<1> QED BY <1>10, <1>14, <1>16

LEMMA EndSwapStep ==
  ASSUME VaultInv, NEW sender \in Accounts, NEW recipient \in Accounts,
         NEW fromInternal \in BOOLEAN, NEW toInternal \in BOOLEAN,
         EndSwap(sender, recipient, fromInternal, toInternal)
  PROVE  VaultInv'
<1> USE DEF VaultInv
<1> DEFINE f == frames[1]
           funds == [t \in Tokens |->
             LET delta == f.deltas[t] IN
             IF delta > 0 THEN Received(FundsOf(t), delta, sender, fromInternal)
                          ELSE Sent(FundsOf(t), -delta, recipient, toInternal)]
<1>1. Running("swap", "ready") /\ SetFunds(funds) /\ Leave  BY DEF EndSwap
<1>2. f \in SwapFrame  BY <1>1, SwapFrameRuns
<1>3. funds \in [Tokens -> TokenFunds]
  <2>1. ASSUME NEW t \in Tokens PROVE funds[t] \in TokenFunds
    <3>1. f.deltas[t] \in Int /\ -f.deltas[t] \in Int  BY <1>2 DEF SwapFrame
    <3>2. FundsOf(t) \in TokenFunds  BY FundsOfType DEF TypeOK
    <3> HIDE DEF f
    <3>3. Received(FundsOf(t), f.deltas[t], sender, fromInternal) \in TokenFunds
      BY <3>1, <3>2, ReceivedType
    <3>4. Sent(FundsOf(t), -f.deltas[t], recipient, toInternal) \in TokenFunds
      BY <3>1, <3>2, SentType
    <3> QED BY <3>3, <3>4
  <2> QED BY <2>1
<1> HIDE DEF f, funds
<1>4. frames # << >>  BY <1>1 DEF Running
<1>5. frames' = << >> /\ status' = "NOT_ENTERED"  BY <1>1, <1>4, LeaveShape
<1>6. FundsTypeOK'  BY <1>1, <1>3, SetFundsType DEF EndSwap, TypeOK, FundsTypeOK
<1> QED BY <1>5, <1>6, NoFrameNext, CallStep DEF EndSwap

-----------------------------------------------------------------------------
\* Joins and exits.

LEMMA StartJoinOrExitStep ==
  ASSUME VaultInv, NEW op \in {"join", "exit"}, NEW p \in Pools, NEW account \in Accounts,
         NEW useInternalBalance \in BOOLEAN, StartJoinOrExit(op, p, account, useInternalBalance)
  PROVE  VaultInv'
<1> DEFINE read == [t \in registered[p] |-> Read(p, t)]
           f == [op |-> op, stage |-> "onJoinOrExit", pool |-> p, account |-> account,
                 useInternalBalance |-> useInternalBalance, read |-> read, deltas |-> Zero,
                 left |-> registered[p]]
<1> USE DEF VaultInv
<1>1. Enter(f)  BY DEF StartJoinOrExit
<1>2. registered[p] \in SUBSET Tokens  BY DEF TypeOK, BooksTypeOK
<1>3. read \in ReadBalances  BY <1>2, ReadType DEF TypeOK
<1>4. \A t \in DOMAIN read : t \in registered'[p] /\ read[t] = NewRead(p, t)
  BY DEF StartJoinOrExit, Read, NewRead, books
<1> HIDE DEF read
<1>5. Zero \in [Tokens -> Int]  BY DEF Zero
<1>6. f \in JoinOrExitFrame  BY <1>2, <1>3, <1>5 DEF JoinOrExitFrame
<1>7. f.pool = p /\ f.read = read  OBVIOUS
<1> HIDE DEF f
<1>8. frames' = <<f>> /\ status' = "ENTERED"  BY <1>1, EnterShape
<1>9. OneCall' /\ ReadsHavePool' /\ ReadsAreFresh'
  BY <1>4, <1>6, <1>7, <1>8, JoinOrExitFrameNext
<1>10. FundsTypeOK'  BY SameFunds DEF StartJoinOrExit, TypeOK
<1> QED BY <1>8, <1>9, <1>10, CallStep DEF StartJoinOrExit

LEMMA JoinOrExitTransferStep ==
  ASSUME VaultInv, NEW op \in {"join", "exit"}, NEW t \in Tokens, NEW delta \in Int,
         NEW funds \in TokenFunds, JoinOrExitTransfer(op, t, delta, funds)
  PROVE  VaultInv'
<1> DEFINE f == frames[1]
           g == [f EXCEPT !.deltas[t] = delta, !.left = @ \ {t}]
<1> USE DEF VaultInv
<1>1. Running(op, "onJoinOrExit") /\ Continue(g)  BY DEF JoinOrExitTransfer
<1>2. f \in JoinOrExitFrame  BY <1>1, JoinOrExitFrameRuns
<1>3. frames # << >> /\ f.op # "loan"  BY <1>1, <1>2 DEF Running, JoinOrExitFrame
<1>4. \A u \in DOMAIN f.read : u \in registered[f.pool] /\ f.read[u] = Read(f.pool, u)
  BY <1>3, RunningIsFresh
<1> HIDE DEF f
<1>5. g \in JoinOrExitFrame /\ g.pool = f.pool /\ g.read = f.read
  <2>1. g = [[f EXCEPT !.deltas = [f.deltas EXCEPT ![t] = delta]] EXCEPT !.left = f.left \ {t}]
    BY <1>2 DEF JoinOrExitFrame
  <2>2. [f.deltas EXCEPT ![t] = delta] \in [Tokens -> Int] /\ f.left \ {t} \in SUBSET Tokens
    BY <1>2 DEF JoinOrExitFrame
  <2> QED BY <1>2, <2>1, <2>2 DEF JoinOrExitFrame
<1> HIDE DEF g
<1>6. frames' = <<g>> /\ status' = "ENTERED"  BY <1>1, <1>3, ContinueShape
<1>7. \A u \in DOMAIN g.read : u \in registered'[g.pool] /\ g.read[u] = NewRead(g.pool, u)
  BY <1>4, <1>5 DEF JoinOrExitTransfer, Read, NewRead, books
<1>8. OneCall' /\ ReadsHavePool' /\ ReadsAreFresh'  BY <1>5, <1>6, <1>7, JoinOrExitFrameNext
<1>9. FundsTypeOK'  BY SetOneType DEF JoinOrExitTransfer, TypeOK, FundsTypeOK
<1> QED BY <1>6, <1>8, <1>9, CallStep DEF JoinOrExitTransfer

LEMMA JoinAndExitTransferStep ==
  ASSUME VaultInv, NEW t \in Tokens, NEW amount \in SwapAmounts, NEW fee \in FeeAmounts,
         JoinTransfer(t, amount, fee) \/ ExitTransfer(t, amount, fee)
  PROVE  VaultInv'
<1> DEFINE f == frames[1]
<1> USE DEF VaultInv
<1>1. amount \in Int /\ fee \in Int  BY VaultAssumption
<1>2. FundsOf(t) \in TokenFunds  BY FundsOfType DEF TypeOK
<1>3. CASE JoinTransfer(t, amount, fee)
  <2>1. Running("join", "onJoinOrExit")  BY <1>3 DEF JoinTransfer, JoinOrExitTransfer
  <2>2. f.account \in Accounts /\ f.useInternalBalance \in BOOLEAN
    BY <2>1, JoinOrExitFrameRuns DEF JoinOrExitFrame
  <2> HIDE DEF f
  <2>3. Received(FundsOf(t), amount, f.account, f.useInternalBalance) \in TokenFunds
    BY <1>1, <1>2, <2>2, ReceivedType
  <2>4. FeePaid(Received(FundsOf(t), amount, f.account, f.useInternalBalance), fee) \in TokenFunds
    BY <1>1, <2>3, FeePaidType
  <2>5. amount - fee \in Int  BY <1>1
  <2> QED BY <1>3, <2>4, <2>5, JoinOrExitTransferStep DEF JoinTransfer, f
<1>4. CASE ExitTransfer(t, amount, fee)
  <2>1. Running("exit", "onJoinOrExit")  BY <1>4 DEF ExitTransfer, JoinOrExitTransfer
  <2>2. f.account \in Accounts /\ f.useInternalBalance \in BOOLEAN
    BY <2>1, JoinOrExitFrameRuns DEF JoinOrExitFrame
  <2> HIDE DEF f
  <2>3. Sent(FundsOf(t), amount, f.account, f.useInternalBalance) \in TokenFunds
    BY <1>1, <1>2, <2>2, SentType
  <2>4. FeePaid(Sent(FundsOf(t), amount, f.account, f.useInternalBalance), fee) \in TokenFunds
    BY <1>1, <2>3, FeePaidType
  <2>5. -(amount + fee) \in Int  BY <1>1
  <2> QED BY <1>4, <2>4, <2>5, JoinOrExitTransferStep DEF ExitTransfer, f
<1> QED BY <1>3, <1>4

LEMMA EndJoinOrExitStep ==
  ASSUME VaultInv, NEW op \in {"join", "exit"}, EndJoinOrExit(op)
  PROVE  VaultInv'
<1> DEFINE f == frames[1]
<1> USE DEF VaultInv
<1>1. Running(op, "onJoinOrExit") /\ WriteBack(f, f.deltas) /\ Leave  BY DEF EndJoinOrExit
<1>2. f \in JoinOrExitFrame  BY <1>1, JoinOrExitFrameRuns
<1>3. frames # << >> /\ f.op # "loan"  BY <1>1, <1>2 DEF Running, JoinOrExitFrame
<1>4. \A t \in DOMAIN f.read : t \in registered[f.pool]  BY <1>3, RunningIsFresh
<1> HIDE DEF f
<1>5. f.pool \in Pools /\ f.read \in ReadBalances  BY <1>2 DEF JoinOrExitFrame
<1>6. \A t \in DOMAIN f.read : f.deltas[t] \in Int
  <2>1. DOMAIN f.read \subseteq Tokens  BY <1>5 DEF ReadBalances
  <2> QED BY <1>2, <2>1 DEF JoinOrExitFrame
<1>7. BooksTypeOK' /\ OnlyRegisteredTokensHaveBalance'
  <2>1. UNCHANGED registered  BY DEF EndJoinOrExit
  <2>2. BooksTypeOK /\ OnlyRegisteredTokensHaveBalance  BY DEF TypeOK
  <2> DEFINE delta == f.deltas
  <2>3. WriteBack(f, delta) /\ \A t \in DOMAIN f.read : delta[t] \in Int  BY <1>1, <1>6
  <2> HIDE DEF delta
  <2> QED BY <1>4, <1>5, <2>1, <2>2, <2>3, WriteBackBooks
<1>8. frames' = << >> /\ status' = "NOT_ENTERED"  BY <1>1, <1>3, LeaveShape
<1>9. FundsTypeOK' /\ UNCHANGED pauseVars  BY SameFunds DEF EndJoinOrExit, TypeOK
<1>10. TypeOK'  BY <1>7, <1>8, <1>9 DEF TypeOK, pauseVars
<1> QED BY <1>7, <1>8, <1>10, NoFrameNext

-----------------------------------------------------------------------------
\* Flash loans.

LEMMA AmountsAreNat ==
  ASSUME NEW tokens
  PROVE  [tokens -> Amounts] \subseteq [tokens -> Nat] /\ [tokens -> FeeAmounts] \subseteq [tokens -> Nat]
BY VaultAssumption

LEMMA StartLoanStep ==
  ASSUME VaultInv, NEW recipient \in Accounts, NEW tokens \in SUBSET Tokens,
         NEW amounts \in [tokens -> Amounts], NEW fees \in [tokens -> FeeAmounts],
         StartLoan(recipient, amounts, fees)
  PROVE  VaultInv'
<1>2. /\ amounts \in [tokens -> Nat] /\ \A t \in tokens : amounts[t] \in Int
      /\ fees \in [tokens -> Nat]
  BY AmountsAreNat
<1> DEFINE before == [t \in DOMAIN amounts |-> PreLoanBalance(t, amounts[t])]
           f == [op |-> "loan", stage |-> "receiveFlashLoan", fees |-> fees, before |-> before]
           funds == [t \in Tokens |->
             IF t \in DOMAIN amounts THEN Transferred(FundsOf(t), TheVault, recipient, amounts[t])
                                     ELSE FundsOf(t)]
<1> USE DEF VaultInv
<1>1. Enter(f) /\ SetFunds(funds)  BY DEF StartLoan
<1>3. before \in UNION {[S -> Int] : S \in SUBSET Tokens}
  <2>1. \A t \in tokens : before[t] \in Int
    BY <1>2, HoldersAre DEF TypeOK, FundsTypeOK, PreLoanBalance
  <2>2. before \in [tokens -> Int]  BY <2>1
  <2> QED BY <2>2
<1>4. fees \in UNION {[S -> Nat] : S \in SUBSET Tokens}
  <2>1. fees \in [tokens -> Nat]  BY <1>2
  <2> QED BY <2>1
<1> HIDE DEF before
<1>5. f \in LoanFrame  BY <1>3, <1>4 DEF LoanFrame
<1>6. funds \in [Tokens -> TokenFunds]
  <2>1. ASSUME NEW t \in Tokens PROVE funds[t] \in TokenFunds
    <3>1. FundsOf(t) \in TokenFunds  BY FundsOfType DEF TypeOK
    <3>2. t \in tokens => Transferred(FundsOf(t), TheVault, recipient, amounts[t]) \in TokenFunds
      BY <1>2, <3>1, TransferredType, HoldersAre
    <3> QED BY <3>1, <3>2
  <2> QED BY <2>1
<1> HIDE DEF f, funds
<1>7. frames' = <<f>> /\ status' = "ENTERED"  BY <1>1, EnterShape
<1>8. OneCall' /\ ReadsHavePool' /\ ReadsAreFresh'  BY <1>5, <1>7, LoanFrameNext
<1>9. unclaimed' \in [Tokens -> Int]  BY <1>2 DEF StartLoan, TypeOK, FundsTypeOK
<1>10. FundsTypeOK'  BY <1>1, <1>6, <1>9, SetFundsType DEF TypeOK
<1> QED BY <1>7, <1>8, <1>10, CallStep DEF StartLoan

LEMMA EndLoanStep == ASSUME VaultInv, EndLoan PROVE VaultInv'
<1> DEFINE f == frames[1]
           extra(t) == IF t \in DOMAIN f.before THEN balanceOf[t][TheVault] - f.before[t] ELSE 0
           funds == [t \in Tokens |-> FeePaid(FundsOf(t), extra(t))]
<1> USE DEF VaultInv
<1>1. Running("loan", "receiveFlashLoan") /\ SetFunds(funds) /\ Leave  BY DEF EndLoan
<1>2. f \in LoanFrame  BY <1>1, LoanFrameRuns
<1>3. \A t \in Tokens : extra(t) \in Int
  BY <1>2, HoldersAre DEF LoanFrame, TypeOK, FundsTypeOK
<1>4. unclaimed' = [t \in Tokens |-> unclaimed[t] - extra(t)]  BY DEF EndLoan
<1>5. frames # << >>  BY <1>1 DEF Running
<1> HIDE DEF f, extra
<1>6. \A t \in Tokens : FeePaid(FundsOf(t), extra(t)) \in TokenFunds
  BY <1>3, FundsOfType, FeePaidType DEF TypeOK
<1>7. funds \in [Tokens -> TokenFunds]  BY <1>6
<1> HIDE DEF funds
<1>8. frames' = << >> /\ status' = "NOT_ENTERED"  BY <1>1, <1>5, LeaveShape
<1>9. unclaimed' \in [Tokens -> Int]  BY <1>3, <1>4 DEF TypeOK, FundsTypeOK
<1>10. FundsTypeOK'  BY <1>1, <1>7, <1>9, SetFundsType DEF TypeOK
<1> QED BY <1>8, <1>10, NoFrameNext, CallStep DEF EndLoan

-----------------------------------------------------------------------------
\* The invariant holds at first and is kept by every step.

LEMMA VaultInvInit == ASSUME Init PROVE VaultInv
<1>1. BooksTypeOK
  <2>1. Zero \in [Tokens -> Nat] /\ \A t \in Tokens : Zero[t] = 0  BY DEF Zero
  <2> QED BY <2>1, VaultAssumption DEF Init, BooksTypeOK
<1>2. FundsTypeOK
  <2>1. \A b \in InitialBalances : b \in [Holders -> Nat]
    BY VaultAssumption DEF InitialBalances
  <2>2. balanceOf \in [Tokens -> [Holders -> Nat]]  BY <2>1 DEF Init
  <2> QED BY <2>2 DEF Init, FundsTypeOK, Zero
<1>3. TypeOK  BY <1>1, <1>2 DEF Init, TypeOK, PauseInit
<1>4. OneCall /\ ReadsHavePool /\ ReadsAreFresh
  BY DEF Init, OneCall, ReadsHavePool, ReadsAreFresh
<1>5. OnlyRegisteredTokensHaveBalance  BY DEF Init, Zero, OnlyRegisteredTokensHaveBalance
<1> QED BY <1>3, <1>4, <1>5 DEF VaultInv

LEMMA VaultInvStutter == ASSUME VaultInv, UNCHANGED vars PROVE VaultInv'
<1>1. UNCHANGED <<status, frames, books>> /\ now' \in Nat /\ paused' \in BOOLEAN
  BY DEF VaultInv, TypeOK, vars, vaultVars, pauseVars, books
<1>2. FundsTypeOK'  BY SameFunds DEF VaultInv, TypeOK, vars, vaultVars
<1> QED BY <1>1, <1>2, OutsideStep

LEMMA VaultInvNext == ASSUME VaultInv, Next PROVE VaultInv'
<1>1. CASE SwapNext
  BY <1>1, StartSwapStep, AskPoolStep, PoolAnswersStep, EndSwapStep DEF SwapNext
<1>2. CASE JoinExitNext
  BY <1>2, StartJoinOrExitStep, JoinAndExitTransferStep, EndJoinOrExitStep DEF JoinExitNext
<1>3. CASE LoanNext
  BY <1>3, StartLoanStep, EndLoanStep DEF LoanNext
<1>4. CASE UserBalanceNext  BY <1>4, UserBalanceStep
<1>5. CASE PoolNext
  BY <1>5, RegistrationStep, ManageStep DEF PoolNext
<1>6. CASE \E newPaused \in BOOLEAN : SetPaused(newPaused)  BY <1>6, SetPausedStep
<1>7. CASE TransfersAndTime  BY <1>7, TransfersAndTimeStep
<1> QED BY <1>1, <1>2, <1>3, <1>4, <1>5, <1>6, <1>7 DEF Next

\* The Vault's lock does what it is for: at most one call is in progress, and what it has
\* read is what is stored when it writes.
THEOREM VaultInvariance == Spec => []VaultInv
<1>1. Init => VaultInv  BY VaultInvInit
<1>2. VaultInv /\ [Next]_vars => VaultInv'  BY VaultInvNext, VaultInvStutter
<1> QED BY <1>1, <1>2, PTL DEF Spec

\* Every variable keeps its type: balances fit their words together, no account goes
\* below zero, and the lock is held exactly while a call is in progress.
THEOREM TypeCorrect == Spec => []TypeOK
BY VaultInvariance, PTL DEF VaultInv

\* No update is lost: what Swaps and PoolBalances read before they hand over control is
\* still what is in storage when they write it back changed.
THEOREM ReadsStayFresh == Spec => []ReadsAreFresh
BY VaultInvariance, PTL DEF VaultInv

\* PoolTokens only deregisters tokens without a balance, and no call in progress brings
\* a balance of them back.
THEOREM BalancesOfRegisteredTokens == Spec => []OnlyRegisteredTokensHaveBalance
BY VaultInvariance, PTL DEF VaultInv

-----------------------------------------------------------------------------
\* The pause.

\* An exit in progress takes from the Pool, and no other call is in progress while paused.
ExitsTake ==
  \A f \in JoinOrExitFrame :
    frames = <<f>> /\ f.op = "exit" => \A t \in Tokens : f.deltas[t] <= 0

PausedOnlyExits == ~IsNotPaused => frames = << >> \/ frames[1].op = "exit"

PausedInv == VaultInv /\ ExitsTake /\ PausedOnlyExits

\* A call stack that stays, or that ends empty, keeps both, as the pause cannot begin
\* while a call is in progress.
LEMMA SameFramesPaused ==
  ASSUME PausedInv, UNCHANGED frames, UNCHANGED pauseVars \/ frames = << >>
  PROVE  ExitsTake' /\ PausedOnlyExits'
BY DEF PausedInv, ExitsTake, PausedOnlyExits, IsNotPaused, pauseVars

LEMMA NoFramePaused == ASSUME frames' = << >> PROVE ExitsTake' /\ PausedOnlyExits'
BY DEF ExitsTake, PausedOnlyExits

\* Calls other than exits only go on while the Vault is not paused.
LEMMA OtherFramePaused ==
  ASSUME NEW f, f.op # "exit", frames' = <<f>>, IsNotPaused, UNCHANGED pauseVars
  PROVE  ExitsTake' /\ PausedOnlyExits'
<1>1. ExitsTake'  BY DEF ExitsTake
<1>2. PausedOnlyExits'  BY DEF PausedOnlyExits, IsNotPaused, pauseVars
<1> QED BY <1>1, <1>2

LEMMA ExitFramePaused ==
  ASSUME NEW f, f.op = "exit", frames' = <<f>>, \A t \in Tokens : f.deltas[t] <= 0
  PROVE  ExitsTake' /\ PausedOnlyExits'
<1>1. frames'[1] = f  OBVIOUS
<1> QED BY <1>1 DEF ExitsTake, PausedOnlyExits

LEMMA RunsUnpaused ==
  ASSUME PausedInv, NEW op, op # "exit", NEW stage, Running(op, stage)
  PROVE  IsNotPaused
BY DEF PausedInv, PausedOnlyExits, Running

LEMMA SwapPaused == ASSUME PausedInv, SwapNext PROVE ExitsTake' /\ PausedOnlyExits'
<1> USE DEF PausedInv, VaultInv
<1>1. ASSUME NEW hops \in 1 .. MaxHops, StartSwap(hops) PROVE ExitsTake' /\ PausedOnlyExits'
  <2> DEFINE f == [op |-> "swap", stage |-> "ready", hops |-> hops, pool |-> NoPool,
                   in |-> NoToken, out |-> NoToken, read |-> << >>, deltas |-> Zero]
  <2>1. Enter(f) /\ IsNotPaused /\ UNCHANGED pauseVars  BY <1>1 DEF StartSwap
  <2>2. f.op # "exit"  OBVIOUS
  <2> HIDE DEF f
  <2> QED BY <2>1, <2>2, EnterShape, OtherFramePaused
<1>2. ASSUME NEW p \in Pools, NEW tokenIn \in Tokens, NEW tokenOut \in Tokens,
             AskPool(p, tokenIn, tokenOut)
      PROVE  ExitsTake' /\ PausedOnlyExits'
  <2> DEFINE g == [frames[1] EXCEPT !.stage = "onSwap", !.hops = @ - 1, !.pool = p,
                     !.in = tokenIn, !.out = tokenOut,
                     !.read = [t \in {tokenIn, tokenOut} |-> Read(p, t)]]
  <2>1. Running("swap", "ready") /\ Continue(g) /\ UNCHANGED pauseVars  BY <1>2 DEF AskPool
  <2>2. g.op = frames[1].op  BY <2>1, SwapFrameRuns DEF SwapFrame
  <2>3. g.op # "exit" /\ frames # << >>  BY <2>1, <2>2 DEF Running
  <2> HIDE DEF g
  <2> QED BY <2>1, <2>3, ContinueShape, OtherFramePaused, RunsUnpaused
<1>3. ASSUME NEW amountIn \in SwapAmounts, NEW amountOut \in SwapAmounts,
             PoolAnswers(amountIn, amountOut)
      PROVE  ExitsTake' /\ PausedOnlyExits'
  <2> DEFINE f == frames[1]
             deltas == [f.deltas EXCEPT ![f.in] = @ + amountIn, ![f.out] = @ - amountOut]
             g == [f EXCEPT !.stage = "ready", !.read = << >>, !.deltas = deltas]
  <2>1. Running("swap", "onSwap") /\ Continue(g) /\ UNCHANGED pauseVars
    BY <1>3 DEF PoolAnswers
  <2> HIDE DEF deltas
  <2>2. g.op = frames[1].op  BY <2>1, SwapFrameRuns DEF SwapFrame
  <2>3. g.op # "exit" /\ frames # << >>  BY <2>1, <2>2 DEF Running
  <2> HIDE DEF g
  <2> QED BY <2>1, <2>3, ContinueShape, OtherFramePaused, RunsUnpaused
<1>4. ASSUME NEW sender, NEW recipient, NEW fromInternal, NEW toInternal,
             EndSwap(sender, recipient, fromInternal, toInternal)
      PROVE  ExitsTake' /\ PausedOnlyExits'
  <2>1. frames # << >> /\ Leave  BY <1>4 DEF EndSwap, Running
  <2> QED BY <2>1, LeaveShape, NoFramePaused
<1> QED BY <1>1, <1>2, <1>3, <1>4 DEF SwapNext

LEMMA JoinExitPaused == ASSUME PausedInv, JoinExitNext PROVE ExitsTake' /\ PausedOnlyExits'
<1> USE DEF PausedInv, VaultInv
<1>1. ASSUME NEW op \in {"join", "exit"}, NEW p \in Pools, NEW account \in Accounts,
             NEW useInternalBalance \in BOOLEAN,
             StartJoinOrExit(op, p, account, useInternalBalance)
      PROVE  ExitsTake' /\ PausedOnlyExits'
  <2> DEFINE f == [op |-> op, stage |-> "onJoinOrExit", pool |-> p, account |-> account,
                   useInternalBalance |-> useInternalBalance,
                   read |-> [t \in registered[p] |-> Read(p, t)], deltas |-> Zero,
                   left |-> registered[p]]
  <2>1. Enter(f) /\ PauseAllows(op) /\ UNCHANGED pauseVars  BY <1>1 DEF StartJoinOrExit
  <2>2. f.op = op /\ \A t \in Tokens : f.deltas[t] <= 0  BY DEF Zero
  <2> HIDE DEF f
  <2>3. CASE op = "exit"  BY <2>1, <2>2, <2>3, EnterShape, ExitFramePaused
  <2>4. CASE op = "join"
    <3>1. IsNotPaused /\ f.op # "exit"  BY <2>1, <2>2, <2>4 DEF PauseAllows
    <3> QED BY <2>1, <3>1, EnterShape, OtherFramePaused
  <2> QED BY <2>3, <2>4
<1>2. ASSUME NEW op \in {"join", "exit"}, EndJoinOrExit(op) PROVE ExitsTake' /\ PausedOnlyExits'
  <2>1. frames # << >> /\ Leave  BY <1>2 DEF EndJoinOrExit, Running
  <2> QED BY <2>1, LeaveShape, NoFramePaused
<1>3. ASSUME NEW op \in {"join", "exit"}, NEW t \in Tokens, NEW delta \in Int, NEW funds,
             op = "exit" => delta <= 0, JoinOrExitTransfer(op, t, delta, funds)
      PROVE  ExitsTake' /\ PausedOnlyExits'
  <2> DEFINE f == frames[1]
             g == [f EXCEPT !.deltas[t] = delta, !.left = @ \ {t}]
  <2>1. Running(op, "onJoinOrExit") /\ Continue(g) /\ UNCHANGED pauseVars
    BY <1>3 DEF JoinOrExitTransfer
  <2>2. f \in JoinOrExitFrame /\ frames = <<f>> /\ f.op = op
    BY <2>1, JoinOrExitFrameRuns, RunningShape
  <2>3. f.op = "exit" => \A u \in Tokens : f.deltas[u] <= 0  BY <2>2 DEF ExitsTake
  <2> HIDE DEF f
  <2>4. g.op = op /\ g.deltas = [f.deltas EXCEPT ![t] = delta]
    BY <2>2 DEF JoinOrExitFrame
  <2>5. op = "exit" => \A u \in Tokens : g.deltas[u] <= 0
    BY <1>3, <2>2, <2>3, <2>4 DEF JoinOrExitFrame
  <2> HIDE DEF g
  <2>6. frames' = <<g>>  BY <2>1, <2>2, ContinueShape
  <2>7. CASE op = "exit"  BY <2>4, <2>5, <2>6, <2>7, ExitFramePaused
  <2>8. CASE op = "join"
    <3>1. op # "exit"  BY <2>8
    <3> QED BY <2>1, <2>4, <2>6, <3>1, RunsUnpaused, OtherFramePaused
  <2> QED BY <2>7, <2>8
<1>4. ASSUME NEW t \in Tokens, NEW amount \in SwapAmounts, NEW fee \in FeeAmounts,
             JoinTransfer(t, amount, fee) \/ ExitTransfer(t, amount, fee)
      PROVE  ExitsTake' /\ PausedOnlyExits'
  <2>1. amount \in Nat /\ fee \in Nat  BY VaultAssumption
  <2>2. amount - fee \in Int /\ -(amount + fee) \in Int /\ -(amount + fee) <= 0  BY <2>1
  <2> QED BY <1>3, <1>4, <2>2 DEF JoinTransfer, ExitTransfer
<1> QED BY <1>1, <1>2, <1>4 DEF JoinExitNext

LEMMA LoanPaused == ASSUME PausedInv, LoanNext PROVE ExitsTake' /\ PausedOnlyExits'
<1> USE DEF PausedInv, VaultInv
<1>1. ASSUME NEW recipient, NEW amounts, NEW fees, StartLoan(recipient, amounts, fees)
      PROVE  ExitsTake' /\ PausedOnlyExits'
  <2> DEFINE f == [op |-> "loan", stage |-> "receiveFlashLoan", fees |-> fees,
                   before |-> [t \in DOMAIN amounts |-> PreLoanBalance(t, amounts[t])]]
  <2>1. Enter(f) /\ IsNotPaused /\ UNCHANGED pauseVars  BY <1>1 DEF StartLoan
  <2>2. f.op # "exit"  OBVIOUS
  <2> HIDE DEF f
  <2> QED BY <2>1, <2>2, EnterShape, OtherFramePaused
<1>2. ASSUME EndLoan PROVE ExitsTake' /\ PausedOnlyExits'
  <2>1. frames # << >> /\ Leave  BY <1>2 DEF EndLoan, Running
  <2> QED BY <2>1, LeaveShape, NoFramePaused
<1> QED BY <1>1, <1>2 DEF LoanNext

LEMMA PausedInvNext == ASSUME PausedInv, Next PROVE PausedInv'
<1>1. VaultInv'  BY VaultInvNext DEF PausedInv
<1>2. ExitsTake' /\ PausedOnlyExits'
  <2>1. ASSUME Locked PROVE ExitsTake' /\ PausedOnlyExits'
    BY <2>1, LockedShape, NoFramePaused DEF PausedInv, VaultInv
  <2>2. CASE SwapNext  BY <2>2, SwapPaused
  <2>3. CASE JoinExitNext  BY <2>3, JoinExitPaused
  <2>4. CASE LoanNext  BY <2>4, LoanPaused
  <2>5. CASE UserBalanceNext
    BY <2>1, <2>5 DEF UserBalanceNext, DepositInternal, WithdrawInternal, TransferInternal,
       TransferExternal, UserBalanceOp
  <2>6. CASE PoolNext
    <3>1. Locked
      <4>1. \A p, tokens : RegisterTokens(p, tokens) \/ DeregisterTokens(p, tokens) => Locked
        BY DEF RegisterTokens, DeregisterTokens
      <4>2. \A p, t, amount :
              \/ WithdrawPoolBalance(p, t, amount) \/ DepositPoolBalance(p, t, amount)
              \/ UpdateManagedBalance(p, t, amount)
              => Locked
        BY DEF WithdrawPoolBalance, DepositPoolBalance, UpdateManagedBalance, ManagePoolBalance
      <4> QED BY <2>6, <4>1, <4>2 DEF PoolNext
    <3> QED BY <2>1, <3>1
  <2>7. CASE \E newPaused \in BOOLEAN : SetPaused(newPaused)  BY <2>1, <2>7 DEF SetPaused
  <2>8. CASE TransfersAndTime
    <3>1. UNCHANGED frames /\ (UNCHANGED pauseVars \/ frames = << >>)
      BY <2>8 DEF TransfersAndTime, TransferToken, WithdrawCollectedFees, TimePasses, vaultVars
    <3> QED BY <3>1, SameFramesPaused
  <2> QED BY <2>2, <2>3, <2>4, <2>5, <2>6, <2>7, <2>8 DEF Next
<1> QED BY <1>1, <1>2 DEF PausedInv

\* A call in progress while the Vault is paused is an exit, as the pause cannot begin
\* during a call.
THEOREM PausedInvariance == Spec => []PausedInv
<1>1. Init => PausedInv
  BY VaultInvInit DEF PausedInv, Init, ExitsTake, PausedOnlyExits
<1>2. PausedInv /\ [Next]_vars => PausedInv'
  <2>1. ASSUME PausedInv, UNCHANGED vars PROVE PausedInv'
    <3>1. UNCHANGED frames /\ UNCHANGED pauseVars  BY <2>1 DEF vars, vaultVars
    <3> QED BY <2>1, <3>1, VaultInvStutter, SameFramesPaused DEF PausedInv
  <2> QED BY <2>1, PausedInvNext
<1> QED BY <1>1, <1>2, PTL DEF Spec

Drains ==
  /\ \A p \in Pools, t \in Tokens : cash'[p][t] <= cash[p][t]
  /\ UNCHANGED <<managed, registered>>

LEMMA SameBooksDrain == ASSUME BooksTypeOK, UNCHANGED books PROVE Drains
BY DEF BooksTypeOK, books, Drains

\* What an exit writes back is what it read less what it took.
LEMMA EndExitDrains == ASSUME PausedInv, EndJoinOrExit("exit") PROVE Drains
<1> DEFINE f == frames[1]
           c == [t \in Tokens |-> IF t \in DOMAIN f.read THEN f.read[t].cash + f.deltas[t]
                                                      ELSE cash[f.pool][t]]
           m == [t \in Tokens |-> IF t \in DOMAIN f.read THEN f.read[t].managed
                                                      ELSE managed[f.pool][t]]
<1> USE DEF PausedInv, VaultInv
<1>1. Running("exit", "onJoinOrExit") /\ WriteBack(f, f.deltas) /\ UNCHANGED registered
  BY DEF EndJoinOrExit
<1>2. f \in JoinOrExitFrame /\ frames = <<f>> /\ f.op = "exit"
  BY <1>1, JoinOrExitFrameRuns, RunningShape
<1>3. \A t \in DOMAIN f.read : f.read[t] = Read(f.pool, t)
  <2>1. frames # << >> /\ f.op # "loan"  BY <1>1, <1>2 DEF Running
  <2> QED BY <2>1, RunningIsFresh
<1>4. \A t \in Tokens : f.deltas[t] <= 0 /\ f.deltas[t] \in Int
  BY <1>2 DEF ExitsTake, JoinOrExitFrame
<1>5. f.pool \in Pools  BY <1>2 DEF JoinOrExitFrame
<1>6. cash' = [cash EXCEPT ![f.pool] = c] /\ managed' = [managed EXCEPT ![f.pool] = m]
  BY <1>1 DEF WriteBack, TypeOK, BooksTypeOK
<1> HIDE DEF f
<1>7. \A t \in DOMAIN f.read : f.read[t].cash = cash[f.pool][t] /\ f.read[t].managed = managed[f.pool][t]
  BY <1>3, ReadFields
<1>8. \A t \in Tokens : c[t] <= cash[f.pool][t]
  <2>1. \A t \in Tokens : cash[f.pool][t] \in Nat  BY <1>5 DEF TypeOK, BooksTypeOK
  <2> QED BY <1>4, <1>7, <2>1
<1>9. m = managed[f.pool]
  <2>1. \A t \in Tokens : m[t] = managed[f.pool][t]  BY <1>7
  <2>2. managed[f.pool] \in [Tokens -> Nat]  BY <1>5 DEF TypeOK, BooksTypeOK
  <2> QED BY <2>1, <2>2
<1> HIDE DEF c, m
<1>10. managed' = managed  BY <1>6, <1>9 DEF TypeOK, BooksTypeOK
<1>11. \A p \in Pools, t \in Tokens : cash'[p][t] <= cash[p][t]
  BY <1>6, <1>8 DEF TypeOK, BooksTypeOK
<1> QED BY <1>1, <1>10, <1>11 DEF Drains

LEMMA PausedStep == ASSUME PausedInv, ~IsNotPaused, Next PROVE Drains
<1> USE DEF PausedInv, VaultInv
<1>1. ASSUME UNCHANGED books PROVE Drains  BY <1>1, SameBooksDrain DEF TypeOK
<1>2. CASE SwapNext
  <2>1. \A hops : ~StartSwap(hops)  BY DEF StartSwap
  <2>2. \A stage : ~Running("swap", stage)  BY RunsUnpaused
  <2> QED BY <1>2, <2>1, <2>2 DEF SwapNext, AskPool, PoolAnswers, EndSwap
<1>3. CASE JoinExitNext
  <2>1. ASSUME NEW op, NEW p, NEW account, NEW useInternalBalance,
               StartJoinOrExit(op, p, account, useInternalBalance)
        PROVE  Drains
    BY <1>1, <2>1 DEF StartJoinOrExit
  <2>2. ASSUME NEW t, NEW amount, NEW fee, JoinTransfer(t, amount, fee) \/ ExitTransfer(t, amount, fee)
        PROVE  Drains
    BY <1>1, <2>2 DEF JoinTransfer, ExitTransfer, JoinOrExitTransfer
  <2>3. ASSUME NEW op \in {"join", "exit"}, EndJoinOrExit(op) PROVE Drains
    <3>1. CASE op = "exit"  BY <2>3, <3>1, EndExitDrains
    <3>2. CASE op = "join"
      <4>1. op # "exit" /\ Running(op, "onJoinOrExit")  BY <2>3, <3>2 DEF EndJoinOrExit
      <4> QED BY <4>1, RunsUnpaused
    <3> QED BY <3>1, <3>2
  <2> QED BY <1>3, <2>1, <2>2, <2>3 DEF JoinExitNext
<1>4. CASE LoanNext
  <2>1. \A recipient, amounts, fees : ~StartLoan(recipient, amounts, fees)  BY DEF StartLoan
  <2> QED BY <1>1, <1>4, <2>1 DEF LoanNext, EndLoan
<1>5. CASE UserBalanceNext
  BY <1>1, <1>5 DEF UserBalanceNext, DepositInternal, WithdrawInternal, TransferInternal,
     TransferExternal, UserBalanceOp
<1>6. CASE PoolNext
  <2>1. \A p, tokens : ~RegisterTokens(p, tokens) /\ ~DeregisterTokens(p, tokens)
    BY DEF RegisterTokens, DeregisterTokens
  <2>2. \A p, t, amount :
          /\ ~WithdrawPoolBalance(p, t, amount) /\ ~DepositPoolBalance(p, t, amount)
          /\ ~UpdateManagedBalance(p, t, amount)
    BY DEF WithdrawPoolBalance, DepositPoolBalance, UpdateManagedBalance, ManagePoolBalance
  <2> QED BY <1>6, <2>1, <2>2 DEF PoolNext
<1>7. CASE \E newPaused \in BOOLEAN : SetPaused(newPaused)  BY <1>1, <1>7 DEF SetPaused
<1>8. CASE TransfersAndTime
  BY <1>1, <1>8 DEF TransfersAndTime, TransferToken, WithdrawCollectedFees, TimePasses, vaultVars,
     books
<1> QED BY <1>2, <1>3, <1>4, <1>5, <1>6, <1>7, <1>8 DEF Next

\* While the Vault is paused, whatever call was made before or is made then, no Pool's
\* cash grows, and neither managed balances nor registered tokens change.
THEOREM PauseDrainsPools == Spec => PausedDrainsPools
<1>1. PausedInv /\ [Next]_vars => [~IsNotPaused => Drains]_vars  BY PausedStep
<1> QED BY <1>1, PausedInvariance, PTL DEF Spec, PausedDrainsPools, Drains

-----------------------------------------------------------------------------
\* The pause itself, for every pair of deadlines.

ClockOK == now \in Nat

LEMMA ClockType == PauseSpec => []ClockOK
<1>1. PauseInit => ClockOK  BY DEF PauseInit, ClockOK
<1>2. ClockOK /\ [PauseNext]_pauseVars => ClockOK'
  BY DEF ClockOK, PauseNext, SetPausedFlag, Tick, pauseVars
<1> QED BY <1>1, <1>2, PTL DEF PauseSpec

\* _setPaused: a contract that runs once the Pause Window is over never stops again.  As
\* pausing needs the Pause Window, all that could stop it is time; but that only ends the
\* Buffer Period, after which the flag is not looked at.
THEOREM NeverPausedAnew == PauseSpec => NoPauseAfterWindow
<1>1. ASSUME ClockOK, [PauseNext]_pauseVars, now >= PauseWindowEndTime, IsNotPaused
      PROVE  IsNotPaused'
  <2>1. ASSUME NEW newPaused \in BOOLEAN, SetPausedFlag(newPaused) PROVE IsNotPaused'
    <3>1. now < PauseWindowEndTime \/ ~newPaused
      BY <2>1 DEF SetPausedFlag, Settable
    <3>2. ~newPaused
      BY <3>1, <1>1, PauseAssumption DEF ClockOK
    <3> QED BY <2>1, <3>2 DEF SetPausedFlag, IsNotPaused
  <2>2. ASSUME Tick PROVE IsNotPaused'
    BY <1>1, <2>2, PauseAssumption DEF Tick, IsNotPaused, ClockOK
  <2>3. ASSUME UNCHANGED pauseVars PROVE IsNotPaused'
    BY <1>1, <2>3 DEF pauseVars, IsNotPaused
  <2> QED BY <1>1, <2>1, <2>2, <2>3 DEF PauseNext
<1> QED BY <1>1, ClockType, PTL DEF PauseSpec, NoPauseAfterWindow

-----------------------------------------------------------------------------
\* The books.  Every operation is looked at from two sides, for one token: what it changes
\* in the funds (tokens held less Internal Balances), and in the cash of the Pools, the
\* calls in progress and the tokens nobody claims.

-----------------------------------------------------------------------------
\* Facts about SumFunction of the community modules, the sum of the values of a function
\* over a finite set: it is an integer, and changes by what one value changes by.  It is
\* defined by recursion over sets of indices, of which an index is taken arbitrarily; the
\* proofs show by induction over the size of these sets that the recursion defines a table,
\* and that it does not matter which index is taken first.

\* Induction over numbers, for a set of them.
LEMMA EveryNumber ==
  ASSUME NEW Good, 0 \in Good, \A n \in Nat : n \in Good => n + 1 \in Good
  PROVE  \A n \in Nat : n \in Good
<1> DEFINE Bad == {n \in Nat : n \notin Good}
<1> SUFFICES ASSUME Bad # {} PROVE FALSE  OBVIOUS
<1>1. IsWellFoundedOn(OpToRel(<, Nat), Nat)  BY NatLessThanWellFounded
<1>2. Bad \subseteq Nat  OBVIOUS
<1> HIDE DEF Bad
<1>3. PICK n \in Bad : \A m \in Bad : ~ (<<m, n>> \in OpToRel(<, Nat))
  BY <1>1, <1>2, WFMin
<1>4. n \in Nat /\ n \notin Good /\ n # 0  BY DEF Bad
<1>5. n - 1 \in Nat /\ n - 1 < n  BY <1>4
<1>6. <<n - 1, n>> \in OpToRel(<, Nat)  BY <1>4, <1>5 DEF OpToRel
<1>7. n - 1 \in Good  BY <1>3, <1>5, <1>6 DEF Bad
<1>8. (n - 1) + 1 = n  BY <1>4
<1> QED BY <1>4, <1>5, <1>7, <1>8

-----------------------------------------------------------------------------
\* What SumFunction computes: a table of the sums over all sets of indices.

Pick(s) == CHOOSE x \in s : TRUE

SumStep(f, D, g) == [s \in SUBSET D |-> IF s = {} THEN 0 ELSE f[Pick(s)] + g[s \ {Pick(s)}]]

SumTable(f, D) == CHOOSE g : g = SumStep(f, D, g)

\* SumFunction reads the table at all indices.
LEMMA SumFromTable == ASSUME NEW f PROVE SumFunction(f) = SumTable(f, DOMAIN f)[DOMAIN f]
BY SMT DEF SumFunction, SumFunctionOnSet, FoldFunctionOnSet, MapThenFoldSet, SumTable, SumStep, Pick

\* What is picked is an element.
LEMMA Picked == ASSUME NEW s, s # {} PROVE Pick(s) \in s
BY DEF Pick

\* A set with a size above zero has elements.
LEMMA NotNone == ASSUME NEW s, NEW n \in Nat, Cardinality(s) = n + 1 PROVE s # {}
<1>1. Cardinality({}) = 0  BY FS_EmptySet
<1> QED BY <1>1

\* Removing an index from a finite set of them.
LEMMA Smaller ==
  ASSUME NEW D, IsFiniteSet(D), NEW s \in SUBSET D, NEW x \in s
  PROVE  /\ IsFiniteSet(s) /\ s \ {x} \in SUBSET D
         /\ Cardinality(s) \in Nat /\ Cardinality(s) # 0
         /\ Cardinality(s \ {x}) = Cardinality(s) - 1
<1>1. IsFiniteSet(s)  BY FS_Subset
<1>2. Cardinality(s) \in Nat /\ Cardinality(s \ {x}) = Cardinality(s) - 1
  BY <1>1, FS_CardinalityType, FS_RemoveElement
<1>3. Cardinality(s \ {x}) \in Nat  BY <1>1, FS_RemoveElement, FS_CardinalityType
<1> QED BY <1>1, <1>2, <1>3

\* The table is there: one that is right for sets of up to n indices exists for every n.
LEMMA SumTableExists ==
  ASSUME NEW D, IsFiniteSet(D), NEW f \in [D -> Int]
  PROVE  \E g \in [SUBSET D -> Int] : g = SumStep(f, D, g)
<1> DEFINE Right(g, s) == g[s] = SumStep(f, D, g)[s]
           Good == {n \in Nat : \E g \in [SUBSET D -> Int] :
                       \A s \in SUBSET D : Cardinality(s) <= n => Right(g, s)}
<1>1. ASSUME NEW g \in [SUBSET D -> Int]
      PROVE  SumStep(f, D, g) \in [SUBSET D -> Int]
  <2>1. ASSUME NEW s \in SUBSET D, s # {}  PROVE f[Pick(s)] + g[s \ {Pick(s)}] \in Int
    BY <2>1, Picked
  <2> QED BY <2>1 DEF SumStep
<1>2. 0 \in Good
  <2> DEFINE g == [s \in SUBSET D |-> 0]
  <2>1. ASSUME NEW s \in SUBSET D, Cardinality(s) <= 0  PROVE s = {}
    BY <2>1, FS_Subset, FS_EmptySet, FS_CardinalityType
  <2>2. g \in [SUBSET D -> Int] /\ \A s \in SUBSET D : Cardinality(s) <= 0 => Right(g, s)
    BY <2>1 DEF SumStep
  <2> QED BY <2>2
<1>3. ASSUME NEW n \in Nat, n \in Good  PROVE n + 1 \in Good
  <2>1. PICK g \in [SUBSET D -> Int] : \A s \in SUBSET D : Cardinality(s) <= n => Right(g, s)
    BY <1>3
  <2> DEFINE h == SumStep(f, D, g)
  <2>2. h \in [SUBSET D -> Int]  BY <1>1
  <2>3. ASSUME NEW s \in SUBSET D, Cardinality(s) <= n + 1  PROVE Right(h, s)
    <3>1. CASE s = {}  BY <3>1 DEF SumStep
    <3>2. CASE s # {}
      <4> DEFINE x == Pick(s)
      <4>1. x \in s  BY <3>2, Picked
      <4> HIDE DEF x
      <4>2. s \ {x} \in SUBSET D /\ Cardinality(s \ {x}) <= n
        BY <2>3, <4>1, Smaller
      <4>3. g[s \ {x}] = h[s \ {x}]  BY <2>1, <4>2
      <4>4. h[s] = f[x] + g[s \ {x}] /\ SumStep(f, D, h)[s] = f[x] + h[s \ {x}]
        BY <3>2 DEF SumStep, x
      <4> QED BY <4>3, <4>4
    <3> QED BY <3>1, <3>2
  <2> HIDE DEF h
  <2> QED BY <2>2, <2>3
<1>4. Cardinality(D) \in Good
  <2> HIDE DEF Good
  <2>1. Cardinality(D) \in Nat  BY FS_CardinalityType
  <2> QED BY <1>2, <1>3, <2>1, EveryNumber
<1>5. PICK g \in [SUBSET D -> Int] : \A s \in SUBSET D : Cardinality(s) <= Cardinality(D) => Right(g, s)
  BY <1>4
<1>6. \A s \in SUBSET D : Cardinality(s) <= Cardinality(D)  BY FS_Subset
<1>7. \A s \in SUBSET D : g[s] = SumStep(f, D, g)[s]  BY <1>5, <1>6
<1>8. g = SumStep(f, D, g)  BY <1>7 DEF SumStep
<1> QED BY <1>8

\* The table that SumFunction reads is right for all sets.
LEMMA SumTableIs ==
  ASSUME NEW D, IsFiniteSet(D), NEW f \in [D -> Int]
  PROVE  /\ SumTable(f, D) \in [SUBSET D -> Int]
         /\ SumTable(f, D)[{}] = 0
         /\ \A s \in SUBSET D : s # {} =>
              SumTable(f, D)[s] = f[Pick(s)] + SumTable(f, D)[s \ {Pick(s)}]
<1>1. PICK g \in [SUBSET D -> Int] : g = SumStep(f, D, g)  BY SumTableExists
<1> DEFINE T == SumTable(f, D)
<1>2. T = SumStep(f, D, T)  BY <1>1 DEF SumTable
<1> HIDE DEF T
<1>3. T[{}] = 0  BY <1>2 DEF SumStep
<1>4. \A s \in SUBSET D : s # {} => T[s] = f[Pick(s)] + T[s \ {Pick(s)}]  BY <1>2 DEF SumStep
<1>5. T \in [SUBSET D -> Int]
  <2> DEFINE Good == {n \in Nat : \A s \in SUBSET D : Cardinality(s) = n => T[s] \in Int}
  <2>1. 0 \in Good
    <3>1. ASSUME NEW s \in SUBSET D, Cardinality(s) = 0  PROVE T[s] \in Int
      <4>1. s = {}  BY <3>1, FS_Subset, FS_EmptySet
      <4> QED BY <1>3, <4>1
    <3> QED BY <3>1
  <2>2. ASSUME NEW n \in Nat, n \in Good  PROVE n + 1 \in Good
    <3>1. ASSUME NEW s \in SUBSET D, Cardinality(s) = n + 1  PROVE T[s] \in Int
      <4>1. s # {}  BY <3>1, NotNone
      <4> DEFINE x == Pick(s)
      <4>2. x \in s  BY <4>1, Picked
      <4>3. T[s] = f[x] + T[s \ {x}]  BY <1>4, <4>1
      <4> HIDE DEF x
      <4>4. s \ {x} \in SUBSET D /\ Cardinality(s \ {x}) = n  BY <3>1, <4>2, Smaller
      <4>5. T[s \ {x}] \in Int /\ f[x] \in Int  BY <2>2, <4>2, <4>4
      <4> QED BY <4>3, <4>5
    <3> QED BY <3>1
  <2>3. ASSUME NEW s \in SUBSET D  PROVE T[s] \in Int
    <3> HIDE DEF Good
    <3>1. Cardinality(s) \in Nat  BY FS_Subset, FS_CardinalityType
    <3>2. Cardinality(s) \in Good  BY <2>1, <2>2, <3>1, EveryNumber
    <3> QED BY <3>2 DEF Good
  <2>4. DOMAIN T = SUBSET D /\ T = [s \in SUBSET D |-> T[s]]  BY <1>2 DEF SumStep
  <2> QED BY <2>3, <2>4
<1> QED BY <1>3, <1>4, <1>5 DEF T

\* Which index is taken first does not matter.
LEMMA AnyIndexFirst ==
  ASSUME NEW D, IsFiniteSet(D), NEW f \in [D -> Int], NEW s \in SUBSET D, NEW x \in s
  PROVE  SumTable(f, D)[s] = f[x] + SumTable(f, D)[s \ {x}]
<1> DEFINE T == SumTable(f, D)
           Good == {n \in Nat : \A u \in SUBSET D : Cardinality(u) = n =>
                       \A y \in u : T[u] = f[y] + T[u \ {y}]}
<1>1. /\ T \in [SUBSET D -> Int]
      /\ \A u \in SUBSET D : u # {} => T[u] = f[Pick(u)] + T[u \ {Pick(u)}]
  BY SumTableIs
<1> HIDE DEF T
<1>2. 0 \in Good
  <2>1. \A u \in SUBSET D : Cardinality(u) = 0 => u = {}  BY FS_Subset, FS_EmptySet
  <2> QED BY <2>1
<1>3. ASSUME NEW n \in Nat, n \in Good  PROVE n + 1 \in Good
  <2> SUFFICES ASSUME NEW u \in SUBSET D, Cardinality(u) = n + 1, NEW y \in u
               PROVE  T[u] = f[y] + T[u \ {y}]
    OBVIOUS
  <2> DEFINE z == Pick(u)
  <2>1. z \in u /\ T[u] = f[z] + T[u \ {z}]  BY <1>1, Picked
  <2> HIDE DEF z
  <2>2. CASE y = z  BY <2>1, <2>2
  <2>3. CASE y # z
    <3>1. /\ u \ {y} \in SUBSET D /\ Cardinality(u \ {y}) = n
          /\ u \ {z} \in SUBSET D /\ Cardinality(u \ {z}) = n
      BY <2>1, Smaller
    <3>2. y \in u \ {z} /\ z \in u \ {y}  BY <2>1, <2>3
    <3>3. T[u \ {z}] = f[y] + T[(u \ {z}) \ {y}] /\ T[u \ {y}] = f[z] + T[(u \ {y}) \ {z}]
      BY <1>3, <3>1, <3>2
    <3>4. (u \ {z}) \ {y} = (u \ {y}) \ {z}  OBVIOUS
    <3> DEFINE rest == T[(u \ {y}) \ {z}]
    <3>5. rest \in Int
      <4>1. (u \ {y}) \ {z} \in SUBSET D  OBVIOUS
      <4> QED BY <1>1, <4>1
    <3>6. f[y] \in Int /\ f[z] \in Int  BY <2>1
    <3>7. T[u \ {z}] = f[y] + rest /\ T[u \ {y}] = f[z] + rest  BY <3>3, <3>4
    <3> HIDE DEF rest, Good
    <3> QED BY <2>1, <3>5, <3>6, <3>7
  <2> QED BY <2>2, <2>3
<1>4. Cardinality(s) \in Nat  BY FS_Subset, FS_CardinalityType
<1>5. Cardinality(s) \in Good
  <2> HIDE DEF Good
  <2> QED BY <1>2, <1>3, <1>4, EveryNumber
<1> QED BY <1>5 DEF T

\* Functions that agree on some indices have the same sum over them.
LEMMA TablesAgree ==
  ASSUME NEW D, IsFiniteSet(D), NEW f \in [D -> Int], NEW g \in [D -> Int],
         NEW s \in SUBSET D, \A x \in s : f[x] = g[x]
  PROVE  SumTable(f, D)[s] = SumTable(g, D)[s]
<1> DEFINE F == SumTable(f, D)
           G == SumTable(g, D)
           Good == {n \in Nat : \A u \in SUBSET s : Cardinality(u) = n => F[u] = G[u]}
<1>1. /\ F[{}] = 0 /\ G[{}] = 0
      /\ \A u \in SUBSET D : u # {} => /\ F[u] = f[Pick(u)] + F[u \ {Pick(u)}]
                                      /\ G[u] = g[Pick(u)] + G[u \ {Pick(u)}]
  BY SumTableIs
<1> HIDE DEF F, G
<1>2. 0 \in Good
  <2>1. \A u \in SUBSET D : Cardinality(u) = 0 => u = {}  BY FS_Subset, FS_EmptySet
  <2> QED BY <1>1, <2>1
<1>3. ASSUME NEW n \in Nat, n \in Good  PROVE n + 1 \in Good
  <2> SUFFICES ASSUME NEW u \in SUBSET s, Cardinality(u) = n + 1  PROVE F[u] = G[u]
    OBVIOUS
  <2>1. u # {}  BY NotNone
  <2> DEFINE z == Pick(u)
  <2>2. z \in u /\ F[u] = f[z] + F[u \ {z}] /\ G[u] = g[z] + G[u \ {z}]
    BY <1>1, <2>1, Picked
  <2> HIDE DEF z
  <2>3. u \ {z} \in SUBSET s /\ Cardinality(u \ {z}) = n  BY <2>2, Smaller
  <2>4. F[u \ {z}] = G[u \ {z}] /\ f[z] = g[z]  BY <1>3, <2>2, <2>3
  <2> QED BY <2>2, <2>4
<1>4. Cardinality(s) \in Nat  BY FS_Subset, FS_CardinalityType
<1>5. Cardinality(s) \in Good
  <2> HIDE DEF Good
  <2> QED BY <1>2, <1>3, <1>4, EveryNumber
<1> QED BY <1>5 DEF F, G

-----------------------------------------------------------------------------
\* What to know about sums.

\* A sum of integers is an integer.
LEMMA SumType ==
  ASSUME NEW D, IsFiniteSet(D), NEW f \in [D -> Int]
  PROVE  SumFunction(f) \in Int
<1>1. DOMAIN f = D /\ D \in SUBSET D  OBVIOUS
<1>2. SumTable(f, D) \in [SUBSET D -> Int]  BY SumTableIs
<1>3. SumTable(f, D)[D] \in Int  BY <1>1, <1>2
<1> QED BY <1>1, <1>3, SumFromTable

\* No index, no sum.
LEMMA SumOfNone == ASSUME NEW f \in [{} -> Int] PROVE SumFunction(f) = 0
BY SumFromTable, SumTableIs, FS_EmptySet

\* One value changes.
LEMMA SumUpdate ==
  ASSUME NEW D, IsFiniteSet(D), NEW f \in [D -> Int], NEW x \in D, NEW v \in Int
  PROVE  SumFunction([f EXCEPT ![x] = v]) = SumFunction(f) - f[x] + v
<1> DEFINE g == [f EXCEPT ![x] = v]
           F == SumTable(f, D)
           G == SumTable(g, D)
<1>1. g \in [D -> Int] /\ g[x] = v /\ \A y \in D \ {x} : f[y] = g[y]  OBVIOUS
<1> HIDE DEF g
<1>2. F[D] = f[x] + F[D \ {x}] /\ G[D] = g[x] + G[D \ {x}]  BY <1>1, AnyIndexFirst
<1>3. F[D \ {x}] = G[D \ {x}]  BY <1>1, TablesAgree
<1>4. F[D \ {x}] \in Int
  <2>1. F \in [SUBSET D -> Int]  BY SumTableIs
  <2> HIDE DEF F
  <2> QED BY <2>1
<1>5. SumFunction(f) = F[D] /\ SumFunction(g) = G[D]  BY <1>1, SumFromTable
<1> QED BY <1>1, <1>2, <1>3, <1>4, <1>5 DEF g

\* The sum of what is zero everywhere.
LEMMA SumOfZeros ==
  ASSUME NEW D, IsFiniteSet(D), NEW f \in [D -> Int], \A x \in D : f[x] = 0
  PROVE  SumFunction(f) = 0
<1> DEFINE F == SumTable(f, D)
           Good == {n \in Nat : \A u \in SUBSET D : Cardinality(u) = n => F[u] = 0}
<1>1. /\ F[{}] = 0
      /\ \A u \in SUBSET D : u # {} => F[u] = f[Pick(u)] + F[u \ {Pick(u)}]
  BY SumTableIs
<1> HIDE DEF F
<1>2. 0 \in Good
  <2>1. \A u \in SUBSET D : Cardinality(u) = 0 => u = {}  BY FS_Subset, FS_EmptySet
  <2> QED BY <1>1, <2>1
<1>3. ASSUME NEW n \in Nat, n \in Good  PROVE n + 1 \in Good
  <2> SUFFICES ASSUME NEW u \in SUBSET D, Cardinality(u) = n + 1  PROVE F[u] = 0
    OBVIOUS
  <2>1. u # {}  BY NotNone
  <2> DEFINE z == Pick(u)
  <2>2. z \in u /\ F[u] = f[z] + F[u \ {z}]  BY <1>1, <2>1, Picked
  <2> HIDE DEF z
  <2>3. u \ {z} \in SUBSET D /\ Cardinality(u \ {z}) = n  BY <2>2, Smaller
  <2>4. F[u \ {z}] = 0 /\ f[z] = 0  BY <1>3, <2>2, <2>3
  <2> QED BY <2>2, <2>4
<1>4. Cardinality(D) \in Nat  BY FS_CardinalityType
<1>5. Cardinality(D) \in Good
  <2> HIDE DEF Good
  <2> QED BY <1>2, <1>3, <1>4, EveryNumber
<1> QED BY <1>5, SumFromTable DEF F

\* The sum over a single index.
LEMMA SumOfOne ==
  ASSUME NEW x, NEW f \in [{x} -> Int]
  PROVE  SumFunction(f) = f[x]
<1>1. IsFiniteSet({x})  BY FS_Singleton
<1>2. SumTable(f, {x})[{x}] = f[x] + SumTable(f, {x})[{x} \ {x}]
  <2>1. {x} \in SUBSET {x} /\ x \in {x}  OBVIOUS
  <2> QED BY <1>1, <2>1, AnyIndexFirst
<1>3. SumTable(f, {x})[{}] = 0  BY <1>1, SumTableIs
<1>4. {x} \ {x} = {} /\ f[x] \in Int /\ DOMAIN f = {x}  OBVIOUS
<1>5. SumFunction(f) = SumTable(f, {x})[{x}]  BY <1>4, SumFromTable
<1>6. SumTable(f, {x})[{x} \ {x}] = 0  BY <1>3, <1>4
<1> QED BY <1>2, <1>4, <1>5, <1>6

-----------------------------------------------------------------------------
\* The sides of the books, for a token.
NetOf(internal, tokens) == tokens[TheVault] - SumFunction(internal)
Net(f) == NetOf(f.internal, f.tokens)
CashOf(c, t) == SumFunction([p \in Pools |-> c[p][t]])
FlightOf(fs, t) == SumFunction([i \in DOMAIN fs |-> InFlight(fs[i], t)])

Balanced(t) ==
  NetOf(internalBalance[t], balanceOf[t]) = CashOf(cash, t) + FlightOf(frames, t) + unclaimed[t]

-----------------------------------------------------------------------------
\* Sums over the books.

\* The Pools' cash in one token is a number.
LEMMA CashType ==
  ASSUME NEW c \in [Pools -> [Tokens -> Int]], NEW t \in Tokens
  PROVE  CashOf(c, t) \in Int
<1> DEFINE F == [p \in Pools |-> c[p][t]]
<1>1. F \in [Pools -> Int]  OBVIOUS
<1> HIDE DEF F
<1>2. SumFunction(F) \in Int  BY <1>1, SumType, VaultAssumption
<1> QED BY <1>2 DEF CashOf, F

\* One Pool's cash is replaced.
LEMMA CashUpdate ==
  ASSUME NEW c \in [Pools -> [Tokens -> Int]], NEW p \in Pools, NEW row \in [Tokens -> Int],
         NEW t \in Tokens
  PROVE  CashOf([c EXCEPT ![p] = row], t) = CashOf(c, t) - c[p][t] + row[t]
<1> DEFINE F == [q \in Pools |-> c[q][t]]
           G == [q \in Pools |-> [c EXCEPT ![p] = row][q][t]]
<1>1. F \in [Pools -> Int] /\ row[t] \in Int /\ F[p] = c[p][t]  OBVIOUS
<1>2. G = [F EXCEPT ![p] = row[t]]  OBVIOUS
<1> HIDE DEF F, G
<1>3. IsFiniteSet(Pools)  BY VaultAssumption
<1>4. SumFunction([F EXCEPT ![p] = row[t]]) = SumFunction(F) - F[p] + row[t]
  BY <1>1, <1>3, SumUpdate
<1> QED BY <1>1, <1>2, <1>4 DEF CashOf, F, G

\* The negation of zero is zero.
LEMMA Negated == ASSUME NEW d \in Int, d = 0 PROVE -d = 0 /\ -d \in Int
<1>1. \A i \in Int : i + (-i) = 0 /\ -i \in Int  OBVIOUS
<1> DEFINE z == -d
<1>2. d + z = 0 /\ z \in Int  BY <1>1
<1> HIDE DEF z
<1>3. z = 0  BY <1>2
<1> QED BY <1>2, <1>3 DEF z

\* Nothing is in flight without a call, and what the only call says otherwise.
LEMMA NoneInFlight == ASSUME NEW t PROVE FlightOf(<< >>, t) = 0
<1> DEFINE fs == << >>
           F == [i \in DOMAIN fs |-> InFlight(fs[i], t)]
<1>1. F \in [{} -> Int]  OBVIOUS
<1> HIDE DEF F
<1>2. SumFunction(F) = 0  BY <1>1, SumOfNone
<1> QED BY <1>2 DEF FlightOf, F

LEMMA OneInFlight ==
  ASSUME NEW f, NEW t, InFlight(f, t) \in Int
  PROVE  FlightOf(<<f>>, t) = InFlight(f, t)
<1> DEFINE fs == <<f>>
           F == [i \in DOMAIN fs |-> InFlight(fs[i], t)]
<1>1. DOMAIN fs = {1} /\ fs[1] = f  OBVIOUS
<1> HIDE DEF fs
<1>2. F \in [{1} -> Int] /\ F[1] = InFlight(f, t)  BY <1>1
<1> HIDE DEF F
<1>3. SumFunction(F) = F[1]  BY <1>2, SumOfOne
<1> QED BY <1>2, <1>3 DEF FlightOf, F, fs

\* What the frames say is in flight.
LEMMA SwapInFlight ==
  ASSUME NEW f \in SwapFrame, NEW t \in Tokens
  PROVE  InFlight(f, t) = -f.deltas[t] /\ f.deltas[t] \in Int /\ InFlight(f, t) \in Int
BY DEF SwapFrame, InFlight

LEMMA JoinOrExitInFlight ==
  ASSUME NEW f \in JoinOrExitFrame, NEW t \in Tokens
  PROVE  InFlight(f, t) = f.deltas[t] /\ InFlight(f, t) \in Int
<1>1. f.op \in {"join", "exit"} /\ f.op # "swap" /\ f.deltas[t] \in Int  BY DEF JoinOrExitFrame
<1> QED BY <1>1 DEF InFlight

LEMMA LoanInFlight ==
  ASSUME NEW f \in LoanFrame, NEW t \in Tokens
  PROVE  InFlight(f, t) = 0
<1>1. f.op = "loan" /\ f.op # "swap" /\ f.op \notin {"join", "exit"}  BY DEF LoanFrame
<1> QED BY <1>1 DEF InFlight

LEMMA FrameInFlight ==
  ASSUME NEW f \in Frame, NEW t \in Tokens
  PROVE  InFlight(f, t) \in Int
BY SwapInFlight, JoinOrExitInFlight, LoanInFlight DEF Frame

LEMMA InFlightType ==
  ASSUME NEW fs, fs = << >> \/ \E f \in Frame : fs = <<f>>, NEW t \in Tokens
  PROVE  FlightOf(fs, t) \in Int
<1>1. ASSUME NEW f \in Frame, fs = <<f>> PROVE FlightOf(fs, t) \in Int
  BY <1>1, FrameInFlight, OneInFlight
<1>2. CASE fs = << >>  BY <1>2, NoneInFlight
<1> QED BY <1>1, <1>2

-----------------------------------------------------------------------------
\* What moving funds changes in them.

\* The Internal Balances of a token add up to a number, and so does its net.
LEMMA NetType == ASSUME NEW f \in TokenFunds PROVE SumFunction(f.internal) \in Int /\ Net(f) \in Int
<1>1. f.internal \in [Accounts -> Int] /\ f.tokens[TheVault] \in Int  BY HoldersAre DEF TokenFunds
<1> DEFINE F == f.internal
<1>2. F \in [Accounts -> Int]  BY <1>1
<1> HIDE DEF F
<1>3. SumFunction(F) \in Int  BY <1>2, SumType, VaultAssumption
<1> QED BY <1>1, <1>3 DEF Net, NetOf, F

\* Crediting Internal Balance is a debt.
LEMMA NetCredited ==
  ASSUME NEW f \in TokenFunds, NEW account \in Accounts, NEW amount \in Int
  PROVE  Net(Credited(f, account, amount)) = Net(f) - amount
<1> DEFINE F == f.internal
           n == F[account] + amount
           g == Credited(f, account, amount)
<1>1. F \in [Accounts -> Int] /\ n \in Int  BY DEF TokenFunds
<1>2. g.internal = [F EXCEPT ![account] = n] /\ g.tokens = f.tokens
  BY DEF Credited, TokenFunds
<1>3. n = F[account] + amount /\ F[account] \in Int  BY <1>1
<1> HIDE DEF F, n, g
<1>4. SumFunction([F EXCEPT ![account] = n]) = SumFunction(F) - F[account] + n
  <2>1. IsFiniteSet(Accounts)  BY VaultAssumption
  <2> QED BY <1>1, <2>1, SumUpdate
<1>5. SumFunction(F) \in Int  BY NetType DEF F
<1>6. f.tokens[TheVault] \in Int  BY HoldersAre DEF TokenFunds
<1>7. Net(f) = f.tokens[TheVault] - SumFunction(F)  BY DEF Net, NetOf, F
<1>8. Net(g) = f.tokens[TheVault] - SumFunction([F EXCEPT ![account] = n])
  BY <1>2 DEF Net, NetOf
<1> QED BY <1>3, <1>4, <1>5, <1>6, <1>7, <1>8 DEF g

\* What the Vault holds after a transfer, and with it the net.
VaultGain(from, to, amount) ==
  (IF to = TheVault THEN amount ELSE 0) - (IF from = TheVault THEN amount ELSE 0)

LEMMA NetTransferred ==
  ASSUME NEW f \in TokenFunds, NEW from \in Holders, NEW to \in Holders, NEW amount \in Int
  PROVE  LET g == Transferred(f, from, to, amount) IN
         /\ g.tokens[TheVault] = f.tokens[TheVault] + VaultGain(from, to, amount)
         /\ Net(g) = Net(f) + VaultGain(from, to, amount)
<1> DEFINE b == f.tokens
           g == Transferred(f, from, to, amount)
           gain == VaultGain(from, to, amount)
<1>1. b \in [Holders -> Int] /\ b[TheVault] \in Int  BY HoldersAre DEF TokenFunds
<1>2. g.internal = f.internal /\ g.tokens = [b EXCEPT ![from] = @ - amount, ![to] = @ + amount]
  BY DEF Transferred
<1>3. gain \in Int  BY DEF VaultGain
<1> HIDE DEF b, g
<1>4. g.tokens[TheVault] = b[TheVault] + gain
  BY <1>1, <1>2, HoldersAre DEF VaultGain
<1>5. SumFunction(f.internal) \in Int  BY NetType
<1> HIDE DEF gain
<1>6. Net(f) = b[TheVault] - SumFunction(f.internal) /\ Net(g) = g.tokens[TheVault] - SumFunction(f.internal)
  BY <1>2 DEF Net, NetOf, b
<1>7. Net(g) = Net(f) + gain  BY <1>1, <1>3, <1>4, <1>5, <1>6
<1> QED BY <1>4, <1>7 DEF b, g, gain

\* Nobody else is the Vault.
LEMMA VaultIsNoAccount ==
  /\ \A a \in Accounts : a # TheVault
  /\ FeesCollector # TheVault
BY VaultAssumption

LEMMA NetReceived ==
  ASSUME NEW f \in TokenFunds, NEW amount \in Int, NEW sender \in Accounts,
         NEW fromInternalBalance \in BOOLEAN
  PROVE  Net(Received(f, amount, sender, fromInternalBalance)) = Net(f) + amount
<1> DEFINE d == IF ~fromInternalBalance THEN 0
                ELSE IF f.internal[sender] < amount THEN f.internal[sender] ELSE amount
           g == Credited(f, sender, -d)
           rest == RestToTransfer(amount, d)
<1>1. d \in Int /\ -d \in Int  BY DEF TokenFunds
<1>2. Received(f, amount, sender, fromInternalBalance) = Transferred(g, sender, TheVault, rest)
  BY DEF Received
<1> HIDE DEF d
<1>3. g \in TokenFunds /\ Net(g) = Net(f) - (-d)  BY <1>1, CreditedType, NetCredited
<1>4. rest = amount - d /\ rest \in Int  BY <1>1 DEF RestToTransfer
<1> HIDE DEF g, rest
<1>5. VaultGain(sender, TheVault, rest) = rest  BY <1>4, VaultIsNoAccount DEF VaultGain
<1>6. Net(Transferred(g, sender, TheVault, rest)) = Net(g) + rest
  BY <1>3, <1>4, <1>5, NetTransferred, HoldersAre
<1>7. Net(f) \in Int  BY NetType
<1> QED BY <1>1, <1>2, <1>3, <1>4, <1>6, <1>7

LEMMA NetSent ==
  ASSUME NEW f \in TokenFunds, NEW amount \in Int, NEW recipient \in Accounts,
         NEW toInternalBalance \in BOOLEAN
  PROVE  Net(Sent(f, amount, recipient, toInternalBalance)) = Net(f) - amount
<1>1. VaultGain(TheVault, recipient, amount) = -amount  BY VaultIsNoAccount DEF VaultGain
<1>2. Net(f) \in Int  BY NetType
<1>3. Net(Transferred(f, TheVault, recipient, amount)) = Net(f) - amount
  BY <1>1, <1>2, NetTransferred, HoldersAre
<1> QED BY <1>3, NetCredited DEF Sent

LEMMA NetFeePaid ==
  ASSUME NEW f \in TokenFunds, NEW amount \in Int
  PROVE  Net(FeePaid(f, amount)) = Net(f) - amount
<1>1. VaultGain(TheVault, FeesCollector, amount) = -amount  BY VaultIsNoAccount DEF VaultGain
<1>2. Net(f) \in Int  BY NetType
<1> QED BY <1>1, <1>2, NetTransferred, HoldersAre DEF FeePaid

-----------------------------------------------------------------------------
\* The inductive invariant.

\* What calls in progress still have to settle: a swap works on two tokens, and a join or
\* exit has changed nothing for the tokens that have not moved yet.
FramesSettle ==
  frames # << >> =>
    LET f == frames[1] IN
    /\ f.op = "swap" /\ f.stage = "onSwap" => f.in # f.out
    /\ f.op \in {"join", "exit"} =>
         /\ f.left \subseteq DOMAIN f.read
         /\ \A t \in Tokens : t \in f.left \/ t \notin DOMAIN f.read => f.deltas[t] = 0

\* The Vault lends no more than it will have got back when the loan ends: what nobody
\* claims is short by what is out on loan, and by nothing else.
OnLoan(t) == frames # << >> /\ frames[1].op = "loan" /\ t \in DOMAIN frames[1].before

Covered ==
  \A t \in Tokens :
    IF OnLoan(t) THEN unclaimed[t] >= balanceOf[t][TheVault] - frames[1].before[t]
                 ELSE unclaimed[t] >= 0

AllBalanced == \A t \in Tokens : Balanced(t)

BooksInv == VaultInv /\ FramesSettle /\ Covered /\ AllBalanced

LEMMA NumbersOfBooks ==
  ASSUME VaultInv, NEW t \in Tokens
  PROVE  /\ CashOf(cash, t) \in Int /\ FlightOf(frames, t) \in Int /\ unclaimed[t] \in Int
         /\ NetOf(internalBalance[t], balanceOf[t]) \in Int
         /\ NetOf(internalBalance[t], balanceOf[t]) = Net(FundsOf(t))
         /\ FundsOf(t) \in TokenFunds
         /\ balanceOf[t][TheVault] \in Int /\ SumFunction(internalBalance[t]) \in Int
<1> USE DEF VaultInv, TypeOK
<1>1. cash \in [Pools -> [Tokens -> Int]]  BY DEF BooksTypeOK
<1>2. CashOf(cash, t) \in Int  BY <1>1, CashType
<1>3. FlightOf(frames, t) \in Int  BY InFlightType DEF OneCall
<1>4. FundsOf(t) \in TokenFunds  BY FundsOfType
<1>5. /\ Net(FundsOf(t)) = NetOf(internalBalance[t], balanceOf[t])
      /\ FundsOf(t).internal = internalBalance[t]
  BY DEF Net, FundsOf
<1>6. Net(FundsOf(t)) \in Int /\ SumFunction(internalBalance[t]) \in Int
  BY <1>4, <1>5, NetType
<1>7. unclaimed[t] \in Int /\ balanceOf[t][TheVault] \in Int  BY HoldersAre DEF FundsTypeOK
<1> QED BY <1>2, <1>3, <1>4, <1>5, <1>6, <1>7

\* A step keeps the balance when both sides change by as much.
LEMMA BothSides ==
  ASSUME VaultInv, NEW t \in Tokens, Balanced(t),
         NEW gain \in Int, NEW booked \in Int, NEW claims \in Int, NEW flight \in Int,
         NetOf(internalBalance'[t], balanceOf'[t]) = Net(FundsOf(t)) + gain,
         CashOf(cash', t) = CashOf(cash, t) + booked,
         FlightOf(frames', t) = FlightOf(frames, t) + flight,
         unclaimed'[t] = unclaimed[t] + claims,
         gain = booked + flight + claims
  PROVE  Balanced(t)'
<1> DEFINE n == Net(FundsOf(t))
           c == CashOf(cash, t)
           i == FlightOf(frames, t)
           u == unclaimed[t]
<1>1. n \in Int /\ c \in Int /\ i \in Int /\ u \in Int /\ n = c + i + u
  BY NumbersOfBooks DEF Balanced
<1> HIDE DEF n, c, i, u
<1>2. n + gain = (c + booked) + (i + flight) + (u + claims)  BY <1>1
<1> QED BY <1>2 DEF Balanced, n, c, i, u

\* What SetFunds does to one side of the books.
LEMMA SetNet ==
  ASSUME NEW funds, SetFunds(funds), NEW t \in Tokens
  PROVE  NetOf(internalBalance'[t], balanceOf'[t]) = Net(funds[t])
BY DEF SetFunds, Net

LEMMA SetOneNet ==
  ASSUME NEW t \in Tokens, NEW f, SetFunds([Funds EXCEPT ![t] = f]), NEW u \in Tokens
  PROVE  NetOf(internalBalance'[u], balanceOf'[u]) = IF u = t THEN Net(f) ELSE Net(FundsOf(u))
<1> DEFINE funds == [Funds EXCEPT ![t] = f]
<1>1. funds[u] = IF u = t THEN f ELSE FundsOf(u)  BY DEF Funds
<1>2. SetFunds(funds)  OBVIOUS
<1> HIDE DEF funds
<1> QED BY <1>1, <1>2, SetNet

LEMMA SameNet ==
  ASSUME UNCHANGED <<internalBalance, balanceOf>>, NEW t
  PROVE  NetOf(internalBalance'[t], balanceOf'[t]) = Net(FundsOf(t))
BY DEF Net, FundsOf

\* Nothing that counts changes.
LEMMA SameBalance ==
  ASSUME VaultInv, AllBalanced, UNCHANGED <<internalBalance, balanceOf, cash, unclaimed>>,
         \A t \in Tokens : FlightOf(frames', t) = FlightOf(frames, t)
  PROVE  AllBalanced'
<1> SUFFICES ASSUME NEW t \in Tokens PROVE Balanced(t)'  BY DEF AllBalanced
<1>1. NetOf(internalBalance'[t], balanceOf'[t]) = Net(FundsOf(t)) + 0
  BY SameNet, NumbersOfBooks
<1>2. /\ CashOf(cash', t) = CashOf(cash, t) + 0 /\ FlightOf(frames', t) = FlightOf(frames, t) + 0
      /\ unclaimed'[t] = unclaimed[t] + 0
  BY NumbersOfBooks
<1>3. Balanced(t) /\ 0 \in Int /\ 0 = 0 + 0 + 0  BY DEF AllBalanced
<1> QED BY <1>1, <1>2, <1>3, BothSides

\* Funds change in one token only, by what Internal Balance covers.
LEMMA SameNets ==
  ASSUME VaultInv, AllBalanced, NEW t \in Tokens, NEW f,
         SetFunds([Funds EXCEPT ![t] = f]), Net(f) = Net(FundsOf(t)),
         UNCHANGED <<cash, unclaimed, frames>>
  PROVE  AllBalanced'
<1> SUFFICES ASSUME NEW u \in Tokens PROVE Balanced(u)'  BY DEF AllBalanced
<1>1. NetOf(internalBalance'[u], balanceOf'[u]) = Net(FundsOf(u)) + 0
  BY SetOneNet, NumbersOfBooks
<1>2. /\ CashOf(cash', u) = CashOf(cash, u) + 0 /\ FlightOf(frames', u) = FlightOf(frames, u) + 0
      /\ unclaimed'[u] = unclaimed[u] + 0
  BY NumbersOfBooks
<1>3. Balanced(u) /\ 0 \in Int /\ 0 = 0 + 0 + 0  BY DEF AllBalanced
<1> QED BY <1>1, <1>2, <1>3, BothSides

\* A call that is no loan, before and after, claims what it claimed.
NotLending(fs) == fs # << >> => fs[1].op # "loan"

LEMMA SameCover ==
  ASSUME Covered, NotLending(frames), NotLending(frames'), UNCHANGED unclaimed
  PROVE  Covered'
BY DEF Covered, OnLoan, NotLending

LEMMA NoFrameSettles ==
  ASSUME frames' = << >>
  PROVE  FramesSettle' /\ NotLending(frames')
BY DEF FramesSettle, NotLending

LEMMA SwapSettles ==
  ASSUME NEW f \in SwapFrame, frames' = <<f>>, f.stage = "onSwap" => f.in # f.out
  PROVE  FramesSettle' /\ NotLending(frames')
<1>1. frames'[1] = f /\ f.op = "swap"  BY DEF SwapFrame
<1> QED BY <1>1 DEF FramesSettle, NotLending

LEMMA JoinOrExitSettles ==
  ASSUME NEW f \in JoinOrExitFrame, frames' = <<f>>, f.left \subseteq DOMAIN f.read,
         \A t \in Tokens : t \in f.left \/ t \notin DOMAIN f.read => f.deltas[t] = 0
  PROVE  FramesSettle' /\ NotLending(frames')
<1>1. frames'[1] = f /\ f.op # "swap" /\ f.op # "loan"  BY DEF JoinOrExitFrame
<1> QED BY <1>1 DEF FramesSettle, NotLending

LEMMA RunsNoLoan ==
  ASSUME NEW op, op # "loan", NEW stage, Running(op, stage)
  PROVE  NotLending(frames)
BY DEF Running, NotLending

\* What every step is shown to keep.
BooksKept == FramesSettle' /\ Covered' /\ AllBalanced'

\* A call that needs no frame.
LEMMA LockedKept ==
  ASSUME BooksInv, Locked, UNCHANGED unclaimed
  PROVE  FramesSettle' /\ Covered' /\ frames = << >> /\ frames' = << >>
<1>1. frames = << >> /\ frames' = << >>  BY LockedShape DEF BooksInv, VaultInv
<1>2. NotLending(frames)  BY <1>1 DEF NotLending
<1> QED BY <1>1, <1>2, NoFrameSettles, SameCover DEF BooksInv

\* A call that starts or goes on without moving funds or writing the books.
LEMMA QuietKept ==
  ASSUME BooksInv, FramesSettle', NotLending(frames), NotLending(frames'),
         UNCHANGED <<internalBalance, balanceOf, cash, unclaimed>>,
         \A t \in Tokens : FlightOf(frames', t) = FlightOf(frames, t)
  PROVE  BooksKept
<1>1. Covered'  BY SameCover DEF BooksInv
<1>2. AllBalanced'  BY SameBalance DEF BooksInv
<1> QED BY <1>1, <1>2 DEF BooksKept

-----------------------------------------------------------------------------
\* Swaps.

LEMMA StartSwapKept == ASSUME BooksInv, NEW hops \in 1 .. MaxHops, StartSwap(hops) PROVE BooksKept
<1> DEFINE f == [op |-> "swap", stage |-> "ready", hops |-> hops, pool |-> NoPool, in |-> NoToken,
                 out |-> NoToken, read |-> << >>, deltas |-> Zero]
<1> USE DEF BooksInv, VaultInv
<1>1. Enter(f)  BY DEF StartSwap
<1>2. f \in SwapFrame
  <2>1. Zero \in [Tokens -> Int]  BY DEF Zero
  <2> QED BY <2>1, NoReads DEF SwapFrame
<1>3. f.stage # "onSwap" /\ f.deltas = Zero  OBVIOUS
<1> HIDE DEF f
<1>4. frames = << >> /\ frames' = <<f>>  BY <1>1, EnterShape
<1>5. NotLending(frames) /\ FramesSettle' /\ NotLending(frames')
  BY <1>2, <1>3, <1>4, SwapSettles DEF NotLending
<1>6. ASSUME NEW t \in Tokens PROVE FlightOf(frames', t) = FlightOf(frames, t)
  <2>1. f.deltas[t] = 0  BY <1>3 DEF Zero
  <2>2. InFlight(f, t) = -f.deltas[t] /\ InFlight(f, t) \in Int  BY <1>2, SwapInFlight
  <2> DEFINE d == f.deltas[t]
  <2>3. InFlight(f, t) = 0
    <3>1. d \in Int /\ d = 0 /\ InFlight(f, t) = -d  BY <2>1, <2>2
    <3> HIDE DEF d
    <3> QED BY <3>1, Negated
  <2> QED BY <1>4, <2>2, <2>3, OneInFlight, NoneInFlight
<1> QED BY <1>5, <1>6, QuietKept DEF StartSwap, books

LEMMA AskPoolKept ==
  ASSUME BooksInv, NEW p \in Pools, NEW tokenIn \in Tokens, NEW tokenOut \in Tokens,
         AskPool(p, tokenIn, tokenOut)
  PROVE  BooksKept
<1> USE DEF BooksInv, VaultInv
<1> DEFINE f == frames[1]
           read == [t \in {tokenIn, tokenOut} |-> Read(p, t)]
           g == Asked(f, p, tokenIn, tokenOut, read)
<1>1. Running("swap", "ready") /\ Continue(g) /\ tokenIn # tokenOut  BY DEF AskPool, Asked
<1>2. f \in SwapFrame /\ frames = <<f>> /\ frames # << >>
  BY <1>1, SwapFrameRuns, RunningShape
<1>3. read \in ReadBalances  BY ReadType DEF TypeOK
<1> HIDE DEF f, read
<1>4. g \in SwapFrame /\ g.in = tokenIn /\ g.out = tokenOut  BY <1>2, <1>3, AskedFrame
<1>5. g.deltas = f.deltas  BY <1>2 DEF Asked, SwapFrame
<1> HIDE DEF g
<1>6. frames' = <<g>>  BY <1>1, <1>2, ContinueShape
<1>7. FramesSettle' /\ NotLending(frames')  BY <1>1, <1>4, <1>6, SwapSettles
<1>8. NotLending(frames)  BY <1>1, RunsNoLoan
<1>9. ASSUME NEW t \in Tokens PROVE FlightOf(frames', t) = FlightOf(frames, t)
  BY <1>2, <1>4, <1>5, <1>6, SwapInFlight, OneInFlight
<1> QED BY <1>7, <1>8, <1>9, QuietKept DEF AskPool, books

\* Writing the books changes the cash by what is written more than was read.
LEMMA WriteBackCash ==
  ASSUME BooksTypeOK, NEW f, f.pool \in Pools, f.read \in ReadBalances,
         \A u \in DOMAIN f.read : f.read[u] = Read(f.pool, u),
         NEW delta, \A u \in DOMAIN f.read : delta[u] \in Int,
         WriteBack(f, delta), NEW t \in Tokens
  PROVE  CashOf(cash', t) = CashOf(cash, t) + (IF t \in DOMAIN f.read THEN delta[t] ELSE 0)
<1> DEFINE row == [u \in Tokens |-> IF u \in DOMAIN f.read THEN f.read[u].cash + delta[u]
                                                        ELSE cash[f.pool][u]]
           p == f.pool
<1>1. cash' = [cash EXCEPT ![p] = row]  BY DEF WriteBack, BooksTypeOK
<1>2. \A u \in DOMAIN f.read : f.read[u].cash = cash[p][u]  BY ReadFields
<1>3. \A u \in Tokens : row[u] = cash[p][u] + (IF u \in DOMAIN f.read THEN delta[u] ELSE 0)
  <2>1. \A u \in Tokens : cash[p][u] \in Int  BY DEF BooksTypeOK
  <2> QED BY <1>2, <2>1
<1>4. row \in [Tokens -> Int]
  <2>1. \A u \in Tokens : cash[p][u] \in Int  BY DEF BooksTypeOK
  <2> QED BY <1>2, <2>1
<1>5. cash \in [Pools -> [Tokens -> Int]] /\ p \in Pools  BY DEF BooksTypeOK
<1> HIDE DEF row, p
<1>6. CashOf(cash', t) = CashOf(cash, t) - cash[p][t] + row[t]
  BY <1>1, <1>4, <1>5, CashUpdate
<1>7. CashOf(cash, t) \in Int /\ cash[p][t] \in Int /\ row[t] \in Int  BY <1>4, <1>5, CashType
<1> DEFINE d == IF t \in DOMAIN f.read THEN delta[t] ELSE 0
<1>8. row[t] = cash[p][t] + d /\ d \in Int  BY <1>3
<1> HIDE DEF d
<1>9. CashOf(cash', t) = CashOf(cash, t) + d  BY <1>6, <1>7, <1>8
<1> QED BY <1>9 DEF d

LEMMA PoolAnswersKept ==
  ASSUME BooksInv, NEW amountIn \in SwapAmounts, NEW amountOut \in SwapAmounts,
         PoolAnswers(amountIn, amountOut)
  PROVE  BooksKept
<1> USE DEF BooksInv, VaultInv
<1> DEFINE f == frames[1]
           delta == [t \in {f.in, f.out} |-> IF t = f.in THEN amountIn ELSE -amountOut]
           deltas == [f.deltas EXCEPT ![f.in] = @ + amountIn, ![f.out] = @ - amountOut]
           g == [f EXCEPT !.stage = "ready", !.read = << >>, !.deltas = deltas]
<1>1. Running("swap", "onSwap") /\ WriteBack(f, delta) /\ Continue(g)  BY DEF PoolAnswers
<1>2. f \in SwapFrame /\ f.stage = "onSwap" /\ f.op = "swap" /\ frames = <<f>> /\ frames # << >>
  BY <1>1, SwapFrameRuns, RunningShape
<1>3. f.pool \in Pools /\ f.in \in Tokens /\ f.out \in Tokens /\ DOMAIN f.read = {f.in, f.out}
  BY <1>2 DEF ReadsHavePool
<1>4. f.in # f.out  BY <1>2 DEF FramesSettle
<1>5. amountIn \in Int /\ amountOut \in Int /\ -amountOut \in Int  BY VaultAssumption
<1>6. \A t \in DOMAIN f.read : f.read[t] = Read(f.pool, t)  BY <1>2, RunningIsFresh
<1>7. \A t \in DOMAIN f.read : delta[t] \in Int  BY <1>3, <1>5
<1>8. f.deltas \in [Tokens -> Int] /\ f.read \in ReadBalances  BY <1>2 DEF SwapFrame
<1>9. deltas \in [Tokens -> Int]  BY <1>3, <1>5, <1>8
<1>10. \A t \in Tokens : deltas[t] = f.deltas[t] + (IF t \in DOMAIN f.read THEN delta[t] ELSE 0)
  BY <1>3, <1>4, <1>5, <1>8
<1> HIDE DEF f, delta, deltas
<1>11. g \in SwapFrame  BY <1>2, <1>9, NoReads DEF SwapFrame
<1>12. g.stage = "ready" /\ g.deltas = deltas  BY <1>2 DEF SwapFrame
<1> HIDE DEF g
<1>13. frames' = <<g>>  BY <1>1, <1>2, ContinueShape
<1>14. FramesSettle' /\ NotLending(frames')  BY <1>11, <1>12, <1>13, SwapSettles
<1>15. NotLending(frames)  BY <1>1, RunsNoLoan
<1>16. Covered'  BY <1>14, <1>15, SameCover DEF PoolAnswers
<1>17. AllBalanced'
  <2> SUFFICES ASSUME NEW t \in Tokens PROVE Balanced(t)'  BY DEF AllBalanced
  <2> DEFINE d == IF t \in DOMAIN f.read THEN delta[t] ELSE 0
  <2>1. d \in Int /\ deltas[t] = f.deltas[t] + d  BY <1>7, <1>10
  <2>2. CashOf(cash', t) = CashOf(cash, t) + d
    BY <1>1, <1>3, <1>6, <1>7, <1>8, WriteBackCash DEF TypeOK
  <2> HIDE DEF d
  <2>3. FlightOf(frames', t) = -deltas[t] /\ FlightOf(frames, t) = -f.deltas[t]
    BY <1>2, <1>11, <1>12, <1>13, SwapInFlight, OneInFlight
  <2>4. FlightOf(frames', t) = FlightOf(frames, t) + (-d) /\ -d \in Int
    <3>1. f.deltas[t] \in Int  BY <1>8
    <3> QED BY <2>1, <2>3, <3>1
  <2>5. /\ NetOf(internalBalance'[t], balanceOf'[t]) = Net(FundsOf(t)) + 0
        /\ unclaimed'[t] = unclaimed[t] + 0
    BY SameNet, NumbersOfBooks DEF PoolAnswers
  <2>6. Balanced(t) /\ 0 \in Int /\ 0 = d + (-d) + 0  BY <2>1 DEF AllBalanced
  <2> QED BY <2>1, <2>2, <2>4, <2>5, <2>6, BothSides
<1> QED BY <1>14, <1>16, <1>17 DEF BooksKept

LEMMA EndSwapKept ==
  ASSUME BooksInv, NEW sender \in Accounts, NEW recipient \in Accounts,
         NEW fromInternal \in BOOLEAN, NEW toInternal \in BOOLEAN,
         EndSwap(sender, recipient, fromInternal, toInternal)
  PROVE  BooksKept
<1> USE DEF BooksInv, VaultInv
<1> DEFINE f == frames[1]
           funds == [t \in Tokens |->
             LET delta == f.deltas[t] IN
             IF delta > 0 THEN Received(FundsOf(t), delta, sender, fromInternal)
                          ELSE Sent(FundsOf(t), -delta, recipient, toInternal)]
<1>1. Running("swap", "ready") /\ SetFunds(funds) /\ Leave  BY DEF EndSwap
<1>2. f \in SwapFrame /\ frames = <<f>> /\ frames # << >>
  BY <1>1, SwapFrameRuns, RunningShape
<1>3. ASSUME NEW t \in Tokens PROVE Net(funds[t]) = Net(FundsOf(t)) + f.deltas[t]
  <2> DEFINE d == f.deltas[t]
             F == FundsOf(t)
  <2>1. d \in Int /\ -d \in Int  BY <1>2 DEF SwapFrame
  <2>2. F \in TokenFunds /\ Net(F) \in Int  BY NumbersOfBooks, NetType
  <2>3. funds[t] = IF d > 0 THEN Received(F, d, sender, fromInternal)
                            ELSE Sent(F, -d, recipient, toInternal)
    OBVIOUS
  <2> HIDE DEF d, F, funds, f
  <2>4. Net(Received(F, d, sender, fromInternal)) = Net(F) + d  BY <2>1, <2>2, NetReceived
  <2>5. Net(Sent(F, -d, recipient, toInternal)) = Net(F) - (-d)  BY <2>1, <2>2, NetSent
  <2>6. Net(funds[t]) = Net(F) + d  BY <2>1, <2>2, <2>3, <2>4, <2>5
  <2> QED BY <2>6 DEF F, d
<1> HIDE DEF f, funds
<1>4. frames' = << >>  BY <1>1, <1>2, LeaveShape
<1>5. FramesSettle' /\ NotLending(frames')  BY <1>4, NoFrameSettles
<1>6. Covered'
  <2>1. NotLending(frames)  BY <1>1, RunsNoLoan
  <2> QED BY <1>5, <2>1, SameCover DEF EndSwap
<1>7. AllBalanced'
  <2> SUFFICES ASSUME NEW t \in Tokens PROVE Balanced(t)'  BY DEF AllBalanced
  <2> DEFINE d == f.deltas[t]
  <2>1. d \in Int  BY <1>2 DEF SwapFrame
  <2>2. NetOf(internalBalance'[t], balanceOf'[t]) = Net(FundsOf(t)) + d
    BY <1>1, <1>3, SetNet
  <2>3. FlightOf(frames, t) = -d /\ FlightOf(frames', t) = 0
    BY <1>2, <1>4, SwapInFlight, OneInFlight, NoneInFlight
  <2> HIDE DEF d
  <2>4. FlightOf(frames', t) = FlightOf(frames, t) + d  BY <2>1, <2>3
  <2>5. CashOf(cash', t) = CashOf(cash, t) + 0 /\ unclaimed'[t] = unclaimed[t] + 0
    BY NumbersOfBooks DEF EndSwap, books
  <2>6. Balanced(t) /\ 0 \in Int /\ d = 0 + d + 0  BY <2>1 DEF AllBalanced
  <2> QED BY <2>1, <2>2, <2>4, <2>5, <2>6, BothSides
<1> QED BY <1>5, <1>6, <1>7 DEF BooksKept

-----------------------------------------------------------------------------
\* Joins and exits.

LEMMA StartJoinOrExitKept ==
  ASSUME BooksInv, NEW op \in {"join", "exit"}, NEW p \in Pools, NEW account \in Accounts,
         NEW useInternalBalance \in BOOLEAN, StartJoinOrExit(op, p, account, useInternalBalance)
  PROVE  BooksKept
<1> DEFINE read == [t \in registered[p] |-> Read(p, t)]
           f == [op |-> op, stage |-> "onJoinOrExit", pool |-> p, account |-> account,
                 useInternalBalance |-> useInternalBalance, read |-> read, deltas |-> Zero,
                 left |-> registered[p]]
<1> USE DEF BooksInv, VaultInv
<1>1. Enter(f)  BY DEF StartJoinOrExit
<1>2. registered[p] \in SUBSET Tokens  BY DEF TypeOK, BooksTypeOK
<1>3. read \in ReadBalances  BY <1>2, ReadType DEF TypeOK
<1>4. Zero \in [Tokens -> Int] /\ \A t \in Tokens : Zero[t] = 0  BY DEF Zero
<1>5. DOMAIN read = registered[p]  OBVIOUS
<1> HIDE DEF read
<1>6. f \in JoinOrExitFrame  BY <1>2, <1>3, <1>4 DEF JoinOrExitFrame
<1>7. f.left = registered[p] /\ f.read = read /\ f.deltas = Zero  OBVIOUS
<1> HIDE DEF f
<1>8. frames = << >> /\ frames' = <<f>>  BY <1>1, EnterShape
<1>9. NotLending(frames) /\ FramesSettle' /\ NotLending(frames')
  BY <1>4, <1>5, <1>6, <1>7, <1>8, JoinOrExitSettles DEF NotLending
<1>10. ASSUME NEW t \in Tokens PROVE FlightOf(frames', t) = FlightOf(frames, t)
  BY <1>4, <1>6, <1>7, <1>8, JoinOrExitInFlight, OneInFlight, NoneInFlight
<1> QED BY <1>9, <1>10, QuietKept DEF StartJoinOrExit, books

\* What a token's move changes in the funds is what will be written to the books.
LEMMA JoinOrExitTransferKept ==
  ASSUME BooksInv, NEW op \in {"join", "exit"}, NEW t \in Tokens, NEW delta \in Int,
         NEW funds \in TokenFunds, Net(funds) = Net(FundsOf(t)) + delta,
         JoinOrExitTransfer(op, t, delta, funds)
  PROVE  BooksKept
<1> DEFINE f == frames[1]
           g == [f EXCEPT !.deltas[t] = delta, !.left = @ \ {t}]
<1> USE DEF BooksInv, VaultInv
<1>1. /\ Running(op, "onJoinOrExit") /\ Continue(g) /\ t \in f.left
      /\ SetFunds([Funds EXCEPT ![t] = funds]) /\ UNCHANGED <<cash, unclaimed>>
  BY DEF JoinOrExitTransfer, books
<1>2. f \in JoinOrExitFrame /\ frames = <<f>> /\ frames # << >> /\ f.op \in {"join", "exit"}
  BY <1>1, JoinOrExitFrameRuns, RunningShape
<1>3. /\ f.left \subseteq DOMAIN f.read
      /\ \A u \in Tokens : u \in f.left \/ u \notin DOMAIN f.read => f.deltas[u] = 0
  BY <1>2 DEF FramesSettle
<1> HIDE DEF f
<1>4. /\ g \in JoinOrExitFrame /\ g.read = f.read /\ g.left = f.left \ {t}
      /\ g.deltas = [f.deltas EXCEPT ![t] = delta]
  <2>1. g = [[f EXCEPT !.deltas = [f.deltas EXCEPT ![t] = delta]] EXCEPT !.left = f.left \ {t}]
    BY <1>2 DEF JoinOrExitFrame
  <2>2. [f.deltas EXCEPT ![t] = delta] \in [Tokens -> Int] /\ f.left \ {t} \in SUBSET Tokens
    BY <1>2 DEF JoinOrExitFrame
  <2> QED BY <1>2, <2>1, <2>2 DEF JoinOrExitFrame
<1> HIDE DEF g
<1>5. f.deltas \in [Tokens -> Int]  BY <1>2 DEF JoinOrExitFrame
<1>6. \A u \in Tokens : g.deltas[u] = IF u = t THEN delta ELSE f.deltas[u]  BY <1>4, <1>5
<1>7. frames' = <<g>>  BY <1>1, <1>2, ContinueShape
<1>8. FramesSettle' /\ NotLending(frames')
  <2>1. t \in DOMAIN f.read  BY <1>1, <1>3
  <2>2. /\ g.left \subseteq DOMAIN g.read
        /\ \A u \in Tokens : u \in g.left \/ u \notin DOMAIN g.read => g.deltas[u] = 0
    BY <1>3, <1>4, <1>6, <2>1
  <2> QED BY <1>4, <1>7, <2>2, JoinOrExitSettles
<1>9. Covered'
  <2>1. NotLending(frames)  BY <1>1, RunsNoLoan
  <2> QED BY <1>1, <1>8, <2>1, SameCover
<1>10. AllBalanced'
  <2> SUFFICES ASSUME NEW u \in Tokens PROVE Balanced(u)'  BY DEF AllBalanced
  <2> DEFINE d == IF u = t THEN delta ELSE 0
  <2>1. NetOf(internalBalance'[u], balanceOf'[u]) = Net(FundsOf(u)) + d
    BY <1>1, SetOneNet, NumbersOfBooks
  <2>2. FlightOf(frames, u) = f.deltas[u] /\ FlightOf(frames', u) = g.deltas[u]
    <3>1. InFlight(f, u) = f.deltas[u] /\ InFlight(f, u) \in Int  BY <1>2, JoinOrExitInFlight
    <3>2. InFlight(g, u) = g.deltas[u] /\ InFlight(g, u) \in Int  BY <1>4, JoinOrExitInFlight
    <3>3. FlightOf(<<f>>, u) = InFlight(f, u) /\ FlightOf(<<g>>, u) = InFlight(g, u)
      BY <3>1, <3>2, OneInFlight
    <3> QED BY <1>2, <1>7, <3>1, <3>2, <3>3
  <2>3. FlightOf(frames', u) = FlightOf(frames, u) + d
    <3>1. f.deltas[u] \in Int /\ (u = t => f.deltas[u] = 0)  BY <1>1, <1>3, <1>5
    <3> QED BY <1>6, <2>2, <3>1
  <2>4. CashOf(cash', u) = CashOf(cash, u) + 0 /\ unclaimed'[u] = unclaimed[u] + 0
    BY <1>1, NumbersOfBooks
  <2>5. Balanced(u) /\ d \in Int /\ 0 \in Int  BY DEF AllBalanced
  <2> HIDE DEF d
  <2>6. d = 0 + d + 0  BY <2>5
  <2> QED BY <2>1, <2>3, <2>4, <2>5, <2>6, BothSides
<1> QED BY <1>8, <1>9, <1>10 DEF BooksKept

LEMMA JoinAndExitTransferKept ==
  ASSUME BooksInv, NEW t \in Tokens, NEW amount \in SwapAmounts, NEW fee \in FeeAmounts,
         JoinTransfer(t, amount, fee) \/ ExitTransfer(t, amount, fee)
  PROVE  BooksKept
<1> DEFINE f == frames[1]
           F == FundsOf(t)
<1> USE DEF BooksInv, VaultInv
<1>1. amount \in Int /\ fee \in Int  BY VaultAssumption
<1>2. F \in TokenFunds /\ Net(F) \in Int  BY NumbersOfBooks, NetType
<1>3. CASE JoinTransfer(t, amount, fee)
  <2>1. Running("join", "onJoinOrExit")  BY <1>3 DEF JoinTransfer, JoinOrExitTransfer
  <2>2. f.account \in Accounts /\ f.useInternalBalance \in BOOLEAN
    BY <2>1, JoinOrExitFrameRuns DEF JoinOrExitFrame
  <2> DEFINE G == Received(F, amount, f.account, f.useInternalBalance)
  <2>3. JoinOrExitTransfer("join", t, amount - fee, FeePaid(G, fee))  BY <1>3 DEF JoinTransfer
  <2> HIDE DEF f, F
  <2>4. G \in TokenFunds /\ Net(G) = Net(F) + amount  BY <1>1, <1>2, <2>2, ReceivedType, NetReceived
  <2> HIDE DEF G
  <2>5. FeePaid(G, fee) \in TokenFunds /\ Net(FeePaid(G, fee)) = Net(G) - fee
    BY <1>1, <2>4, FeePaidType, NetFeePaid
  <2>6. amount - fee \in Int /\ Net(FeePaid(G, fee)) = Net(F) + (amount - fee)
    BY <1>1, <1>2, <2>4, <2>5
  <2> QED BY <2>3, <2>5, <2>6, JoinOrExitTransferKept DEF F
<1>4. CASE ExitTransfer(t, amount, fee)
  <2>1. Running("exit", "onJoinOrExit")  BY <1>4 DEF ExitTransfer, JoinOrExitTransfer
  <2>2. f.account \in Accounts /\ f.useInternalBalance \in BOOLEAN
    BY <2>1, JoinOrExitFrameRuns DEF JoinOrExitFrame
  <2> DEFINE G == Sent(F, amount, f.account, f.useInternalBalance)
  <2>3. JoinOrExitTransfer("exit", t, -(amount + fee), FeePaid(G, fee))  BY <1>4 DEF ExitTransfer
  <2> HIDE DEF f, F
  <2>4. G \in TokenFunds /\ Net(G) = Net(F) - amount  BY <1>1, <1>2, <2>2, SentType, NetSent
  <2> HIDE DEF G
  <2>5. FeePaid(G, fee) \in TokenFunds /\ Net(FeePaid(G, fee)) = Net(G) - fee
    BY <1>1, <2>4, FeePaidType, NetFeePaid
  <2>6. -(amount + fee) \in Int /\ Net(FeePaid(G, fee)) = Net(F) + (-(amount + fee))
    BY <1>1, <1>2, <2>4, <2>5
  <2> QED BY <2>3, <2>5, <2>6, JoinOrExitTransferKept DEF F
<1> QED BY <1>3, <1>4

LEMMA EndJoinOrExitKept ==
  ASSUME BooksInv, NEW op \in {"join", "exit"}, EndJoinOrExit(op)
  PROVE  BooksKept
<1> DEFINE f == frames[1]
           deltas == f.deltas
<1> USE DEF BooksInv, VaultInv
<1>1. Running(op, "onJoinOrExit") /\ WriteBack(f, deltas) /\ Leave  BY DEF EndJoinOrExit
<1>2. f \in JoinOrExitFrame /\ frames = <<f>> /\ frames # << >> /\ f.op \in {"join", "exit"}
  BY <1>1, JoinOrExitFrameRuns, RunningShape
<1>3. \A u \in Tokens : u \notin DOMAIN f.read => f.deltas[u] = 0
  BY <1>2 DEF FramesSettle
<1>4. \A u \in DOMAIN f.read : f.read[u] = Read(f.pool, u)  BY <1>2, RunningIsFresh
<1>5. f.pool \in Pools /\ f.read \in ReadBalances /\ deltas \in [Tokens -> Int]
  BY <1>2 DEF JoinOrExitFrame
<1>6. \A u \in DOMAIN f.read : deltas[u] \in Int
  <2>1. DOMAIN f.read \subseteq Tokens  BY <1>5 DEF ReadBalances
  <2> QED BY <1>5, <2>1
<1>7. frames' = << >>  BY <1>1, <1>2, LeaveShape
<1>8. FramesSettle' /\ NotLending(frames')  BY <1>7, NoFrameSettles
<1>9. Covered'
  <2>1. NotLending(frames)  BY <1>1, RunsNoLoan
  <2> QED BY <1>8, <2>1, SameCover DEF EndJoinOrExit
<1>10. AllBalanced'
  <2> SUFFICES ASSUME NEW t \in Tokens PROVE Balanced(t)'  BY DEF AllBalanced
  <2>1. FlightOf(frames, t) = deltas[t] /\ FlightOf(frames', t) = 0
    BY <1>2, <1>7, JoinOrExitInFlight, OneInFlight, NoneInFlight
  <2>2. t \notin DOMAIN f.read => deltas[t] = 0  BY <1>3
  <2> HIDE DEF f, deltas
  <2>3. CashOf(cash', t) = CashOf(cash, t) + (IF t \in DOMAIN f.read THEN deltas[t] ELSE 0)
    BY <1>1, <1>4, <1>5, <1>6, WriteBackCash DEF TypeOK
  <2> DEFINE d == deltas[t]
  <2>4. d \in Int /\ CashOf(cash', t) = CashOf(cash, t) + d  BY <1>5, <2>2, <2>3
  <2> HIDE DEF d
  <2>5. FlightOf(frames', t) = FlightOf(frames, t) + (-d) /\ -d \in Int
    BY <2>1, <2>4 DEF d
  <2>6. /\ NetOf(internalBalance'[t], balanceOf'[t]) = Net(FundsOf(t)) + 0
        /\ unclaimed'[t] = unclaimed[t] + 0
    BY SameNet, NumbersOfBooks DEF EndJoinOrExit
  <2>7. Balanced(t) /\ 0 \in Int /\ 0 = d + (-d) + 0  BY <2>4 DEF AllBalanced
  <2> QED BY <2>4, <2>5, <2>6, <2>7, BothSides
<1> QED BY <1>8, <1>9, <1>10 DEF BooksKept

-----------------------------------------------------------------------------
\* Flash loans.

LEMMA StartLoanKept ==
  ASSUME BooksInv, NEW recipient \in Accounts, NEW tokens \in SUBSET Tokens,
         NEW amounts \in [tokens -> Amounts], NEW fees \in [tokens -> FeeAmounts],
         StartLoan(recipient, amounts, fees)
  PROVE  BooksKept
<1> USE DEF BooksInv, VaultInv
<1>1. /\ amounts \in [tokens -> Nat] /\ DOMAIN amounts = tokens /\ \A t \in tokens : amounts[t] \in Int
      /\ fees \in [tokens -> Nat]
  BY AmountsAreNat
<1> DEFINE before == [t \in DOMAIN amounts |-> PreLoanBalance(t, amounts[t])]
           f == [op |-> "loan", stage |-> "receiveFlashLoan", fees |-> fees, before |-> before]
           funds == [t \in Tokens |->
             IF t \in DOMAIN amounts THEN Transferred(FundsOf(t), TheVault, recipient, amounts[t])
                                     ELSE FundsOf(t)]
           lent(t) == IF t \in DOMAIN amounts THEN amounts[t] ELSE 0
<1>2. /\ Enter(f) /\ SetFunds(funds) /\ UNCHANGED cash
      /\ unclaimed' = [t \in Tokens |-> unclaimed[t] - lent(t)]
  BY DEF StartLoan, books
<1>3. /\ DOMAIN before = tokens /\ \A t \in tokens : before[t] = balanceOf[t][TheVault]
      /\ \A t \in tokens : before[t] \in Int
  BY <1>1, HoldersAre DEF PreLoanBalance, TypeOK, FundsTypeOK
<1>4. f \in LoanFrame /\ f.op = "loan" /\ f.before = before
  <2>1. before \in [tokens -> Int]  BY <1>3
  <2>2. before \in UNION {[S -> Int] : S \in SUBSET Tokens}  BY <2>1
  <2>3. fees \in UNION {[S -> Nat] : S \in SUBSET Tokens}  BY <1>1
  <2> QED BY <2>2, <2>3 DEF LoanFrame
<1>5. ASSUME NEW t \in Tokens
      PROVE  /\ Net(funds[t]) = Net(FundsOf(t)) + (-lent(t))
             /\ funds[t].tokens[TheVault] = balanceOf[t][TheVault] - lent(t)
             /\ lent(t) \in Int /\ -lent(t) \in Int
  <2> DEFINE F == FundsOf(t)
  <2>1. F \in TokenFunds /\ Net(F) \in Int /\ F.tokens[TheVault] = balanceOf[t][TheVault]
    BY NumbersOfBooks, NetType DEF FundsOf
  <2>2. balanceOf[t][TheVault] \in Int  BY NumbersOfBooks
  <2>3. CASE t \in tokens
    <3> DEFINE a == amounts[t]
    <3>1. funds[t] = Transferred(F, TheVault, recipient, a) /\ lent(t) = a /\ a \in Int
      BY <1>1, <2>3
    <3> HIDE DEF F, a, funds, lent
    <3>2. VaultGain(TheVault, recipient, a) = -a  BY <3>1, VaultIsNoAccount DEF VaultGain
    <3>3. /\ Net(funds[t]) = Net(F) + (-a)
          /\ funds[t].tokens[TheVault] = F.tokens[TheVault] + (-a)
      BY <2>1, <3>1, <3>2, NetTransferred, HoldersAre
    <3> QED BY <2>1, <2>2, <3>1, <3>3 DEF F
  <2>4. CASE t \notin tokens
    <3>1. funds[t] = F /\ lent(t) = 0  BY <1>1, <2>4
    <3> DEFINE a == lent(t)
    <3> HIDE DEF F, funds, lent
    <3>2. a = 0 /\ a \in Int /\ -a = 0 /\ -a \in Int
      <4>1. a = 0 /\ a \in Int  BY <3>1
      <4> HIDE DEF a
      <4> QED BY <4>1, Negated
    <3> HIDE DEF a
    <3>3. Net(funds[t]) = Net(F) + (-a) /\ funds[t].tokens[TheVault] = balanceOf[t][TheVault] - a
      BY <2>1, <2>2, <3>1, <3>2
    <3> QED BY <3>2, <3>3 DEF F, a
  <2> QED BY <2>3, <2>4
<1> HIDE DEF before, f, funds
<1>6. frames = << >> /\ frames' = <<f>>  BY <1>2, EnterShape
<1>7. frames'[1] = f /\ frames' # << >>  BY <1>6
<1>8. FramesSettle'  BY <1>4, <1>7 DEF FramesSettle
<1>9. Covered'
  <2> SUFFICES ASSUME NEW t \in Tokens
               PROVE  IF t \in tokens THEN unclaimed'[t] >= balanceOf'[t][TheVault] - before[t]
                                      ELSE unclaimed'[t] >= 0
    BY <1>3, <1>4, <1>7 DEF Covered, OnLoan
  <2>1. unclaimed[t] >= 0 /\ unclaimed[t] \in Int  BY <1>6, NumbersOfBooks DEF Covered, OnLoan
  <2>2. unclaimed'[t] = unclaimed[t] - lent(t)  BY <1>2
  <2>3. balanceOf'[t][TheVault] = balanceOf[t][TheVault] - lent(t)  BY <1>2, <1>5 DEF SetFunds
  <2>4. lent(t) \in Int /\ balanceOf[t][TheVault] \in Int  BY <1>5, NumbersOfBooks
  <2>5. t \notin tokens => lent(t) = 0  BY <1>1
  <2> HIDE DEF lent
  <2>6. CASE t \in tokens
    <3>1. before[t] = balanceOf[t][TheVault]  BY <1>3, <2>6
    <3> QED BY <2>1, <2>2, <2>3, <2>4, <2>6, <3>1
  <2>7. CASE t \notin tokens  BY <2>1, <2>2, <2>5, <2>7
  <2> QED BY <2>6, <2>7
<1>10. AllBalanced'
  <2> SUFFICES ASSUME NEW t \in Tokens PROVE Balanced(t)'  BY DEF AllBalanced
  <2> DEFINE d == -lent(t)
  <2>1. d \in Int  BY <1>5
  <2>2. NetOf(internalBalance'[t], balanceOf'[t]) = Net(FundsOf(t)) + d  BY <1>2, <1>5, SetNet
  <2>3. unclaimed'[t] = unclaimed[t] + d
    <3>1. unclaimed'[t] = unclaimed[t] - lent(t) /\ unclaimed[t] \in Int /\ lent(t) \in Int
      BY <1>2, <1>5, NumbersOfBooks
    <3> HIDE DEF lent
    <3> QED BY <3>1
  <2> HIDE DEF d
  <2>4. FlightOf(frames, t) = 0 /\ FlightOf(frames', t) = 0
    BY <1>4, <1>6, LoanInFlight, OneInFlight, NoneInFlight
  <2>5. CashOf(cash', t) = CashOf(cash, t) + 0 /\ FlightOf(frames', t) = FlightOf(frames, t) + 0
    BY <1>2, <2>4, NumbersOfBooks
  <2>6. Balanced(t) /\ 0 \in Int /\ d = 0 + 0 + d  BY <2>1 DEF AllBalanced
  <2> QED BY <2>1, <2>2, <2>3, <2>5, <2>6, BothSides
<1> QED BY <1>8, <1>9, <1>10 DEF BooksKept

\* What came back above the balance before the loan goes out as a fee, and no more.
LEMMA EndLoanKept == ASSUME BooksInv, EndLoan PROVE BooksKept
<1> DEFINE f == frames[1]
           extra(t) == IF t \in DOMAIN f.before THEN balanceOf[t][TheVault] - f.before[t] ELSE 0
           funds == [t \in Tokens |-> FeePaid(FundsOf(t), extra(t))]
<1> USE DEF BooksInv, VaultInv
<1>1. /\ Running("loan", "receiveFlashLoan") /\ SetFunds(funds) /\ Leave /\ UNCHANGED cash
      /\ unclaimed' = [t \in Tokens |-> unclaimed[t] - extra(t)]
  BY DEF EndLoan, books
<1>2. f \in LoanFrame /\ frames = <<f>> /\ frames # << >> /\ f.op = "loan"
  BY <1>1, LoanFrameRuns, RunningShape
<1>3. \A t \in Tokens : extra(t) \in Int
  BY <1>2, HoldersAre DEF LoanFrame, TypeOK, FundsTypeOK
<1>4. \A t \in Tokens : unclaimed[t] >= extra(t)
  <2> SUFFICES ASSUME NEW t \in Tokens PROVE unclaimed[t] >= extra(t)  OBVIOUS
  <2>1. OnLoan(t) <=> t \in DOMAIN f.before  BY <1>2 DEF OnLoan
  <2> QED BY <2>1 DEF Covered
<1> HIDE DEF f, extra
<1>5. ASSUME NEW t \in Tokens PROVE Net(funds[t]) = Net(FundsOf(t)) + (-extra(t))
  <2> DEFINE F == FundsOf(t)
             x == extra(t)
  <2>1. F \in TokenFunds /\ Net(F) \in Int /\ x \in Int  BY <1>3, NumbersOfBooks, NetType
  <2>2. funds[t] = FeePaid(F, x)  OBVIOUS
  <2> HIDE DEF F, x, funds
  <2>3. Net(funds[t]) = Net(F) - x  BY <2>1, <2>2, NetFeePaid
  <2>4. Net(funds[t]) = Net(F) + (-x)  BY <2>1, <2>3
  <2> QED BY <2>4 DEF F, x
<1> HIDE DEF funds
<1>6. frames' = << >>  BY <1>1, <1>2, LeaveShape
<1>7. FramesSettle'  BY <1>6, NoFrameSettles
<1>8. Covered'
  <2>1. \A t \in Tokens : unclaimed'[t] >= 0
    <3> SUFFICES ASSUME NEW t \in Tokens PROVE unclaimed'[t] >= 0  OBVIOUS
    <3>1. unclaimed'[t] = unclaimed[t] - extra(t) /\ unclaimed[t] >= extra(t)  BY <1>1, <1>4
    <3>2. unclaimed[t] \in Int /\ extra(t) \in Int  BY <1>3, NumbersOfBooks
    <3> QED BY <3>1, <3>2
  <2> QED BY <1>6, <2>1 DEF Covered, OnLoan
<1>9. AllBalanced'
  <2> SUFFICES ASSUME NEW t \in Tokens PROVE Balanced(t)'  BY DEF AllBalanced
  <2> DEFINE d == -extra(t)
  <2>1. d \in Int /\ extra(t) \in Int  BY <1>3
  <2>2. NetOf(internalBalance'[t], balanceOf'[t]) = Net(FundsOf(t)) + d  BY <1>1, <1>5, SetNet
  <2>3. unclaimed'[t] = unclaimed[t] + d
    <3>1. unclaimed'[t] = unclaimed[t] - extra(t) /\ unclaimed[t] \in Int
      BY <1>1, NumbersOfBooks
    <3> QED BY <2>1, <3>1
  <2> HIDE DEF d
  <2>4. FlightOf(frames, t) = 0 /\ FlightOf(frames', t) = 0
    BY <1>2, <1>6, LoanInFlight, OneInFlight, NoneInFlight
  <2>5. CashOf(cash', t) = CashOf(cash, t) + 0 /\ FlightOf(frames', t) = FlightOf(frames, t) + 0
    BY <1>1, <2>4, NumbersOfBooks
  <2>6. Balanced(t) /\ 0 \in Int /\ d = 0 + 0 + d  BY <2>1 DEF AllBalanced
  <2> QED BY <2>1, <2>2, <2>3, <2>5, <2>6, BothSides
<1> QED BY <1>7, <1>8, <1>9 DEF BooksKept

-----------------------------------------------------------------------------
\* Calls that need no frame.

\* Funds change in one token only.
LEMMA OneTokenMoves ==
  ASSUME VaultInv, AllBalanced, UNCHANGED frames, NEW t \in Tokens, NEW f, NEW gain \in Int,
         NEW booked \in Int, NEW claims \in Int, gain = booked + claims,
         SetFunds([Funds EXCEPT ![t] = f]), Net(f) = Net(FundsOf(t)) + gain,
         \A u \in Tokens : CashOf(cash', u) = CashOf(cash, u) + (IF u = t THEN booked ELSE 0),
         \A u \in Tokens : unclaimed'[u] = unclaimed[u] + (IF u = t THEN claims ELSE 0)
  PROVE  AllBalanced'
<1> SUFFICES ASSUME NEW u \in Tokens PROVE Balanced(u)'  BY DEF AllBalanced
<1>1. FlightOf(frames', u) = FlightOf(frames, u) + 0  BY NumbersOfBooks
<1>2. Balanced(u) /\ 0 \in Int /\ 0 = 0 + 0 + 0  BY DEF AllBalanced
<1>3. CASE u = t
  <2>1. NetOf(internalBalance'[u], balanceOf'[u]) = Net(FundsOf(u)) + gain  BY <1>3, SetOneNet
  <2>2. CashOf(cash', u) = CashOf(cash, u) + booked /\ unclaimed'[u] = unclaimed[u] + claims
    BY <1>3
  <2>3. gain = booked + 0 + claims  OBVIOUS
  <2> QED BY <1>1, <1>2, <2>1, <2>2, <2>3, BothSides
<1>4. CASE u # t
  <2>1. NetOf(internalBalance'[u], balanceOf'[u]) = Net(FundsOf(u)) + 0
    BY <1>4, SetOneNet, NumbersOfBooks
  <2>2. CashOf(cash', u) = CashOf(cash, u) + 0 /\ unclaimed'[u] = unclaimed[u] + 0
    BY <1>4
  <2> QED BY <1>1, <1>2, <2>1, <2>2, BothSides
<1> QED BY <1>3, <1>4

LEMMA RegistrationKept ==
  ASSUME BooksInv, NEW p, NEW tokens, RegisterTokens(p, tokens) \/ DeregisterTokens(p, tokens)
  PROVE  BooksKept
<1>1. Locked /\ UNCHANGED <<internalBalance, balanceOf, cash, unclaimed>>
  BY DEF RegisterTokens, DeregisterTokens
<1>2. FramesSettle' /\ frames = << >> /\ frames' = << >>  BY <1>1, LockedKept
<1> QED BY <1>1, <1>2, QuietKept DEF NotLending

LEMMA SetPausedKept == ASSUME BooksInv, NEW newPaused, SetPaused(newPaused) PROVE BooksKept
<1>1. Locked /\ UNCHANGED <<internalBalance, balanceOf, cash, unclaimed>>
  BY DEF SetPaused, books
<1>2. FramesSettle' /\ frames = << >> /\ frames' = << >>  BY <1>1, LockedKept
<1> QED BY <1>1, <1>2, QuietKept DEF NotLending

\* What comes in or goes out is what Internal Balance grows or falls by.
LEMMA UserBalanceOpKept ==
  ASSUME BooksInv, NEW t \in Tokens, NEW kind, NEW f, UserBalanceOp(t, kind, f),
         Net(f) = Net(FundsOf(t))
  PROVE  BooksKept
<1>1. /\ Locked /\ SetFunds([Funds EXCEPT ![t] = f]) /\ UNCHANGED <<cash, unclaimed>>
  BY DEF UserBalanceOp, books
<1>2. FramesSettle' /\ Covered' /\ UNCHANGED frames  BY <1>1, LockedKept
<1>3. AllBalanced'  BY <1>1, <1>2, SameNets DEF BooksInv
<1> QED BY <1>2, <1>3 DEF BooksKept

LEMMA UserBalanceKept == ASSUME BooksInv, UserBalanceNext PROVE BooksKept
<1>1. PICK t \in Tokens, sender \in Accounts, recipient \in Accounts, amount \in Amounts :
        \/ DepositInternal(t, sender, recipient, amount)
        \/ WithdrawInternal(t, sender, recipient, amount)
        \/ TransferInternal(t, sender, recipient, amount)
        \/ TransferExternal(t, sender, recipient, amount)
  BY DEF UserBalanceNext
<1> DEFINE F == FundsOf(t)
           In == Credited(F, recipient, amount)
           Out == Credited(F, sender, -amount)
<1>2. amount \in Int /\ -amount \in Int  BY VaultAssumption
<1>3. F \in TokenFunds /\ Net(F) \in Int  BY NumbersOfBooks, NetType DEF BooksInv
<1> HIDE DEF F
<1>4. In \in TokenFunds /\ Net(In) = Net(F) - amount  BY <1>2, <1>3, CreditedType, NetCredited
<1>5. Out \in TokenFunds /\ Net(Out) = Net(F) - (-amount)  BY <1>2, <1>3, CreditedType, NetCredited
<1> HIDE DEF In, Out
<1>6. Net(Received(In, amount, sender, FALSE)) = Net(F)
  <2> DEFINE n == Net(Received(In, amount, sender, FALSE))
  <2>1. n = Net(In) + amount  BY <1>2, <1>4, NetReceived
  <2> HIDE DEF n
  <2>2. n = Net(F)  BY <1>2, <1>3, <1>4, <2>1
  <2> QED BY <2>2 DEF n
<1>7. Net(Sent(Out, amount, recipient, FALSE)) = Net(F)
  <2> DEFINE n == Net(Sent(Out, amount, recipient, FALSE))
  <2>1. n = Net(Out) - amount  BY <1>2, <1>5, NetSent
  <2> HIDE DEF n
  <2>2. n = Net(F)  BY <1>2, <1>3, <1>5, <2>1
  <2> QED BY <2>2 DEF n
<1>8. Net(Credited(Out, recipient, amount)) = Net(F)
  <2>1. Net(Credited(Out, recipient, amount)) = Net(Out) - amount  BY <1>2, <1>5, NetCredited
  <2> QED BY <1>2, <1>3, <1>5, <2>1
<1>9. Net(Transferred(F, sender, recipient, amount)) = Net(F)
  <2>1. VaultGain(sender, recipient, amount) = 0  BY VaultIsNoAccount DEF VaultGain
  <2>2. Net(Transferred(F, sender, recipient, amount)) = Net(F) + 0
    BY <1>2, <1>3, <2>1, NetTransferred, HoldersAre
  <2> QED BY <1>3, <2>2
<1> QED BY <1>1, <1>6, <1>7, <1>8, <1>9, UserBalanceOpKept
        DEF DepositInternal, WithdrawInternal, TransferInternal, TransferExternal, F, In, Out

LEMMA CashOfOne ==
  ASSUME VaultInv, NEW p \in Pools, NEW t \in Tokens, NEW d \in Int,
         cash' = [cash EXCEPT ![p] = [cash[p] EXCEPT ![t] = cash[p][t] + d]]
  PROVE  \A u \in Tokens : CashOf(cash', u) = CashOf(cash, u) + (IF u = t THEN d ELSE 0)
<1> SUFFICES ASSUME NEW u \in Tokens
             PROVE  CashOf(cash', u) = CashOf(cash, u) + (IF u = t THEN d ELSE 0)
  OBVIOUS
<1> DEFINE row == [cash[p] EXCEPT ![t] = cash[p][t] + d]
           gain == IF u = t THEN d ELSE 0
<1>1. cash \in [Pools -> [Tokens -> Int]]  BY DEF VaultInv, TypeOK, BooksTypeOK
<1>2. row \in [Tokens -> Int] /\ row[u] = cash[p][u] + gain /\ gain \in Int /\ cash[p][u] \in Int
  BY <1>1
<1>3. cash' = [cash EXCEPT ![p] = row]  OBVIOUS
<1> HIDE DEF row, gain
<1>4. CashOf(cash', u) = CashOf(cash, u) - cash[p][u] + row[u]
  <2>1. CashOf([cash EXCEPT ![p] = row], u) = CashOf(cash, u) - cash[p][u] + row[u]
    BY <1>1, <1>2, CashUpdate
  <2> QED BY <1>3, <2>1
<1>5. CashOf(cash, u) \in Int  BY <1>1, CashType
<1>6. CashOf(cash', u) = CashOf(cash, u) + gain  BY <1>2, <1>4, <1>5
<1> QED BY <1>6 DEF gain

\* An Asset Manager takes and brings back what the cash loses and gains.
LEMMA ManageKept ==
  ASSUME BooksInv, NEW p \in Pools, NEW t \in Tokens, NEW amount \in Amounts,
         \/ WithdrawPoolBalance(p, t, amount)
         \/ DepositPoolBalance(p, t, amount)
         \/ UpdateManagedBalance(p, t, amount)
  PROVE  BooksKept
<1> USE DEF BooksInv
<1> DEFINE F == FundsOf(t)
           M == AssetManagerOf[p]
<1>1. Locked /\ UNCHANGED unclaimed
  BY DEF WithdrawPoolBalance, DepositPoolBalance, UpdateManagedBalance, ManagePoolBalance
<1>2. FramesSettle' /\ Covered' /\ frames = << >> /\ frames' = << >>  BY <1>1, LockedKept
<1>3. amount \in Int /\ -amount \in Int  BY VaultAssumption
<1>4. F \in TokenFunds /\ M \in Accounts  BY NumbersOfBooks, VaultAssumption
<1>5. \A u \in Tokens : unclaimed'[u] = unclaimed[u] + (IF u = t THEN 0 ELSE 0)
  BY <1>1, NumbersOfBooks
<1>6. Funds[t] = F /\ cash[p][t] \in Int /\ cash \in [Pools -> [Tokens -> Int]]
  BY DEF Funds, VaultInv, TypeOK, BooksTypeOK
<1>7. CASE WithdrawPoolBalance(p, t, amount)
  <2> DEFINE d == -amount
             G == Transferred(F, TheVault, M, amount)
  <2>1. cash' = [cash EXCEPT ![p] = [cash[p] EXCEPT ![t] = cash[p][t] + d]]
    <3>1. cash[p][t] - amount = cash[p][t] + d  BY <1>3, <1>6
    <3> HIDE DEF d
    <3> QED BY <1>6, <1>7, <3>1 DEF WithdrawPoolBalance
  <2>2. SetFunds([Funds EXCEPT ![t] = G])  BY <1>6, <1>7 DEF WithdrawPoolBalance, Funds
  <2> HIDE DEF F, M
  <2>3. Net(G) = Net(F) + d
    <3>1. VaultGain(TheVault, M, amount) = d  BY <1>3, <1>4, VaultIsNoAccount DEF VaultGain
    <3> QED BY <1>3, <1>4, <3>1, NetTransferred, HoldersAre
  <2> HIDE DEF d, G
  <2>4. d \in Int /\ 0 \in Int /\ d = d + 0  BY <1>3 DEF d
  <2>5. \A u \in Tokens : CashOf(cash', u) = CashOf(cash, u) + (IF u = t THEN d ELSE 0)
    BY <2>1, <2>4, CashOfOne
  <2>6. AllBalanced'  BY <1>2, <1>5, <2>2, <2>3, <2>4, <2>5, OneTokenMoves DEF F
  <2> QED BY <1>2, <2>6 DEF BooksKept
<1>8. CASE DepositPoolBalance(p, t, amount)
  <2> DEFINE G == Transferred(F, M, TheVault, amount)
  <2>1. cash' = [cash EXCEPT ![p] = [cash[p] EXCEPT ![t] = cash[p][t] + amount]]
    BY <1>6, <1>8 DEF DepositPoolBalance
  <2>2. SetFunds([Funds EXCEPT ![t] = G])  BY <1>6, <1>8 DEF DepositPoolBalance, Funds
  <2> HIDE DEF F, M
  <2>3. Net(G) = Net(F) + amount
    <3>1. VaultGain(M, TheVault, amount) = amount  BY <1>3, <1>4, VaultIsNoAccount DEF VaultGain
    <3> QED BY <1>3, <1>4, <3>1, NetTransferred, HoldersAre
  <2> HIDE DEF G
  <2>4. 0 \in Int /\ amount = amount + 0  BY <1>3
  <2>5. \A u \in Tokens : CashOf(cash', u) = CashOf(cash, u) + (IF u = t THEN amount ELSE 0)
    BY ZenonT(30), <1>3, <2>1, CashOfOne
  <2>6. AllBalanced'  BY <1>2, <1>3, <1>5, <2>2, <2>3, <2>4, <2>5, OneTokenMoves DEF F
  <2> QED BY <1>2, <2>6 DEF BooksKept
<1>9. CASE UpdateManagedBalance(p, t, amount)
  <2>1. UNCHANGED <<internalBalance, balanceOf, cash, unclaimed>>
    BY <1>9 DEF UpdateManagedBalance
  <2> QED BY <1>2, <2>1, QuietKept DEF NotLending
<1> QED BY <1>7, <1>8, <1>9

-----------------------------------------------------------------------------
\* What happens beside the Vault.

LEMMA SettlesOn == ASSUME FramesSettle, UNCHANGED frames PROVE FramesSettle'
BY DEF FramesSettle

\* What the Vault holds of one token grows, and with it what nobody claims.
LEMMA CoverGrows ==
  ASSUME VaultInv, Covered, UNCHANGED frames, NEW t \in Tokens, NEW f, NEW gain \in Nat,
         SetFunds([Funds EXCEPT ![t] = f]),
         f.tokens[TheVault] = balanceOf[t][TheVault] + gain,
         \A u \in Tokens : unclaimed'[u] = unclaimed[u] + (IF u = t THEN gain ELSE 0)
  PROVE  Covered'
<1> SUFFICES ASSUME NEW u \in Tokens
             PROVE  IF OnLoan(u) THEN unclaimed'[u] >= balanceOf'[u][TheVault] - frames[1].before[u]
                                 ELSE unclaimed'[u] >= 0
  BY DEF Covered, OnLoan
<1> DEFINE g == IF u = t THEN gain ELSE 0
           b == balanceOf[u][TheVault]
           w == unclaimed[u]
<1>1. balanceOf'[u] = IF u = t THEN f.tokens ELSE balanceOf[u]  BY DEF SetFunds, Funds, FundsOf
<1>2. b \in Int /\ w \in Int /\ g \in Int /\ g >= 0  BY NumbersOfBooks
<1>3. balanceOf'[u][TheVault] = b + g /\ unclaimed'[u] = w + g
  BY <1>1, <1>2
<1> HIDE DEF g
<1>4. CASE OnLoan(u)
  <2> DEFINE x == frames[1].before[u]
  <2>1. w >= b - x  BY <1>4 DEF Covered
  <2>2. x \in Int
    <3>1. PICK h \in Frame : frames = <<h>>  BY <1>4 DEF VaultInv, OneCall, OnLoan
    <3>2. h \in LoanFrame /\ u \in DOMAIN h.before
      BY <1>4, <3>1 DEF OnLoan, Frame, SwapFrame, JoinOrExitFrame, LoanFrame
    <3>3. h.before[u] \in Int  BY <3>2 DEF LoanFrame
    <3> QED BY <3>1, <3>3
  <2> HIDE DEF b, w, x
  <2>3. w + g >= (b + g) - x  BY <1>2, <2>1, <2>2
  <2> QED BY <1>3, <1>4, <2>3 DEF x
<1>5. CASE ~OnLoan(u)
  <2>1. w >= 0  BY <1>5 DEF Covered
  <2> HIDE DEF b, w
  <2> QED BY <1>2, <1>3, <1>5, <2>1
<1> QED BY <1>4, <1>5

LEMMA TransferKept ==
  ASSUME BooksInv, UNCHANGED <<frames, cash>>, NEW t \in Tokens, NEW from \in Holders, from # TheVault,
         NEW to \in Holders, NEW amount \in Nat,
         SetFunds([Funds EXCEPT ![t] = Transferred(@, from, to, amount)]),
         unclaimed' = IF to = TheVault THEN [unclaimed EXCEPT ![t] = @ + amount] ELSE unclaimed
  PROVE  BooksKept
<1> USE DEF BooksInv
<1> DEFINE F == FundsOf(t)
           G == Transferred(F, from, to, amount)
           gain == IF to = TheVault THEN amount ELSE 0
<1>1. F \in TokenFunds /\ F.tokens[TheVault] = balanceOf[t][TheVault]
  BY NumbersOfBooks DEF FundsOf
<1>2. SetFunds([Funds EXCEPT ![t] = G])
  <2>1. Funds[t] = F /\ DOMAIN Funds = Tokens  BY DEF Funds
  <2> QED BY <2>1
<1> HIDE DEF F
<1>3. gain \in Nat /\ gain \in Int /\ VaultGain(from, to, amount) = gain  BY DEF VaultGain
<1>4. G.tokens[TheVault] = balanceOf[t][TheVault] + gain /\ Net(G) = Net(F) + gain
  BY <1>1, <1>3, NetTransferred
<1>5. \A u \in Tokens : unclaimed'[u] = unclaimed[u] + (IF u = t THEN gain ELSE 0)
  <2>1. \A u \in Tokens : unclaimed[u] \in Int  BY NumbersOfBooks
  <2>2. DOMAIN unclaimed = Tokens  BY DEF VaultInv, TypeOK, FundsTypeOK
  <2> QED BY <2>1, <2>2
<1> HIDE DEF G, gain
<1>6. Covered'  BY <1>2, <1>3, <1>4, <1>5, CoverGrows
<1>7. AllBalanced'
  <2>1. \A u \in Tokens : CashOf(cash', u) = CashOf(cash, u) + (IF u = t THEN 0 ELSE 0)
    BY NumbersOfBooks
  <2>2. 0 \in Int /\ gain = 0 + gain  BY <1>3
  <2> QED BY <1>2, <1>3, <1>4, <1>5, <2>1, <2>2, OneTokenMoves DEF F
<1> QED BY <1>6, <1>7, SettlesOn DEF BooksKept

LEMMA TransfersAndTimeKept == ASSUME BooksInv, TransfersAndTime PROVE BooksKept
<1> USE DEF BooksInv
<1>1. ASSUME NEW t \in Tokens, NEW from \in Accounts, NEW to \in Accounts \cup {TheVault},
             NEW amount \in Amounts, TransferToken(t, from, to, amount)
      PROVE  BooksKept
  <2>1. from \in Holders /\ to \in Holders /\ amount \in Nat /\ from # TheVault
    BY VaultAssumption, HoldersAre
  <2> QED BY <1>1, <2>1, TransferKept DEF TransferToken, books
<1>2. ASSUME NEW t \in Tokens, NEW recipient \in Accounts, NEW amount \in Amounts,
             WithdrawCollectedFees(t, recipient, amount)
      PROVE  BooksKept
  <2>1. recipient \in Holders /\ amount \in Nat /\ recipient # TheVault /\ FeesCollector # TheVault
    BY VaultAssumption, HoldersAre
  <2> QED BY <1>2, <2>1, TransferKept, HoldersAre DEF WithdrawCollectedFees, books
<1>3. CASE TimePasses
  <2>1. UNCHANGED <<internalBalance, balanceOf, cash, unclaimed, frames>> /\ frames = << >>
    BY <1>3 DEF TimePasses, vaultVars
  <2> QED BY <2>1, QuietKept, SettlesOn DEF NotLending
<1> QED BY <1>1, <1>2, <1>3 DEF TransfersAndTime

-----------------------------------------------------------------------------
\* The invariant holds at first and is kept by every step.

LEMMA BooksInit == ASSUME Init PROVE BooksInv
<1>1. FramesSettle  BY DEF Init, FramesSettle
<1>2. Covered  BY DEF Init, Covered, OnLoan, Zero
<1>3. AllBalanced
  <2> SUFFICES ASSUME NEW t \in Tokens PROVE Balanced(t)  BY DEF AllBalanced
  <2> DEFINE none == [a \in Accounts |-> 0]
             F == [p \in Pools |-> cash[p][t]]
  <2>1. /\ IsFiniteSet(Pools) /\ IsFiniteSet(Accounts)
        /\ none \in [Accounts -> Int] /\ \A a \in Accounts : none[a] = 0
        /\ F \in [Pools -> Int] /\ \A p \in Pools : F[p] = 0
    BY VaultAssumption DEF Init, Zero
  <2>2. internalBalance[t] = none /\ balanceOf[t][TheVault] = 0 /\ unclaimed[t] = 0 /\ frames = << >>
    BY DEF Init, InitialBalances, Zero
  <2>3. CashOf(cash, t) = SumFunction(F)  BY DEF CashOf
  <2> HIDE DEF none, F
  <2>4. SumFunction(none) = 0 /\ SumFunction(F) = 0  BY <2>1, SumOfZeros
  <2>5. FlightOf(frames, t) = 0  BY <2>2, NoneInFlight
  <2> QED BY <2>2, <2>3, <2>4, <2>5 DEF Balanced, NetOf
<1> QED BY <1>1, <1>2, <1>3, VaultInvInit DEF BooksInv

LEMMA BooksStutter == ASSUME BooksInv, UNCHANGED vars PROVE BooksInv'
<1>1. UNCHANGED <<internalBalance, balanceOf, cash, unclaimed, frames>>  BY DEF vars, vaultVars
<1>2. VaultInv'  BY VaultInvStutter DEF BooksInv
<1>3. FramesSettle'  BY <1>1, SettlesOn DEF BooksInv
<1>4. Covered'  BY <1>1 DEF BooksInv, Covered, OnLoan
<1>5. AllBalanced'  BY <1>1, SameBalance DEF BooksInv
<1> QED BY <1>2, <1>3, <1>4, <1>5 DEF BooksInv

LEMMA BooksNext == ASSUME BooksInv, Next PROVE BooksInv'
<1>1. VaultInv'  BY VaultInvNext DEF BooksInv
<1>2. BooksKept
  <2>1. CASE SwapNext
    BY <2>1, StartSwapKept, AskPoolKept, PoolAnswersKept, EndSwapKept DEF SwapNext
  <2>2. CASE JoinExitNext
    BY <2>2, StartJoinOrExitKept, JoinAndExitTransferKept, EndJoinOrExitKept DEF JoinExitNext
  <2>3. CASE LoanNext  BY <2>3, StartLoanKept, EndLoanKept DEF LoanNext
  <2>4. CASE UserBalanceNext  BY <2>4, UserBalanceKept
  <2>5. CASE PoolNext  BY <2>5, RegistrationKept, ManageKept DEF PoolNext
  <2>6. CASE \E newPaused \in BOOLEAN : SetPaused(newPaused)  BY <2>6, SetPausedKept
  <2>7. CASE TransfersAndTime  BY <2>7, TransfersAndTimeKept
  <2> QED BY <2>1, <2>2, <2>3, <2>4, <2>5, <2>6, <2>7 DEF Next
<1> QED BY <1>1, <1>2 DEF BooksInv, BooksKept

\* Between any two steps of any calls the books of the Vault are in order: no operation
\* books a token twice or forgets one, nor lends more than it gets back.
THEOREM BooksInvariance == Spec => []BooksInv
<1>1. Init => BooksInv  BY BooksInit
<1>2. BooksInv /\ [Next]_vars => BooksInv'  BY BooksNext, BooksStutter
<1> QED BY <1>1, <1>2, PTL DEF Spec

\* What the Vault owes is what it holds and somebody claims.
Held(t) == balanceOf[t][TheVault] - unclaimed[t]

OwesHeld == \A t \in Tokens : Owed(t) = Held(t)

LEMMA OwedIsHeld ==
  BooksInv => \A t \in Tokens : /\ Owed(t) = Held(t) /\ Held(t) \in Int
                                /\ balanceOf[t][TheVault] = Owed(t) + unclaimed[t]
<1> SUFFICES ASSUME BooksInv, NEW t \in Tokens
             PROVE  /\ Owed(t) = Held(t) /\ Held(t) \in Int
                    /\ balanceOf[t][TheVault] = Owed(t) + unclaimed[t]
  OBVIOUS
<1> DEFINE b == balanceOf[t][TheVault]
           s == SumFunction(internalBalance[t])
           c == CashOf(cash, t)
           i == FlightOf(frames, t)
           u == unclaimed[t]
<1>1. b \in Int /\ s \in Int /\ c \in Int /\ i \in Int /\ u \in Int
  BY NumbersOfBooks DEF BooksInv
<1>2. b - s = c + i + u  BY DEF BooksInv, AllBalanced, Balanced, NetOf
<1>3. Owed(t) = (c + s) + i  BY DEF Owed, Booked, CashOf, FlightOf
<1>4. Held(t) = b - u  BY DEF Held
<1> HIDE DEF b, s, c, i, u
<1>5. Owed(t) = Held(t) /\ Held(t) \in Int /\ b = Owed(t) + u  BY <1>1, <1>2, <1>3, <1>4
<1> QED BY <1>5 DEF b, u

\* The books of Swaps, PoolBalances, UserBalance, AssetManagers and FlashLoans together
\* account for every token of the Vault, at every moment of every call.
THEOREM BooksAlwaysBalance == Spec => []BooksBalance
<1>1. BooksInv => BooksBalance  BY OwedIsHeld DEF BooksBalance
<1> QED BY <1>1, BooksInvariance, PTL

\* Between calls the Vault can pay all Pools and accounts at once.
THEOREM AlwaysSolvent == Spec => []Solvent
<1>1. BooksInv => Solvent
  <2> SUFFICES ASSUME BooksInv, frames = << >>, NEW t \in Tokens
               PROVE  balanceOf[t][TheVault] >= Booked(t)
    BY DEF Solvent
  <2> DEFINE b == balanceOf[t][TheVault]
             c == CashOf(cash, t)
             s == SumFunction(internalBalance[t])
             u == unclaimed[t]
  <2>1. b \in Int /\ c \in Int /\ s \in Int /\ u \in Int  BY NumbersOfBooks DEF BooksInv
  <2>2. u >= 0  BY DEF BooksInv, Covered, OnLoan
  <2>3. FlightOf(frames, t) = 0  BY NoneInFlight
  <2>4. b - s = c + FlightOf(frames, t) + u  BY DEF BooksInv, AllBalanced, Balanced, NetOf
  <2>5. Booked(t) = c + s  BY DEF Booked, CashOf
  <2> HIDE DEF b, c, s, u
  <2>6. b >= c + s  BY <2>1, <2>2, <2>3, <2>4
  <2> QED BY <2>5, <2>6 DEF b
<1> QED BY <1>1, BooksInvariance, PTL

-----------------------------------------------------------------------------
\* The pause.

\* What is held and claimed only shrinks.
HeldShrinks == \A t \in Tokens : Held(t)' <= Held(t)

LEMMA HeldSame ==
  ASSUME VaultInv, UNCHANGED <<balanceOf, unclaimed>>
  PROVE  HeldShrinks
<1> SUFFICES ASSUME NEW t \in Tokens PROVE Held(t)' <= Held(t)  BY DEF HeldShrinks
<1>1. Held(t)' = Held(t)  BY DEF Held
<1>2. Held(t) \in Int  BY NumbersOfBooks DEF Held
<1> QED BY <1>1, <1>2

\* Funds of one token move, and nobody claims more of them than before.
LEMMA HeldOne ==
  ASSUME VaultInv, NEW t \in Tokens, NEW f, NEW gain \in Int, NEW claims \in Int, gain <= claims,
         SetFunds([Funds EXCEPT ![t] = f]), f.tokens[TheVault] = balanceOf[t][TheVault] + gain,
         \A u \in Tokens : unclaimed'[u] = unclaimed[u] + (IF u = t THEN claims ELSE 0)
  PROVE  HeldShrinks
<1> SUFFICES ASSUME NEW u \in Tokens PROVE Held(u)' <= Held(u)  BY DEF HeldShrinks
<1> DEFINE b == balanceOf[u][TheVault]
           w == unclaimed[u]
<1>1. balanceOf'[u] = IF u = t THEN f.tokens ELSE balanceOf[u]  BY DEF SetFunds, Funds, FundsOf
<1>2. b \in Int /\ w \in Int  BY NumbersOfBooks
<1>3. Held(u) = b - w /\ Held(u)' = balanceOf'[u][TheVault] - unclaimed'[u]  BY DEF Held
<1>4. CASE u = t
  <2>1. balanceOf'[u][TheVault] = b + gain /\ unclaimed'[u] = w + claims  BY <1>1, <1>4
  <2> HIDE DEF b, w
  <2> QED BY <1>2, <1>3, <2>1
<1>5. CASE u # t
  <2>1. balanceOf'[u][TheVault] = b /\ unclaimed'[u] = w  BY <1>1, <1>2, <1>5
  <2> HIDE DEF b, w
  <2> QED BY <1>2, <1>3, <2>1
<1> QED BY <1>4, <1>5

\* Sending takes from the Vault or leaves its tokens alone, and so does paying a fee.
LEMMA SentTakes ==
  ASSUME NEW f \in TokenFunds, NEW amount \in Nat, NEW recipient \in Accounts,
         NEW toInternalBalance \in BOOLEAN
  PROVE  \E d \in Int : d <= 0 /\ Sent(f, amount, recipient, toInternalBalance).tokens[TheVault]
                                   = f.tokens[TheVault] + d
<1>1. f.tokens[TheVault] \in Int  BY HoldersAre DEF TokenFunds
<1>2. CASE toInternalBalance
  <2>1. Sent(f, amount, recipient, toInternalBalance).tokens = f.tokens
    BY <1>2 DEF Sent, Credited, TokenFunds
  <2>2. 0 \in Int /\ 0 <= 0 /\ f.tokens[TheVault] = f.tokens[TheVault] + 0  BY <1>1
  <2> QED BY <2>1, <2>2
<1>3. CASE ~toInternalBalance
  <2> DEFINE d == -amount
  <2>1. d \in Int /\ d <= 0  OBVIOUS
  <2>2. VaultGain(TheVault, recipient, amount) = d  BY VaultIsNoAccount DEF VaultGain
  <2> HIDE DEF d
  <2>3. Transferred(f, TheVault, recipient, amount).tokens[TheVault] = f.tokens[TheVault] + d
    BY <2>2, NetTransferred, HoldersAre
  <2>4. Sent(f, amount, recipient, toInternalBalance) = Transferred(f, TheVault, recipient, amount)
    BY <1>3 DEF Sent
  <2> QED BY <2>1, <2>3, <2>4
<1> QED BY <1>2, <1>3

LEMMA FeeTakes ==
  ASSUME NEW f \in TokenFunds, NEW amount \in Nat
  PROVE  FeePaid(f, amount).tokens[TheVault] = f.tokens[TheVault] + (-amount)
<1>1. VaultGain(TheVault, FeesCollector, amount) = -amount  BY VaultIsNoAccount DEF VaultGain
<1> QED BY <1>1, NetTransferred, HoldersAre DEF FeePaid

LEMMA ExitTransferHolds ==
  ASSUME PausedInv, NEW t \in Tokens, NEW amount \in SwapAmounts, NEW fee \in FeeAmounts,
         ExitTransfer(t, amount, fee)
  PROVE  HeldShrinks
<1> DEFINE f == frames[1]
           F == FundsOf(t)
           G == Sent(F, amount, f.account, f.useInternalBalance)
<1> USE DEF PausedInv, VaultInv
<1>1. amount \in Nat /\ fee \in Nat /\ amount \in Int  BY VaultAssumption
<1>2. F \in TokenFunds /\ F.tokens[TheVault] = balanceOf[t][TheVault] /\ balanceOf[t][TheVault] \in Int
  BY NumbersOfBooks DEF FundsOf
<1>3. Running("exit", "onJoinOrExit")  BY DEF ExitTransfer, JoinOrExitTransfer
<1>4. f.account \in Accounts /\ f.useInternalBalance \in BOOLEAN
  BY <1>3, JoinOrExitFrameRuns DEF JoinOrExitFrame
<1>5. SetFunds([Funds EXCEPT ![t] = FeePaid(G, fee)]) /\ UNCHANGED unclaimed
  BY DEF ExitTransfer, JoinOrExitTransfer
<1> HIDE DEF f, F
<1>6. G \in TokenFunds  BY <1>1, <1>2, <1>4, SentType
<1>7. PICK d \in Int : d <= 0 /\ G.tokens[TheVault] = F.tokens[TheVault] + d
  BY <1>1, <1>2, <1>4, SentTakes
<1> HIDE DEF G
<1>8. FeePaid(G, fee).tokens[TheVault] = G.tokens[TheVault] + (-fee)  BY <1>1, <1>6, FeeTakes
<1> DEFINE gain == d + (-fee)
<1>9. gain \in Int /\ gain <= 0 /\ FeePaid(G, fee).tokens[TheVault] = balanceOf[t][TheVault] + gain
  BY <1>1, <1>2, <1>7, <1>8
<1> HIDE DEF gain
<1>10. \A u \in Tokens : unclaimed'[u] = unclaimed[u] + (IF u = t THEN 0 ELSE 0)
  BY <1>5, NumbersOfBooks
<1>11. 0 \in Int  OBVIOUS
<1> QED BY <1>5, <1>9, <1>10, <1>11, HeldOne

LEMMA WithdrawHolds ==
  ASSUME VaultInv, NEW t \in Tokens, NEW sender \in Accounts, NEW recipient \in Accounts,
         NEW amount \in Amounts, WithdrawInternal(t, sender, recipient, amount)
  PROVE  HeldShrinks
<1> DEFINE F == FundsOf(t)
           G == Credited(F, sender, -amount)
           H == Sent(G, amount, recipient, FALSE)
<1>1. amount \in Nat /\ -amount \in Int  BY VaultAssumption
<1>2. F \in TokenFunds /\ F.tokens[TheVault] = balanceOf[t][TheVault]
  BY NumbersOfBooks DEF FundsOf
<1>3. G \in TokenFunds /\ G.tokens = F.tokens  BY <1>1, <1>2, CreditedType DEF Credited, TokenFunds
<1>4. SetFunds([Funds EXCEPT ![t] = H]) /\ UNCHANGED unclaimed
  BY DEF WithdrawInternal, UserBalanceOp
<1> HIDE DEF F, G
<1>5. PICK d \in Int : d <= 0 /\ H.tokens[TheVault] = G.tokens[TheVault] + d
  BY <1>1, <1>3, SentTakes
<1> HIDE DEF H
<1>6. H.tokens[TheVault] = balanceOf[t][TheVault] + d  BY <1>2, <1>3, <1>5
<1>7. \A u \in Tokens : unclaimed'[u] = unclaimed[u] + (IF u = t THEN 0 ELSE 0)
  BY <1>4, NumbersOfBooks
<1>8. 0 \in Int  OBVIOUS
<1> QED BY <1>4, <1>5, <1>6, <1>7, <1>8, HeldOne

\* Tokens sent from outside, to the Vault as well, are claimed by nobody.
LEMMA TransferHolds ==
  ASSUME VaultInv, NEW t \in Tokens, NEW from \in Holders, from # TheVault, NEW to \in Holders,
         NEW amount \in Nat, SetFunds([Funds EXCEPT ![t] = Transferred(@, from, to, amount)]),
         unclaimed' = IF to = TheVault THEN [unclaimed EXCEPT ![t] = @ + amount] ELSE unclaimed
  PROVE  HeldShrinks
<1> DEFINE F == FundsOf(t)
           G == Transferred(F, from, to, amount)
           gain == IF to = TheVault THEN amount ELSE 0
<1>1. F \in TokenFunds /\ F.tokens[TheVault] = balanceOf[t][TheVault]
  BY NumbersOfBooks DEF FundsOf
<1>2. SetFunds([Funds EXCEPT ![t] = G])
  <2>1. Funds[t] = F /\ DOMAIN Funds = Tokens  BY DEF Funds
  <2> QED BY <2>1
<1> HIDE DEF F
<1>3. gain \in Int /\ gain <= gain /\ VaultGain(from, to, amount) = gain  BY DEF VaultGain
<1>4. G.tokens[TheVault] = balanceOf[t][TheVault] + gain  BY <1>1, <1>3, NetTransferred
<1>5. \A u \in Tokens : unclaimed'[u] = unclaimed[u] + (IF u = t THEN gain ELSE 0)
  <2>1. \A u \in Tokens : unclaimed[u] \in Int  BY NumbersOfBooks
  <2>2. DOMAIN unclaimed = Tokens  BY DEF VaultInv, TypeOK, FundsTypeOK
  <2> QED BY <2>1, <2>2
<1> HIDE DEF G, gain
<1> QED BY <1>2, <1>3, <1>4, <1>5, HeldOne

LEMMA PausedHolds == ASSUME PausedInv, ~IsNotPaused, Next PROVE HeldShrinks
<1> USE DEF PausedInv
<1>1. ASSUME UNCHANGED <<balanceOf, unclaimed>> PROVE HeldShrinks  BY <1>1, HeldSame
<1>2. CASE SwapNext
  <2>1. \A hops : ~StartSwap(hops)  BY DEF StartSwap
  <2>2. \A stage : ~Running("swap", stage)  BY RunsUnpaused
  <2> QED BY <1>2, <2>1, <2>2 DEF SwapNext, AskPool, PoolAnswers, EndSwap
<1>3. CASE JoinExitNext
  <2>1. ASSUME NEW op, NEW p, NEW account, NEW useInternalBalance,
               StartJoinOrExit(op, p, account, useInternalBalance)
        PROVE  HeldShrinks
    BY <1>1, <2>1 DEF StartJoinOrExit
  <2>2. ASSUME NEW op, EndJoinOrExit(op) PROVE HeldShrinks
    BY <1>1, <2>2 DEF EndJoinOrExit
  <2>3. ASSUME NEW t, NEW amount, NEW fee, JoinTransfer(t, amount, fee) PROVE FALSE
    <3>1. Running("join", "onJoinOrExit") /\ "join" # "exit"
      BY <2>3 DEF JoinTransfer, JoinOrExitTransfer
    <3> QED BY <3>1, RunsUnpaused
  <2> QED BY <1>3, <2>1, <2>2, <2>3, ExitTransferHolds DEF JoinExitNext
<1>4. CASE LoanNext
  <2>1. \A recipient, amounts, fees : ~StartLoan(recipient, amounts, fees)  BY DEF StartLoan
  <2>2. ~EndLoan  BY RunsUnpaused DEF EndLoan
  <2> QED BY <1>4, <2>1, <2>2 DEF LoanNext
<1>5. CASE UserBalanceNext
  <2>1. \A t, sender, recipient, amount :
          /\ ~DepositInternal(t, sender, recipient, amount)
          /\ ~TransferInternal(t, sender, recipient, amount)
          /\ ~TransferExternal(t, sender, recipient, amount)
    BY DEF DepositInternal, TransferInternal, TransferExternal, UserBalanceOp
  <2> QED BY <1>5, <2>1, WithdrawHolds DEF UserBalanceNext
<1>6. CASE PoolNext
  <2>1. \A p, tokens : ~RegisterTokens(p, tokens) /\ ~DeregisterTokens(p, tokens)
    BY DEF RegisterTokens, DeregisterTokens
  <2>2. \A p, t, amount :
          /\ ~WithdrawPoolBalance(p, t, amount) /\ ~DepositPoolBalance(p, t, amount)
          /\ ~UpdateManagedBalance(p, t, amount)
    BY DEF WithdrawPoolBalance, DepositPoolBalance, UpdateManagedBalance, ManagePoolBalance
  <2> QED BY <1>6, <2>1, <2>2 DEF PoolNext
<1>7. CASE \E newPaused \in BOOLEAN : SetPaused(newPaused)  BY <1>1, <1>7 DEF SetPaused
<1>8. CASE TransfersAndTime
  <2>1. ASSUME NEW t \in Tokens, NEW from \in Accounts, NEW to \in Accounts \cup {TheVault},
               NEW amount \in Amounts, TransferToken(t, from, to, amount)
        PROVE  HeldShrinks
    <3>1. from \in Holders /\ to \in Holders /\ amount \in Nat /\ from # TheVault
      BY VaultAssumption, HoldersAre
    <3> QED BY <2>1, <3>1, TransferHolds DEF TransferToken
  <2>2. ASSUME NEW t \in Tokens, NEW recipient \in Accounts, NEW amount \in Amounts,
               WithdrawCollectedFees(t, recipient, amount)
        PROVE  HeldShrinks
    <3>1. recipient \in Holders /\ amount \in Nat /\ recipient # TheVault /\ FeesCollector # TheVault
      BY VaultAssumption, HoldersAre
    <3> QED BY <2>2, <3>1, TransferHolds, HoldersAre DEF WithdrawCollectedFees
  <2>3. CASE TimePasses  BY <1>1, <2>3 DEF TimePasses, vaultVars
  <2> QED BY <1>8, <2>1, <2>2, <2>3 DEF TransfersAndTime
<1> QED BY <1>2, <1>3, <1>4, <1>5, <1>6, <1>7, <1>8 DEF Next

\* While the Vault is paused, nothing that any party does makes it owe more: exits and
\* withdrawals pay out what was owed, and the rest leaves the books as they are.
THEOREM PauseOnlyDrains == Spec => PausedOnlyDrains
<1>1. BooksInv => OwesHeld  BY OwedIsHeld DEF OwesHeld
<1>2. BooksInv' => OwesHeld'  BY <1>1, PTL
<1>3. BooksInv /\ BooksInv' /\ PausedInv /\ [Next]_vars
        => [~IsNotPaused => \A t \in Tokens : Owed(t)' <= Owed(t)]_vars
  BY <1>1, <1>2, PausedHolds DEF HeldShrinks, OwesHeld
<1> QED BY <1>3, PausedInvariance, BooksInvariance, PTL DEF Spec, PausedOnlyDrains
=============================================================================
