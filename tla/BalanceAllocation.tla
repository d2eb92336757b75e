-------------------------- MODULE BalanceAllocation --------------------------
(***************************************************************************)
(* The packed balance words of pkg/vault/contracts/balances/               *)
(* BalanceAllocation.sol: two amounts and a block number in one 256 bit    *)
(* word, and the layout in which the two tokens of a Two Token Pool share  *)
(* their words.  A word is the natural number the EVM stores.              *)
(*                                                                         *)
(* A `_require` that fails reverts the transaction: it is the guard Fits,  *)
(* which the operations that use these functions state.                    *)
(***************************************************************************)
EXTENDS Integers

CONSTANTS
  AmountSize,   \* 2^112: amounts are below it
  BlockSize     \* 2^32: block numbers are stored modulo it

ASSUME WordAssumption == AmountSize \in Nat \ {0} /\ BlockSize \in Nat \ {0}

Words == 0 .. (AmountSize * AmountSize * BlockSize - 1)

MaxOf(a, b) == IF a >= b THEN a ELSE b

\* _pack: the shift drops what exceeds the 32 bits of the block.
Pack(least, mid, most) ==
  ((most % BlockSize) * AmountSize + mid) * AmountSize + least

Cash(balance) == balance % AmountSize
Managed(balance) == (balance \div AmountSize) % AmountSize
LastChangeBlock(balance) == (balance \div (AmountSize * AmountSize)) % BlockSize
Total(balance) == Cash(balance) + Managed(balance)

ManagedDelta(newBalance, oldBalance) == Managed(newBalance) - Managed(oldBalance)

IsZero(balance) == balance % (AmountSize * AmountSize) = 0

\* Mutant: a subtraction may underflow.
AllowsNegative(cash, managed) == cash + managed < AmountSize

\* toBalance requires that its amounts fit, and packs them.
Fits(cash, managed) == cash \in Nat /\ managed \in Nat /\ cash + managed < AmountSize

\* The results of increaseCash (delta >= 0), decreaseCash (delta <= 0), cashToManaged,
\* managedToCash and setManaged, given that CanX holds.
CanChangeCash(balance, delta) == Fits(Cash(balance) + delta, Managed(balance))
ChangeCash(balance, delta, blockNumber) ==
  Pack(Cash(balance) + delta, Managed(balance), blockNumber)

CanMoveToManaged(balance, amount) == Fits(Cash(balance) - amount, Managed(balance) + amount)
MoveToManaged(balance, amount) ==
  Pack(Cash(balance) - amount, Managed(balance) + amount, LastChangeBlock(balance))

CanSetManaged(balance, newManaged) == Fits(Cash(balance), newManaged)
SetManaged(balance, newManaged, blockNumber) ==
  Pack(Cash(balance), newManaged, blockNumber)

-----------------------------------------------------------------------------
\* Two Token Pools: both cash amounts in one word, both managed amounts in another.
DecodeBalanceA(shared) == shared % AmountSize
DecodeBalanceB(shared) == (shared \div AmountSize) % AmountSize

FromSharedToBalanceA(sharedCash, sharedManaged) ==
  Pack(DecodeBalanceA(sharedCash), DecodeBalanceA(sharedManaged), LastChangeBlock(sharedCash))
FromSharedToBalanceB(sharedCash, sharedManaged) ==
  Pack(DecodeBalanceB(sharedCash), DecodeBalanceB(sharedManaged), LastChangeBlock(sharedCash))

ToSharedCash(balanceA, balanceB) ==
  Pack(Cash(balanceA), Cash(balanceB),
       MaxOf(LastChangeBlock(balanceA), LastChangeBlock(balanceB)))
ToSharedManaged(balanceA, balanceB) == Pack(Managed(balanceA), Managed(balanceB), 0)
=============================================================================
