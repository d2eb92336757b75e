----------------------------- MODULE PoolLedger -----------------------------
(***************************************************************************)
(* What the Vault promises about the tokens and balances of its Pools,     *)
(* whatever their specialization (the documentation of registerTokens,     *)
(* deregisterTokens, getPoolTokenInfo and managePoolBalance in             *)
(* pkg/interfaces/contracts/vault/IVault.sol).  PoolTokens implements it.  *)
(*                                                                         *)
(* An event tells the changes of a Pool's balances: the events alone are   *)
(* enough to follow every balance.                                         *)
(***************************************************************************)
EXTENDS Integers

CONSTANTS
  PoolIds,
  MaxBalance      \* 2^112 - 1: no cash, managed or total exceeds it

VARIABLES
  blockNumber,
  pools,          \* the registered Pools
  balance,        \* per Pool, on its registered tokens: cash, managed and lastChangeBlock
  manager,        \* per Pool, on its registered tokens: the Asset Manager
  event           \* the last change of balances

lvars == <<blockNumber, pools, balance, manager, event>>

Empty == [cash |-> 0, managed |-> 0, lastChangeBlock |-> 0]
TokensOf(p) == DOMAIN balance[p]

Init ==
  /\ blockNumber \in Nat
  /\ pools = {}
  /\ balance = [p \in PoolIds |-> << >>]
  /\ manager = [p \in PoolIds |-> << >>]
  /\ event.pools = {}

RegisterPool(p) ==
  /\ p \notin pools
  /\ pools' = pools \cup {p}
  /\ UNCHANGED <<blockNumber, balance, manager, event>>

\* New tokens start empty, and the registered ones keep their Asset Managers.
RegisterTokens(p) ==
  /\ UNCHANGED <<blockNumber, pools, event>>
  /\ p \in pools
  /\ TokensOf(p) \subseteq TokensOf(p)'
  /\ balance' = [balance EXCEPT ![p] =
       [t \in TokensOf(p)' |-> IF t \in TokensOf(p) THEN balance[p][t] ELSE Empty]]
  /\ manager' = [manager EXCEPT ![p] =
       [t \in TokensOf(p)' |-> IF t \in TokensOf(p) THEN manager[p][t] ELSE manager'[p][t]]]

\* "Only registered tokens can be deregistered.  Additionally, they must have zero
\* total balance."
DeregisterTokens(p) ==
  /\ UNCHANGED <<blockNumber, pools, event>>
  /\ TokensOf(p)' \subseteq TokensOf(p)
  /\ \A t \in TokensOf(p) \ TokensOf(p)' : balance[p][t].cash = 0 /\ balance[p][t].managed = 0
  /\ balance' = [balance EXCEPT ![p] = [t \in TokensOf(p)' |-> balance[p][t]]]
  /\ manager' = [manager EXCEPT ![p] = [t \in TokensOf(p)' |-> manager[p][t]]]

\* "A change of zero is considered a change for this purpose, and will update
\* lastChangeBlock."  The tokens of a Pool may share their block.
Dated(old, new, totalChanges) ==
  \/ new.lastChangeBlock = blockNumber
  \/ new.lastChangeBlock = old.lastChangeBlock /\ ~totalChanges

\* A swap, join or exit changes cash only; an Asset Manager moves between cash and
\* managed, or reports the managed amount.
Change(p) ==
  /\ event'.pools = {p}
  /\ UNCHANGED <<blockNumber, pools>> /\ manager' = manager
  /\ \A t \in DOMAIN event'.cash \ TokensOf(p) : event'.cash[t] = 0 /\ event'.managed[t] = 0
  /\ \A t \in TokensOf(p) :
       CASE event'.kind = "cash" -> event'.managed[t] = 0
         [] event'.kind = "move" -> event'.cash[t] = -event'.managed[t]
         [] event'.kind = "report" -> event'.cash[t] = 0
  /\ TokensOf(p)' = TokensOf(p)
  /\ \A t \in TokensOf(p) :
       LET old == balance[p][t]
           new == balance'[p][t]
       IN  /\ new.cash = old.cash + event'.cash[t]
           /\ new.managed = old.managed + event'.managed[t]
           /\ new.cash >= 0 /\ new.managed >= 0 /\ new.cash + new.managed <= MaxBalance
           /\ Dated(old, new, event'.kind # "move" /\ t \in event'.tokens)
  /\ \A q \in PoolIds \ {p} : balance'[q] = balance[q]

NextBlock ==
  /\ blockNumber' > blockNumber
  /\ UNCHANGED <<pools, balance, manager, event>>

Next ==
  \/ \E p \in PoolIds :
       RegisterPool(p) \/ RegisterTokens(p) \/ DeregisterTokens(p) \/ Change(p)
  \/ NextBlock

Spec == Init /\ [][Next]_lvars
=============================================================================
