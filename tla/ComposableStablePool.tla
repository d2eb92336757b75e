----------------------- MODULE ComposableStablePool -----------------------
(***************************************************************************)
(* A ComposableStablePool of two tokens: its BPT are minted beforehand and *)
(* held by the Vault as a token of the Pool's own, so that tokens are      *)
(* numbered with BPT in the Vault and without it in the mathematics, and   *)
(* swaps for BPT are joins and exits. The calls are those of the client    *)
(* in pvt/helpers (StablePool.ts).                                         *)
(*                                                                         *)
(* The protocol takes no share of the fees, amplification and rates stay   *)
(* what they are, and the Pool is neither paused nor in recovery mode.     *)
(***************************************************************************)
EXTENDS StableMath

CONSTANTS
    PremintedBalance,       \* _PREMINTED_TOKEN_BALANCE
    StableSetups,           \* [bptIndex, amp, swapFee] of Pools
    InitialAmounts,         \* what the first join pays in, without BPT
    StableAmounts,          \* amounts of swaps, joins and exits
    StableSlack,            \* units of the invariant that a calculation may be off
    MaxStableSteps          \* bound: operations

VARIABLES
    stableSetup,            \* [bptIndex, amp, swapFee]
    registered,             \* balances in the Vault, BPT among them
    bptSupply,              \* totalSupply() of BPT
    stableSteps             \* operations so far

stableVars == <<stableSetup, registered, bptSupply, stableSteps>>

RegisteredTokens == 1..3

------------------------------------------------------------------------------
(* Numbering (ComposableStablePoolStorage.sol; the client does the same).   *)

skipBptIndex(index) == IF index < stableSetup.bptIndex THEN index ELSE index - 1
dropBptItem(amounts)           == RemoveAt(amounts, stableSetup.bptIndex)
addBptItem(amounts, bptAmount) == InsertAt(amounts, stableSetup.bptIndex, bptAmount)

getVirtualSupply == bptSupply - registered[stableSetup.bptIndex]
PoolBalances     == dropBptItem(registered)
PoolInvariant    == stableInvariant(stableSetup.amp, PoolBalances)

------------------------------------------------------------------------------
(* Swaps: what the Pool answers to the amount that is given.               *)

onRegularSwap(isGivenIn, amount, registeredIn, registeredOut) ==
    LET in  == skipBptIndex(registeredIn)
        out == skipBptIndex(registeredOut)
    IN  IF isGivenIn THEN stableOutGivenIn(stableSetup.amp, PoolBalances, in, out, amount, PoolInvariant)
        ELSE stableInGivenOut(stableSetup.amp, PoolBalances, in, out, amount, PoolInvariant)

\* StableMath with what the Pool knows.
bptOutGiven(amountsIn, supply) ==
    stableBptOut(stableSetup.amp, PoolBalances, amountsIn, supply, PoolInvariant, stableSetup.swapFee)
bptInGiven(amountsOut, supply) ==
    stableBptIn(stableSetup.amp, PoolBalances, amountsOut, supply, PoolInvariant, stableSetup.swapFee)
tokenInGiven(index, bptOut, supply) ==
    stableTokenIn(stableSetup.amp, PoolBalances, index, bptOut, supply, PoolInvariant, stableSetup.swapFee)
tokenOutGiven(index, bptIn, supply) ==
    stableTokenOut(stableSetup.amp, PoolBalances, index, bptIn, supply, PoolInvariant, stableSetup.swapFee)

\* An array of amounts with a single one that is not zero.
SingleAmount(index, amount) == [i \in DOMAIN PoolBalances |-> IF i = index THEN amount ELSE 0]

\* Mutant: the BPT in the Vault count as if somebody held them.
JoinedToTotalSupply(isGivenIn, amount, in) ==
    IF isGivenIn
    THEN bptOutGiven(SingleAmount(in, amount), bptSupply)
    ELSE tokenInGiven(in, amount, bptSupply)

doJoinSwap(isGivenIn, amount, in) ==
    IF isGivenIn
    THEN bptOutGiven(SingleAmount(in, amount), getVirtualSupply)
    ELSE tokenInGiven(in, amount, getVirtualSupply)

doExitSwap(isGivenIn, amount, out) ==
    IF isGivenIn
    THEN tokenOutGiven(out, amount, getVirtualSupply)
    ELSE bptInGiven(SingleAmount(out, amount), getVirtualSupply)

swapWithBpt(isGivenIn, amount, registeredIn, registeredOut) ==
    IF registeredOut = stableSetup.bptIndex THEN doJoinSwap(isGivenIn, amount, skipBptIndex(registeredIn))
    ELSE doExitSwap(isGivenIn, amount, skipBptIndex(registeredOut))

\* The fee is added to what goes in.
addSwapFee(amountIn) ==
    IF amountIn = Reverted THEN Reverted ELSE divUp(amountIn, complement(stableSetup.swapFee))

\* The fee comes off what goes in, or is added to it.
regularSwap(isGivenIn, amount, registeredIn, registeredOut) ==
    IF isGivenIn
    THEN onRegularSwap(TRUE, amount - mulUp(amount, stableSetup.swapFee), registeredIn, registeredOut)
    ELSE addSwapFee(onRegularSwap(FALSE, amount, registeredIn, registeredOut))

onStableSwap(isGivenIn, amount, registeredIn, registeredOut) ==
    IF stableSetup.bptIndex \in {registeredIn, registeredOut}
    THEN swapWithBpt(isGivenIn, amount, registeredIn, registeredOut)
    ELSE regularSwap(isGivenIn, amount, registeredIn, registeredOut)

\* The Vault moves what is given and what is calculated.
moveTokens(request, calculated) ==
    LET in  == IF request.isGivenIn THEN request.amount ELSE calculated
        out == IF request.isGivenIn THEN calculated ELSE request.amount
    IN  /\ calculated # Reverted
        /\ out <= registered[request.out]
        /\ request.in = stableSetup.bptIndex => in <= getVirtualSupply
        /\ registered' = [i \in RegisteredTokens |->
                registered[i] + (CASE i = request.in -> in [] i = request.out -> -out [] OTHER -> 0)]
        /\ UNCHANGED bptSupply

stableSwap(request) ==
    moveTokens(request, onStableSwap(request.isGivenIn, request.amount, request.in, request.out))

------------------------------------------------------------------------------
(* Joins and exits. The userData (StablePoolEncoder):                      *)

exactTokensIn(amountsIn, minimumBPT) ==
    [kind |-> "EXACT_TOKENS_IN_FOR_BPT_OUT", amounts |-> amountsIn, limit |-> minimumBPT]
tokenInForBPT(bptAmountOut, enterTokenIndex) ==
    [kind |-> "TOKEN_IN_FOR_EXACT_BPT_OUT", bpt |-> bptAmountOut, index |-> enterTokenIndex]
oneTokenOut(bptAmountIn, exitTokenIndex) ==
    [kind |-> "EXACT_BPT_IN_FOR_ONE_TOKEN_OUT", bpt |-> bptAmountIn, index |-> exitTokenIndex]
exactTokensOut(amountsOut, maxBPTAmountIn) ==
    [kind |-> "BPT_IN_FOR_EXACT_TOKENS_OUT", amounts |-> amountsOut, limit |-> maxBPTAmountIn]

\* [bpt, amounts], both without BPT among the tokens.
Outcome(bpt, amounts) == [bpt |-> bpt, amounts |-> amounts]
OfOneToken(bpt, index, amount) ==
    Outcome(IF amount = Reverted THEN Reverted ELSE bpt, SingleAmount(index, amount))
AtLeast(out, limit) == IF out < limit THEN Reverted ELSE out
AtMost(in, limit)   == IF in > limit THEN Reverted ELSE in

stableOutcome(request) ==
    CASE request.kind = "EXACT_TOKENS_IN_FOR_BPT_OUT" ->
            Outcome(AtLeast(bptOutGiven(request.amounts, getVirtualSupply), request.limit), request.amounts)
      [] request.kind = "TOKEN_IN_FOR_EXACT_BPT_OUT" ->
            OfOneToken(request.bpt, request.index, tokenInGiven(request.index, request.bpt, getVirtualSupply))

stableExitOutcome(request) ==
    CASE request.kind = "BPT_IN_FOR_EXACT_TOKENS_OUT" ->
            Outcome(AtMost(bptInGiven(request.amounts, getVirtualSupply), request.limit), request.amounts)
      [] request.kind = "EXACT_BPT_IN_FOR_ONE_TOKEN_OUT" ->
            OfOneToken(request.bpt, request.index, tokenOutGiven(request.index, request.bpt, getVirtualSupply))

\* BPT are minted and burned here: those of the Pool's own stay where they are.
mintBptFor(bpt, amountsIn) ==
    /\ bpt # Reverted
    /\ registered' = [i \in RegisteredTokens |-> registered[i] + amountsIn[i]]
    /\ bptSupply' = bptSupply + bpt
burnBptFor(bpt, amountsOut) ==
    /\ bpt # Reverted /\ bpt <= getVirtualSupply
    /\ \A i \in RegisteredTokens : amountsOut[i] <= registered[i]
    /\ registered' = [i \in RegisteredTokens |-> registered[i] - amountsOut[i]]
    /\ bptSupply' = bptSupply - bpt

joinWith(outcome) == mintBptFor(outcome.bpt, addBptItem(outcome.amounts, 0))
exitWith(outcome) == burnBptFor(outcome.bpt, addBptItem(outcome.amounts, 0))
stableJoin(request) == joinWith(stableOutcome(request))
stableExit(request) == exitWith(stableExitOutcome(request))

------------------------------------------------------------------------------
(* The client, whose callers number tokens as the Vault does; what is not   *)
(* given of a limit is filled in.                                          *)

buildStableSwap(isGivenIn, amount, in, out) ==
    [isGivenIn |-> isGivenIn, amount |-> amount, in |-> in, out |-> out]
stableSwapGivenIn(in, out, amount)  == buildStableSwap(TRUE, amount, in, out)
stableSwapGivenOut(in, out, amount) == buildStableSwap(FALSE, amount, in, out)

buildStableJoinGivenIn(amountsIn)    == exactTokensIn(amountsIn, 0)
buildStableJoinGivenOut(bptOut, token) == tokenInForBPT(bptOut, token)
buildStableExitGivenOut(amountsOut)  == exactTokensOut(amountsOut, bptSupply)
buildStableSingleExit(bptIn, token)  == oneTokenOut(bptIn, token)

stableJoinGivenIn(amountsIn)      == buildStableJoinGivenIn(dropBptItem(amountsIn))
stableJoinGivenOut(bptOut, token) == buildStableJoinGivenOut(bptOut, token)
stableExitGivenOut(amountsOut)    == buildStableExitGivenOut(dropBptItem(amountsOut))
stableSingleExitGivenIn(bptIn, token) == buildStableSingleExit(bptIn, token)

buildStableInit(initialBalances) == [kind |-> "INIT", amounts |-> initialBalances]

\* The first join: all BPT but what the invariant is worth go into the Vault.
onInitializeStablePool(request) ==
    LET amountsIn    == dropBptItem(request.amounts)
        bptAmountOut == stableInvariant(stableSetup.amp, amountsIn)
    IN  /\ registered' = addBptItem(amountsIn, PremintedBalance - bptAmountOut)
        /\ bptSupply' = PremintedBalance

stableInitialize(initialBalances) ==
    bptSupply = 0 /\ onInitializeStablePool(buildStableInit(addBptItem(initialBalances, 0)))

StableInit ==
    /\ stableSetup \in StableSetups
    /\ registered = [i \in RegisteredTokens |-> 0] /\ bptSupply = 0
    /\ stableSteps = 0

StableNext ==
    /\ stableSteps < MaxStableSteps /\ stableSteps' = stableSteps + 1
    /\ UNCHANGED stableSetup
    /\ \/ \E initialBalances \in InitialAmounts : stableInitialize(initialBalances)
       \/ /\ bptSupply > 0
          /\ \E amount \in StableAmounts :
             \/ \E in, out \in RegisteredTokens :
                  /\ in # out
                  /\ \E request \in {stableSwapGivenIn(in, out, amount), stableSwapGivenOut(in, out, amount)} :
                       stableSwap(request)
             \/ \E token \in DOMAIN PoolBalances, amounts \in {<<amount, 0>>, <<amount, amount>>} :
                  \/ \E request \in {stableJoinGivenIn(addBptItem(amounts, 0)), stableJoinGivenOut(amount, token)} :
                       stableJoin(request)
                  \/ \E request \in {stableExitGivenOut(addBptItem(amounts, 0)),
                                     stableSingleExitGivenIn(amount, token)} :
                       stableExit(request)

------------------------------------------------------------------------------
\* Of the invariant, what belongs to one of the BPT that are not the Pool's own.
StableShare == divDown(PoolInvariant, getVirtualSupply)

\* Whether BPT are minted or come out of the Vault, whoever swaps, joins or exits leaves
\* those of the others worth no less than before, beyond rounding: the numbering and the
\* preminted BPT are the same on both sides of every operation.
StableShareNeverFalls ==
    [][bptSupply > 0 => StableShare' + divUp(StableSlack, PoolInvariant') >= StableShare]_stableVars
==============================================================================
