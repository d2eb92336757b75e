------------------------- MODULE TemporarilyPausable -------------------------
(***************************************************************************)
(* The emergency pause of pkg/solidity-utils/contracts/helpers/            *)
(* TemporarilyPausable.sol, which the Vault and every Pool inherit.        *)
(***************************************************************************)
EXTENDS Integers

CONSTANTS
  PauseWindowEndTime,   \* _pauseWindowEndTime, set by the constructor
  BufferPeriodEndTime,  \* _bufferPeriodEndTime
  MaxTime               \* bound: last timestamp explored

ASSUME PauseAssumption ==
  /\ PauseWindowEndTime \in Nat /\ BufferPeriodEndTime \in Nat /\ MaxTime \in Nat
  /\ PauseWindowEndTime <= BufferPeriodEndTime

VARIABLES
  now,      \* block.timestamp
  paused    \* _paused

pauseVars == <<now, paused>>

PauseInit == now = 0 /\ paused = FALSE

\* Mutant: the pause does not expire.
IsNotPausedForever == ~paused

IsNotPaused == now > BufferPeriodEndTime \/ ~paused

\* Mutant: pausing is possible through the Buffer Period, too.
SettableInBuffer(newPaused) == now < BufferPeriodEndTime

Settable(newPaused) ==
  now < (IF newPaused THEN PauseWindowEndTime ELSE BufferPeriodEndTime)

SetPausedFlag(newPaused) ==
  /\ Settable(newPaused)
  /\ paused' = newPaused
  /\ UNCHANGED now

Tick ==
  /\ now < MaxTime
  /\ now' = now + 1
  /\ UNCHANGED paused

PauseNext == (\E newPaused \in BOOLEAN : SetPausedFlag(newPaused)) \/ Tick

PauseSpec == PauseInit /\ [][PauseNext]_pauseVars /\ WF_pauseVars(Tick)

-----------------------------------------------------------------------------
\* "It will be automatically unpaused forever": whatever is done with the switch, from
\* some moment on the contract runs, as soon as time passes.
UnpausedForever == <>[]IsNotPaused

\* "Unpausing during the Buffer Period is irreversible": a contract that runs once the
\* Pause Window is over never stops again, and one that is paused then has not been
\* paused anew.
NoPauseAfterWindow ==
  [][now >= PauseWindowEndTime /\ IsNotPaused => IsNotPaused']_pauseVars
=============================================================================
