------------------------ MODULE TimelockDelayPromise ------------------------
(***************************************************************************)
(* The comment of scheduleDelayChange, read for every moment: whatever the *)
(* delay of an action is now, nothing initiated from now on runs sooner.   *)
(***************************************************************************)
EXTENDS TimelockAuthorizer

VARIABLE promise   \* per delayable id: the latest moment any delay so far promised

PInit == Init /\ promise = [id \in DelayableIds |-> 0]

Later(m, n) == IF m >= n THEN m ELSE n

PNext ==
  /\ Next
  /\ promise' = [id \in DelayableIds |-> Later(promise[id], now' + delays'[id])]

PSpec == PInit /\ [][PNext]_<<vars, promise>>

\* "The delay change is scheduled so that it's never possible to execute an action in a
\* shorter time than the current delay."  An action without delay can run right now, so
\* no promise may still reach into the future.
NeverSoonerThanCurrentDelay ==
  \A id \in DelayableIds : delays[id] = 0 => promise[id] <= now
=============================================================================
