------------------------------ MODULE Anytime -------------------------------
(***************************************************************************)
(* What a caller of WSCP::local_search may rely on, whatever the heuristic *)
(* does: the best solution reported is never worse than an earlier one, it *)
(* is always an irredundant cover, and the search does not end without one.*)
(***************************************************************************)
EXTENDS Integers

CONSTANTS
  Solution, \* the irredundant covers of the instance
  Value,    \* Value[S]: the cost of solution S
  None      \* not a solution: none has been reported yet

VARIABLES
  best,   \* the solution last reported, or None
  stopped \* the search has returned

vars == <<best, stopped>>

Init ==
  /\ best = None
  /\ stopped = FALSE

Improve(S) ==
  /\ ~stopped
  /\ best # None => Value[S] < Value[best]
  /\ best' = S
  /\ UNCHANGED stopped

Stop ==
  /\ ~stopped
  /\ best # None
  /\ stopped' = TRUE
  /\ UNCHANGED best

Next ==
  \/ \E S \in Solution : Improve(S)
  \/ Stop

Spec == Init /\ [][Next]_vars
=============================================================================
