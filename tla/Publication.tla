---------------------------- MODULE Publication ----------------------------
(***************************************************************************)
(* What a search is promised of a document that jobs index over and over:  *)
(* it shows nothing, or what one run made. A run is an attempt of a job,   *)
(* which begins once, publishes once at most, and only while it works; and *)
(* a document that was deleted is not shown again, nor indexed by the jobs *)
(* that were deleted with it.                                              *)
(***************************************************************************)
EXTENDS Integers

CONSTANTS Jobs, MaxAttempts

VARIABLES begun,    \* per job, the attempts that began; all of them once it is gone
          working,  \* the runs under way
          shown,    \* the run whose work a search shows, or none
          gone      \* whether the document was deleted

Init == begun = [j \in Jobs |-> 0] /\ working = {} /\ shown = {} /\ gone = FALSE

\* The next attempt of j begins. Whatever was shown is not while it works.
Begin(j) ==
  /\ begun[j] < MaxAttempts
  /\ shown' = {}
  /\ begun' = [begun EXCEPT ![j] = @ + 1]
  /\ working' = working \cup {<<j, begun[j] + 1>>}
  /\ UNCHANGED gone

\* A run has finished: what it made takes the place of what was shown.
Publish(n) ==
  /\ ~gone /\ shown' = {n}
  /\ working' = working \ {n}
  /\ UNCHANGED <<begun, gone>>

\* A run is over without publishing.
Lose(n) ==
  /\ shown' \in {shown, {}}
  /\ working' = working \ {n}
  /\ UNCHANGED <<begun, gone>>

\* A run goes on, or reports that it failed.
Hide ==
  /\ shown' = {}
  /\ UNCHANGED <<begun, working, gone>>

\* Jobs are deleted, and the document with them unless it already is.
Delete(S) ==
  /\ gone' = TRUE /\ shown' = {}
  /\ begun' = [j \in Jobs |-> IF j \in S THEN MaxAttempts ELSE begun[j]]
  /\ UNCHANGED working

Next ==
  \/ Hide
  \/ \E n \in working : Publish(n) \/ Lose(n)
  \/ \E j \in Jobs : Begin(j)
  \/ \E S \in SUBSET Jobs : Delete(S)

Spec == Init /\ [][Next]_<<shown, working, begun, gone>>
=============================================================================
