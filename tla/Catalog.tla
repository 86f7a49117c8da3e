------------------------------ MODULE Catalog ------------------------------
(***************************************************************************)
(* What retrieval is promised of the index versions: one serves from the   *)
(* first one on, a version goes into service only after it was validated   *)
(* or once it has served before, and in the step in which it does the one  *)
(* that serves leaves.                                                     *)
(***************************************************************************)

CONSTANT Versions

VARIABLE status  \* per version

Serving == {v \in Versions : status[v] = "active"}

Init == status = [v \in Versions |-> "absent"]

\* An empty catalog is served from the first version.
Bootstrap(v) ==
  /\ status[v] = "absent" /\ Serving = {}
  /\ status' = [status EXCEPT ![v] = "active"]

Draft(v) ==
  /\ status[v] = "absent"
  /\ status' = [status EXCEPT ![v] = "building"]

Approve(v) ==
  /\ status[v] = "building"
  /\ status' = [status EXCEPT ![v] = "validated"]

\* v goes into service, and whatever served until now leaves it.
Takes(v) ==
  status' = [u \in Versions |->
    CASE u = v -> "active" [] u \in Serving -> "retired" [] OTHER -> status[u]]

Promote(v) == status[v] = "validated" /\ Takes(v)

Restore(v) == status[v] = "retired" /\ Takes(v)

Next == \E v \in Versions : Bootstrap(v) \/ Draft(v) \/ Approve(v) \/ Promote(v) \/ Restore(v)

Spec == Init /\ [][Next]_status
=============================================================================
