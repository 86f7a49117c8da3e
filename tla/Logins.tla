------------------------------- MODULE Logins -------------------------------
(***************************************************************************)
(* What the server promises whoever signs in, whatever tabs and answers    *)
(* do: a sign-in opens one session, each refresh replaces the session by   *)
(* one that nobody has used before, and once the last of them has ended    *)
(* the sign-in is over for good.                                           *)
(***************************************************************************)

CONSTANTS SignIns,  \* what a user does once for each login, and names its first session
          Sessions  \* sign-ins, and what replaces their sessions

VARIABLES live,  \* per sign-in the sessions that are accepted
          used   \* sessions there have been

\* One user has signed in.
Init ==
  \E a \in SignIns :
    live = [b \in SignIns |-> IF b = a THEN {a} ELSE {}] /\ used = {a}

Open(a) ==
  /\ a \notin used /\ used' = used \cup {a}
  /\ live' = [live EXCEPT ![a] = {a}]

\* A refresh: in one step the old session ends and the new one begins.
Replace(a, old, new) ==
  /\ live[a] = {old}
  /\ used' = used \cup {new}
  /\ live' = [live EXCEPT ![a] = {new}]

\* A logout, or a revocation from elsewhere.
End(a) ==
  /\ live[a] # {}
  /\ live' = [live EXCEPT ![a] = {}]
  /\ UNCHANGED used

Next ==
  \E a \in SignIns :
    \/ Open(a) \/ End(a)
    \/ \E old \in live[a], new \in Sessions \ used : Replace(a, old, new)

Spec == Init /\ [][Next]_<<live, used>>
=============================================================================
