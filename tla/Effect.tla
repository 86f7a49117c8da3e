------------------------------- MODULE Effect -------------------------------
(***************************************************************************)
(* What a task that has an effect outside the database is promised,        *)
(* whatever deliveries, retries and dead workers there are: attempts are   *)
(* numbered one by one, come one after the other as long as none lapses,   *)
(* hand their mail to the provider at most once each, and end with the     *)
(* first success that is recorded.                                         *)
(***************************************************************************)
EXTENDS Naturals

VARIABLES begun,     \* attempts counted so far
          sending,   \* attempts that are under way
          taken,     \* attempts whose mail the provider has
          recorded,  \* whether a success is known
          lapsed     \* whether an attempt has taken longer than its claim was good for

Init == begun = 0 /\ sending = {} /\ taken = {} /\ recorded = FALSE /\ lapsed = FALSE

\* The claim itself may have taken too long already.
Begin ==
  /\ ~recorded /\ (sending = {} \/ lapsed)
  /\ begun' = begun + 1 /\ sending' = sending \cup {begun + 1}
  /\ lapsed' \in {lapsed, TRUE}
  /\ UNCHANGED <<taken, recorded>>

Take(n) ==
  /\ n \notin taken /\ taken' = taken \cup {n}
  /\ UNCHANGED <<begun, sending, recorded, lapsed>>

\* The attempt fails, or whoever makes it dies.
End(n) ==
  /\ sending' = sending \ {n}
  /\ UNCHANGED <<begun, taken, recorded, lapsed>>

Record(n) ==
  /\ n \in taken /\ recorded' = TRUE
  /\ sending' = sending \ {n}
  /\ UNCHANGED <<begun, taken, lapsed>>

Lapse ==
  /\ sending # {} /\ lapsed' = TRUE
  /\ UNCHANGED <<begun, sending, taken, recorded>>

Next ==
  \/ Begin \/ Lapse
  \/ \E n \in sending : Take(n) \/ End(n) \/ Record(n)

Spec == Init /\ [][Next]_<<begun, sending, taken, recorded, lapsed>>
=============================================================================
