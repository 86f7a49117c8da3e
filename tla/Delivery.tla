------------------------------ MODULE Delivery ------------------------------
(***************************************************************************)
(* What the outbox promises the transaction that wrote a row, whatever     *)
(* dispatchers do: a job owed to the broker is handed over at least once   *)
(* before it counts as delivered, at most Limit times in all, and a        *)
(* promise once kept, broken or withdrawn stays so.                        *)
(***************************************************************************)
EXTENDS Integers

CONSTANTS Jobs,   \* what can be promised
          Limit   \* messages the broker may see for one job

VARIABLES promise,  \* how the promise for each job stands
          broker    \* messages handed over: <<job, number>>

Promise == {"none", "owed", "kept", "broken", "withdrawn"}

Init == promise = [j \in Jobs |-> "none"] /\ broker = {}

\* The producer's transaction commits.
Owe(j) ==
  /\ promise[j] = "none"
  /\ promise' = [promise EXCEPT ![j] = "owed"]
  /\ UNCHANGED broker

\* A message reaches the broker; a slow sender may hand over a job that has
\* been delivered or withdrawn in the meantime.
HandOver(j) ==
  /\ promise[j] # "none"
  /\ \E n \in 1 .. Limit : <<j, n>> \notin broker /\ broker' = broker \cup {<<j, n>>}
  /\ UNCHANGED promise

\* Delivery is recorded, after the broker has a message.
Keep(j) ==
  /\ promise[j] = "owed"
  /\ \E n \in 1 .. Limit : <<j, n>> \in broker
  /\ promise' = [promise EXCEPT ![j] = "kept"]
  /\ UNCHANGED broker

\* The operator cancels an owed job, or its owner deletes it in any state.
Withdraw(j) ==
  /\ promise[j] # "none"
  /\ promise' = [promise EXCEPT ![j] = "withdrawn"]
  /\ UNCHANGED broker

\* The outbox gives up, on every job of a batch that is due for it at once.
Break ==
  \E S \in SUBSET {j \in Jobs : promise[j] = "owed"} :
    /\ promise' = [j \in Jobs |-> IF j \in S THEN "broken" ELSE promise[j]]
    /\ UNCHANGED broker

Next ==
  \/ \E j \in Jobs : Owe(j) \/ HandOver(j) \/ Keep(j) \/ Withdraw(j)
  \/ Break

Spec == Init /\ [][Next]_<<promise, broker>>
=============================================================================
