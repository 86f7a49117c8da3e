---------------------------- MODULE EffectLedger ----------------------------
(***************************************************************************)
(* One externally visible effect (one operation_id, a mail) and its row of *)
(* external_effects: the deliveries of send_email_task, each of which      *)
(* claims the effect with begin_external_effect, calls the provider and    *)
(* records the outcome with complete_external_effect                       *)
(* (backend/workers/effect_ledger.py, email.py, tasks.py).                 *)
(*                                                                         *)
(* backend/lib/idempotency is not part of the repository; it is modelled   *)
(* from its use in email.py and its tests. Deliveries may come at any time *)
(* and any number of times: ApplicationJob, which sits in front of the     *)
(* ledger, keeps some of them away.                                        *)
(***************************************************************************)
EXTENDS Integers

CONSTANTS Deliveries,  \* copies of the task's message, each with its own retries
          MaxRetries,  \* max_retries of send_email_task
          Lease,       \* settings.EXTERNAL_EFFECT_LEASE_SECONDS
          Limit,       \* settings.CELERY_TASK_TIME_LIMIT_SECONDS
          MaxFaults    \* bound: refused calls, failed transactions, lost workers

ASSUME EffectLedgerAssumption ==
  {MaxRetries, MaxFaults} \subseteq Nat /\ {Lease, Limit} \subseteq Nat \ {0}

VARIABLES row,        \* the row of external_effects
          delivery,   \* local state of every delivery
          accepted,   \* attempts whose mail the provider has taken
          faults,     \* faults so far
          overran     \* whether a sender has outlived the lease of its claim

vars == <<row, delivery, accepted, faults, overran>>

\* left is started_at + Lease - now, and below zero how long the claim is stale.
Row == [status : {"absent", "in_flight", "succeeded", "failed"},
        attempts : Nat, left : -Limit .. Lease]

\* age is the time since the task read its clock; wait is the countdown of a retry.
Sending == {"send", "sent", "failing"}
Delivery == [pc : {"waiting", "begin", "insert", "over", "killed"} \cup Sending,
             retries : 0 .. MaxRetries, attempt : Nat, age : 0 .. Limit, wait : 0 .. Lease]

Waiting(retries, wait) ==
  [pc |-> "waiting", retries |-> retries, attempt |-> 0, age |-> 0, wait |-> wait]

Init ==
  /\ row = [status |-> "absent", attempts |-> 0, left |-> 0]
  /\ delivery = [d \in Deliveries |-> Waiting(0, 0)]
  /\ accepted = {}
  /\ faults = 0
  /\ overran = FALSE

Executing(d) == delivery[d].pc \in Sending
Senders == {d \in Deliveries : Executing(d)}
Active(d) == delivery[d].pc \notin {"waiting", "over", "killed"}
-----------------------------------------------------------------------------
(* Faults the checks must notice, each named for the definition it         *)
(* resembles.                                                              *)

StaleAtOnce(d) == row.left + delivery[d].age <= Lease
KeepsNothing == FALSE
NextAttemptKept == row.attempts
RetriedNever(d, wait) == [delivery EXCEPT ![d].pc = "over"]
-----------------------------------------------------------------------------
(* Celery                                                                  *)

\* The worker takes the message, and begin_external_effect reads the clock.
Start(d) ==
  /\ delivery[d].pc = "waiting" /\ delivery[d].wait = 0
  /\ delivery' = [delivery EXCEPT ![d].pc = "begin", ![d].age = 0]
  /\ UNCHANGED <<row, accepted, faults, overran>>

\* autoretry_for and self.retry, until max_retries are used up.
Retried(d, wait) ==
  [delivery EXCEPT ![d] =
     IF @.retries < MaxRetries THEN Waiting(@.retries + 1, wait) ELSE [@ EXCEPT !.pc = "over"]]

\* reject_on_worker_lost queues the message again; the hard time limit acknowledges it.
WorkerLost(d) ==
  /\ faults < MaxFaults /\ Active(d)
  /\ \/ delivery' = [delivery EXCEPT ![d] = Waiting(@.retries, 0)]
     \/ delivery[d].age = Limit /\ delivery' = [delivery EXCEPT ![d].pc = "killed"]
  /\ faults' = faults + 1
  /\ UNCHANGED <<row, accepted, overran>>

\* A transaction of the ledger fails and rolls back; the exception leaves the task.
DatabaseFails(d) ==
  /\ faults < MaxFaults /\ Active(d) /\ delivery[d].pc # "send"
  /\ delivery' = Retried(d, 0)
  /\ faults' = faults + 1
  /\ UNCHANGED <<row, accepted, overran>>

\* No task is older than the time limit.
Tick ==
  /\ \A d \in Deliveries : Active(d) => delivery[d].age < Limit
  /\ row' = [row EXCEPT !.left = IF @ = -Limit THEN @ ELSE @ - 1]
  /\ delivery' = [d \in Deliveries |->
       [delivery[d] EXCEPT !.age = IF Active(d) THEN @ + 1 ELSE @,
                           !.wait = IF @ = 0 THEN 0 ELSE @ - 1]]
  /\ overran' = (overran \/ \E d \in Deliveries : Executing(d) /\ delivery[d].age + 1 >= Lease)
  /\ UNCHANGED <<accepted, faults>>
-----------------------------------------------------------------------------
(* begin_external_effect                                                   *)

\* _is_stale, by the clock the task read before it waited for the row.
Stale(d) == row.left + delivery[d].age <= 0
NextAttempt == row.attempts + 1

\* The row d has claimed, under the time it started at: a claim that waited for
\* long is made stale.
Claimed(d, attempt) ==
  /\ row' = [status |-> "in_flight", attempts |-> attempt, left |-> Lease - delivery[d].age]
  /\ delivery' = [delivery EXCEPT ![d].pc = "send", ![d].attempt = attempt]
  /\ overran' = (overran \/ delivery[d].age >= Lease)

FindNothing(d) ==
  /\ delivery[d].pc = "begin" /\ row.status = "absent"
  /\ delivery' = [delivery EXCEPT ![d].pc = "insert"]
  /\ UNCHANGED <<row, accepted, faults, overran>>

\* The unique index lets one INSERT through; the other task looks again, and
\* since rows are never deleted it need not insert twice.
Insert(d) ==
  /\ delivery[d].pc = "insert"
  /\ \/ row.status = "absent" /\ Claimed(d, NextAttempt)
     \/ /\ row.status # "absent"
        /\ delivery' = [delivery EXCEPT ![d].pc = "begin"] /\ UNCHANGED <<row, overran>>
  /\ UNCHANGED <<accepted, faults>>

\* The outcome is recorded: the task returns.
Deduplicate(d) ==
  /\ delivery[d].pc = "begin" /\ row.status = "succeeded"
  /\ delivery' = [delivery EXCEPT ![d].pc = "over"]
  /\ UNCHANGED <<row, accepted, faults, overran>>

\* A fresh claim: ExternalEffectInFlightError, and a retry a lease from now.
Defer(d) ==
  /\ delivery[d].pc = "begin" /\ row.status = "in_flight" /\ ~Stale(d)
  /\ delivery' = Retried(d, Lease)
  /\ UNCHANGED <<row, accepted, faults, overran>>

Reclaim(d) ==
  /\ delivery[d].pc = "begin"
  /\ \/ row.status = "failed"
     \/ row.status = "in_flight" /\ Stale(d)
  /\ Claimed(d, NextAttempt)
  /\ UNCHANGED <<accepted, faults>>
-----------------------------------------------------------------------------
(* The provider, and complete_external_effect                              *)

\* The provider takes the mail; its answer may be lost. Refusals and lost answers
\* raise, as the soft time limit does.
Call(d) ==
  /\ delivery[d].pc = "send"
  /\ \/ /\ accepted' = accepted \cup {delivery[d].attempt}
        /\ delivery' = [delivery EXCEPT ![d].pc = "sent"] /\ UNCHANGED faults
     \/ /\ faults < MaxFaults /\ faults' = faults + 1
        /\ accepted' \in {accepted, accepted \cup {delivery[d].attempt}}
        /\ delivery' = [delivery EXCEPT ![d].pc = "failing"]
  /\ UNCHANGED <<row, overran>>

\* What is recorded as succeeded is not changed any more.
Keeps == row.status = "succeeded"

Recorded(status) == row' = IF Keeps THEN row ELSE [row EXCEPT !.status = status]

\* Whoever made the claim that is recorded by now: the row is found by operation_id.
Succeed(d) ==
  /\ delivery[d].pc = "sent"
  /\ Recorded("succeeded")
  /\ delivery' = [delivery EXCEPT ![d].pc = "over"]
  /\ UNCHANGED <<accepted, faults, overran>>

Fail(d) ==
  /\ delivery[d].pc = "failing"
  /\ Recorded("failed")
  /\ delivery' = Retried(d, 0)
  /\ UNCHANGED <<accepted, faults, overran>>
-----------------------------------------------------------------------------
Begin(d) == FindNothing(d) \/ Insert(d) \/ Deduplicate(d) \/ Defer(d) \/ Reclaim(d)
Run(d) == Start(d) \/ Begin(d) \/ Call(d) \/ Succeed(d) \/ Fail(d)

Next == Tick \/ \E d \in Deliveries : Run(d) \/ WorkerLost(d) \/ DatabaseFails(d)

Spec == Init /\ [][Next]_vars

\* Workers take messages and finish what they take; retries come due.
FairSpec == Spec /\ WF_vars(Tick) /\ \A d \in Deliveries : WF_vars(Run(d))

-----------------------------------------------------------------------------
(* Properties                                                              *)

\* The state is well formed.
TypeOK ==
  /\ row \in Row
  /\ delivery \in [Deliveries -> Delivery]
  /\ accepted \in SUBSET Nat
  /\ faults \in Nat
  /\ overran \in BOOLEAN

\* external_effects.attempts counts every call that can have reached the provider:
\* deliveries that send at once were counted separately, and a mail the provider
\* has taken is not handed to it again under the same attempt.
CallsCounted ==
  /\ accepted \subseteq 1 .. row.attempts
  /\ \A d \in Deliveries : delivery[d].pc = "send" => delivery[d].attempt \in 1 .. row.attempts \ accepted
  /\ \A c, d \in Deliveries : Executing(c) /\ Executing(d) /\ c # d =>
       delivery[c].attempt # delivery[d].attempt

\* Duplicate deliveries, retries and lost workers never send at the same time, as
\* long as nobody has been sending for longer than its claim is fresh.
OneSender ==
  ~overran => \A c, d \in Deliveries : Executing(c) /\ Executing(d) => c = d

\* docs/runbooks/external-effect-idempotency.md: after the success is recorded "no
\* provider call" by any delivery that was not at it already, and the record stays,
\* also when a sender whose claim was taken over fails afterwards. And it is only
\* recorded when the provider has taken the mail.
SuccessIsFinal ==
  [][/\ row.status = "succeeded" =>
          row'.status = "succeeded" /\ Senders' \subseteq Senders
     /\ row'.status = "succeeded" => accepted # {}]_vars

\* With two retries for every fault, one to come back and one to defer to the claim
\* the fault left behind, the mail is sent, unless the hard time limit took every
\* delivery: a claim whose owner is dead costs time, never the mail.
MailSent ==
  <>(row.status = "succeeded" \/ \A d \in Deliveries : delivery[d].pc = "killed")

\* The ledger implements Effect: attempts as the row counts them, recorded as it says.
Calls == INSTANCE Effect WITH
  begun <- row.attempts, sending <- {delivery[d].attempt : d \in Senders},
  taken <- accepted, recorded <- (row.status = "succeeded"), lapsed <- overran

\* Whatever deliveries, retries, lost workers and failed transactions do, the attempts
\* come one by one while claims are good, each hands over its mail at most once, what is
\* recorded as a success the provider has taken, and no attempt begins after that.
OneEffect == Calls!Spec
=============================================================================
