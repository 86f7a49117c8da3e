--------------------------- MODULE ApplicationJob ---------------------------
(***************************************************************************)
(* One logical worker operation (one operation_id) of backend/workers/     *)
(* job_service.py: its application_jobs row, the at-least-once deliveries  *)
(* Celery makes of its task, and the workers that enter run_tracked_sync.  *)
(* Every database transaction is a step; a runner is whatever happens      *)
(* between a worker's claim and its finish. Operations share no state, so  *)
(* one is enough.                                                          *)
(***************************************************************************)
EXTENDS Integers

CONSTANTS Workers,       \* Celery worker processes
          MaxRetries,    \* max_retries of the task, 0 without autoretry
          MaxAttempts,   \* max_attempts given to run_tracked_sync
          Retryable,     \* retryable given to run_tracked_sync
          Lease,         \* settings.WORKER_JOB_RUNNING_LEASE_SECONDS
          Outcomes,      \* how a runner may end
          HasDeadline,   \* whether the job carries a deadline_at
          MaxSends,      \* bound: deliveries producers send
          MaxFaults      \* bound: lost workers and failed transactions

ASSUME ApplicationJobAssumption ==
  /\ MaxRetries \in Nat /\ MaxAttempts \in Nat \ {0}
  /\ Lease \in Nat \ {0} /\ MaxSends \in Nat /\ MaxFaults \in Nat
  /\ {Retryable, HasDeadline} \subseteq BOOLEAN
  /\ Outcomes \subseteq {"ok", "error", "deferred"}

VARIABLES job,         \* the application_jobs row
          ready,       \* deliveries waiting in the queue, counted by retry number
          worker,      \* local state of every worker
          cancelling,  \* an operator's cancel_job has read the row as queued
          sends,       \* deliveries producers have sent
          faults,      \* faults so far
          runs,        \* times a runner was started
          disturbed    \* history: a run has outlived its lease, or an operator cancelled

vars == <<job, ready, worker, cancelling, sends, faults, runs, disturbed>>

Terminal == {"succeeded", "dead_letter"}
JobStatus == {"absent", "queued", "running", "failed", "cancelled"} \cup Terminal
Job == [status : JobStatus, attempts : Nat, leaseLeft : 0 .. Lease, expired : BOOLEAN]

\* outcome is the status _finish_job decided to write; left is the time since the
\* claim, counted down from Lease.
WorkerPC == {"idle", "claim", "run", "finish", "write", "retry", "ack"}
Worker == [pc : WorkerPC, retries : 0 .. MaxRetries, attempt : Nat, left : 0 .. Lease,
           result : {"none", "ok", "error", "deferred"},
           outcome : {"none", "succeeded", "queued", "failed", "dead_letter"}]

IdleWorker == [pc |-> "idle", retries |-> 0, attempt |-> 0, left |-> 0,
               result |-> "none", outcome |-> "none"]

Init ==
  /\ job = [status |-> "absent", attempts |-> 0, leaseLeft |-> 0, expired |-> FALSE]
  /\ ready = [r \in 0 .. MaxRetries |-> 0]
  /\ worker = [w \in Workers |-> IdleWorker]
  /\ cancelling = FALSE
  /\ sends = 0 /\ faults = 0 /\ runs = 0 /\ disturbed = FALSE

\* A worker between its claim and the end of its finish.
Executing(w) == worker[w].pc \in {"run", "finish", "write"}
-----------------------------------------------------------------------------
(* Faults the checks must notice, each named for the definition it         *)
(* resembles.                                                              *)

SkippedWhenOver == job.status \in Terminal
SkippedWhenRunning == job.status = "running" /\ job.leaseLeft > 0
NextAttemptUncounted == job.attempts
DoneAcked(w) == "ack"
-----------------------------------------------------------------------------
(* Producers and the broker                                                *)

\* ensure_queued_job: insert the row unless the operation_id has one.
EnsureQueued ==
  /\ job.status = "absent"
  /\ job' = [job EXCEPT !.status = "queued"]
  /\ UNCHANGED <<ready, worker, cancelling, sends, faults, runs, disturbed>>

\* apply_async of the task, with or without a row: queue_email and the document
\* cleanup send without one, a redelivered enqueue_outbox_job sends again.
Send ==
  /\ sends < MaxSends
  /\ sends' = sends + 1
  /\ ready' = [ready EXCEPT ![0] = @ + 1]
  /\ UNCHANGED <<job, worker, cancelling, faults, runs, disturbed>>

\* A worker takes a delivery, to acknowledge it when the task is over.
Take(w) ==
  /\ worker[w].pc = "idle"
  /\ \E r \in 0 .. MaxRetries :
       /\ ready[r] > 0
       /\ ready' = [ready EXCEPT ![r] = @ - 1]
       /\ worker' = [worker EXCEPT ![w] = [IdleWorker EXCEPT !.pc = "claim", !.retries = r]]
  /\ UNCHANGED <<job, cancelling, sends, faults, runs, disturbed>>

\* acks_late: the delivery leaves the broker after the task.
Ack(w) ==
  /\ worker[w].pc = "ack"
  /\ worker' = [worker EXCEPT ![w] = IdleWorker]
  /\ UNCHANGED <<job, ready, cancelling, sends, faults, runs, disturbed>>

\* autoretry_for / self.retry: a task that raised is sent again under the next
\* retry number, before its own delivery is acknowledged, up to max_retries.
Retry(w) ==
  /\ worker[w].pc = "retry"
  /\ ready' = IF worker[w].retries < MaxRetries
              THEN [ready EXCEPT ![worker[w].retries + 1] = @ + 1] ELSE ready
  /\ worker' = [worker EXCEPT ![w].pc = "ack"]
  /\ UNCHANGED <<job, cancelling, sends, faults, runs, disturbed>>

\* reject_on_worker_lost: the delivery of a process that dies is queued again.
WorkerLost(w) ==
  /\ faults < MaxFaults
  /\ worker[w].pc # "idle"
  /\ ready' = [ready EXCEPT ![worker[w].retries] = @ + 1]
  /\ worker' = [worker EXCEPT ![w] = IdleWorker]
  /\ faults' = faults + 1
  /\ UNCHANGED <<job, cancelling, sends, runs, disturbed>>
-----------------------------------------------------------------------------
(* run_tracked_sync                                                        *)

\* _claim_job finds an execution it must leave alone, or a job that is over.
InFlight == job.status = "running" /\ job.leaseLeft > 0
Skipped == job.status \in Terminal \/ InFlight
NextAttempt == job.attempts + 1

\* The transaction answers without running: run_tracked_sync returns normally, so
\* the delivery will be acknowledged.
ClaimSkip(w) ==
  /\ worker[w].pc = "claim"
  /\ Skipped
  /\ worker' = [worker EXCEPT ![w].pc = "ack"]
  /\ UNCHANGED <<job, ready, cancelling, sends, faults, runs, disturbed>>

\* The deadline has passed, or this attempt would be one too many.
ClaimDead(w) ==
  /\ worker[w].pc = "claim"
  /\ ~Skipped
  /\ \/ job.expired /\ job' = [job EXCEPT !.status = "dead_letter"]
     \/ /\ ~job.expired /\ NextAttempt > MaxAttempts
        /\ job' = [job EXCEPT !.status = "dead_letter", !.attempts = NextAttempt]
  /\ worker' = [worker EXCEPT ![w].pc = "ack"]
  /\ UNCHANGED <<ready, cancelling, sends, faults, runs, disturbed>>

\* Every other status is claimed, and a missing row is inserted as running.
ClaimRun(w) ==
  /\ worker[w].pc = "claim"
  /\ ~Skipped /\ ~job.expired /\ NextAttempt <= MaxAttempts
  /\ job' = [job EXCEPT !.status = "running", !.attempts = NextAttempt, !.leaseLeft = Lease]
  /\ worker' = [worker EXCEPT ![w].pc = "run", ![w].attempt = NextAttempt, ![w].left = Lease]
  /\ runs' = runs + 1
  /\ UNCHANGED <<ready, cancelling, sends, faults, disturbed>>

\* The runner returns, raises, or raises ExternalEffectInFlightError.
RunnerEnds(w) ==
  /\ worker[w].pc = "run"
  /\ \E o \in Outcomes : worker' = [worker EXCEPT ![w].pc = "finish", ![w].result = o]
  /\ UNCHANGED <<job, ready, cancelling, sends, faults, runs, disturbed>>

\* After the finish: a run that raised is retried, a run that returned is not.
Done(w) == IF worker[w].result = "ok" THEN "ack" ELSE "retry"

\* _finish_job leaves a job that is over alone; _release_job_for_retry leaves
\* alone whatever is not running.
Finishable(w) ==
  IF worker[w].result = "deferred" THEN job.status = "running" ELSE job.status \notin Terminal

Outcome(result, attempts) ==
  CASE result = "ok" -> "succeeded"
    [] result = "deferred" -> "queued"
    [] OTHER -> IF ~Retryable \/ attempts >= MaxAttempts THEN "dead_letter" ELSE "failed"

\* db.get without a row lock: the outcome is decided from the row read here ...
FinishRead(w) ==
  LET outcome == Outcome(worker[w].result, job.attempts)
  IN /\ worker[w].pc = "finish"
     /\ worker' = IF Finishable(w) /\ outcome # job.status
                  THEN [worker EXCEPT ![w].pc = "write", ![w].outcome = outcome]
                  ELSE [worker EXCEPT ![w].pc = Done(w)]
     /\ UNCHANGED <<job, ready, cancelling, sends, faults, runs, disturbed>>

\* ... and written here, over whatever the row has become. An UPDATE carries only
\* the columns that differ from what was read, so failed over failed writes none.
FinishWrite(w) ==
  /\ worker[w].pc = "write"
  /\ job' = [job EXCEPT !.status = worker[w].outcome]
  /\ worker' = [worker EXCEPT ![w].pc = Done(w)]
  /\ UNCHANGED <<ready, cancelling, sends, faults, runs, disturbed>>

\* The claim's or the finish's transaction fails: it rolls back and the exception
\* leaves the task, which is retried.
DatabaseFails(w) ==
  /\ faults < MaxFaults
  /\ worker[w].pc \in {"claim", "finish", "write"}
  /\ worker' = [worker EXCEPT ![w].pc = "retry"]
  /\ faults' = faults + 1
  /\ UNCHANGED <<job, ready, cancelling, sends, runs, disturbed>>
-----------------------------------------------------------------------------
(* The jobs console and time                                               *)

\* cancel_job reads a queued row without a lock ...
CancelRead ==
  /\ job.status = "queued" /\ ~cancelling
  /\ cancelling' = TRUE /\ disturbed' = TRUE
  /\ UNCHANGED <<job, ready, worker, sends, faults, runs>>

\* ... and later writes it.
CancelWrite ==
  /\ cancelling
  /\ cancelling' = FALSE
  /\ job' = [job EXCEPT !.status = "cancelled"]
  /\ UNCHANGED <<ready, worker, sends, faults, runs, disturbed>>

DeadlinePasses ==
  /\ HasDeadline /\ job.status # "absent" /\ ~job.expired
  /\ job' = [job EXCEPT !.expired = TRUE]
  /\ UNCHANGED <<ready, worker, cancelling, sends, faults, runs, disturbed>>

Less(t) == IF t = 0 THEN 0 ELSE t - 1

Tick ==
  /\ disturbed' = (disturbed \/ \E w \in Workers : Executing(w) /\ worker[w].left <= 1)
  /\ job' = [job EXCEPT !.leaseLeft = Less(@)]
  /\ worker' = [w \in Workers |-> [worker[w] EXCEPT !.left = Less(@)]]
  /\ UNCHANGED <<ready, cancelling, sends, faults, runs>>
-----------------------------------------------------------------------------
Claim(w) == ClaimSkip(w) \/ ClaimDead(w) \/ ClaimRun(w)
Finish(w) == FinishRead(w) \/ FinishWrite(w)

Next ==
  \/ EnsureQueued \/ Send \/ CancelRead \/ CancelWrite \/ DeadlinePasses \/ Tick
  \/ \E w \in Workers : \/ Take(w) \/ Claim(w) \/ RunnerEnds(w) \/ Finish(w)
                        \/ Retry(w) \/ Ack(w) \/ WorkerLost(w) \/ DatabaseFails(w)

Spec == Init /\ [][Next]_vars

\* Workers keep consuming, and the soft time limit ends every run.
FairSpec ==
  /\ Spec
  /\ \A w \in Workers : WF_vars(Take(w) \/ Claim(w) \/ RunnerEnds(w) \/ Finish(w)
                                  \/ Retry(w) \/ Ack(w))

-----------------------------------------------------------------------------
(* Properties                                                              *)

\* The state is well formed.
TypeOK ==
  /\ job \in Job
  /\ ready \in [0 .. MaxRetries -> Nat]
  /\ worker \in [Workers -> Worker]
  /\ cancelling \in BOOLEAN
  /\ sends \in Nat /\ faults \in Nat /\ runs \in Nat /\ disturbed \in BOOLEAN

\* Lost workers, duplicate deliveries, cancellations and unfenced finishes put the
\* job back in every status a claim accepts, yet the runner is started at most
\* max_attempts times: each start was counted by the claim that preceded it.
RunsBounded == runs <= MaxAttempts /\ runs <= job.attempts

\* No two workers execute under one attempt number, however they overlap.
AttemptsDistinct ==
  \A v, w \in Workers : v # w /\ Executing(v) /\ Executing(w) =>
    worker[v].attempt # worker[w].attempt

\* Nobody executes a job while somebody else does, as long as no live run has outlived
\* WORKER_JOB_RUNNING_LEASE_SECONDS and nobody has cancelled: lost workers, failed
\* transactions and redeliveries included.
OneLiveRun ==
  ~disturbed => \A v, w \in Workers : Executing(v) /\ Executing(w) => v = w

\* Without faults and deferrals a job that was sent for ends: retries and the attempt
\* limit leave no status in which it waits for a delivery that will not come. (A run
\* that defers on its last retry does: _release_job_for_retry leaves the job queued.)
SentJobEnds ==
  \/ <>(faults > 0 \/ \E w \in Workers : worker[w].result = "deferred")
  \/ sends > 0 ~> job.status \in Terminal \cup {"cancelled"}

\* docs/runbooks/application-job-lifecycle.md: succeeded is "Terminal success". It is,
\* as long as live runs end within the lease and nobody cancels, and not otherwise.
SucceededIsTerminal ==
  [][job.status = "succeeded" => job'.status = "succeeded" \/ disturbed']_vars

\* docs/runbooks/outbox-dispatch.md: after a worker crash a job "remains retryable
\* instead of being acknowledged as a false success": no running job is left
\* with neither a delivery nor a worker.
CrashRemainsRetryable ==
  job.status = "running" =>
    \/ \E r \in 0 .. MaxRetries : ready[r] > 0
    \/ \E w \in Workers : worker[w].pc # "idle"
=============================================================================
