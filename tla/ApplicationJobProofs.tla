------------------------ MODULE ApplicationJobProofs ------------------------
(* What ApplicationJob guarantees for any number of workers, deliveries    *)
(* and faults, and any attempt limit.                                      *)
EXTENDS ApplicationJob, TLAPS

\* The numbers among the constants.
LEMMA Numbers == MaxRetries \in Nat /\ MaxAttempts \in Nat \ {0} /\ Lease \in Nat \ {0}
  BY ApplicationJobAssumption

\* Timers count down within their range.
LEMMA LessType == ASSUME NEW t \in 0 .. Lease PROVE Less(t) \in 0 .. Lease
  BY Numbers DEF Less

\* Nobody's local state leaves its type, and a worker about to write has decided
\* what to write.
LocalOK(s) == s \in Worker /\ (s.pc = "write" => s.outcome # "none")

\* A step of one worker keeps every worker's local state well formed if it keeps its own.
LEMMA OneWorkerMoves ==
  ASSUME worker \in [Workers -> Worker], \A v \in Workers : LocalOK(worker[v]),
         NEW w \in Workers, NEW s, LocalOK(s), worker' = [worker EXCEPT ![w] = s]
  PROVE  worker' \in [Workers -> Worker] /\ \A v \in Workers : LocalOK(worker'[v])
<1>1. s \in Worker
  BY DEF LocalOK
<1>2. \A v \in Workers : worker'[v] = IF v = w THEN s ELSE worker[v]
  OBVIOUS
<1> QED  BY <1>1, <1>2

\* The attempt number a claim writes.
LEMMA NextAttemptType == ASSUME job \in Job PROVE NextAttempt \in Nat
  BY DEF Job, NextAttempt

\* What the row may become.
LEMMA JobMoves ==
  ASSUME job \in Job
  PROVE  /\ \A s \in JobStatus : [job EXCEPT !.status = s] \in Job
         /\ \A s \in JobStatus, n \in Nat : [job EXCEPT !.status = s, !.attempts = n] \in Job
         /\ \A s \in JobStatus, n \in Nat :
              [job EXCEPT !.status = s, !.attempts = n, !.leaseLeft = Lease] \in Job
         /\ [job EXCEPT !.expired = TRUE] \in Job
         /\ [job EXCEPT !.leaseLeft = Less(@)] \in Job
<1>1. /\ job.attempts \in Nat /\ job.leaseLeft \in 0 .. Lease /\ Lease \in 0 .. Lease
      /\ Less(job.leaseLeft) \in 0 .. Lease
  BY Numbers, LessType DEF Job
<1>3. [job EXCEPT !.leaseLeft = Less(@)] \in Job
  <2> HIDE DEF Less
  <2> QED  BY <1>1 DEF Job
<1>4. \A s \in JobStatus, n \in Nat :
        [job EXCEPT !.status = s, !.attempts = n, !.leaseLeft = Lease] \in Job
  BY <1>1 DEF Job
<1>5. /\ \A s \in JobStatus : [job EXCEPT !.status = s] \in Job
      /\ \A s \in JobStatus, n \in Nat : [job EXCEPT !.status = s, !.attempts = n] \in Job
      /\ [job EXCEPT !.expired = TRUE] \in Job
  BY DEF Job
<1> QED  BY <1>3, <1>4, <1>5

TypeInv == TypeOK /\ \A w \in Workers : LocalOK(worker[w])

\* The type invariant holds before anything was sent.
LEMMA TypeInit == Init => TypeInv
<1> SUFFICES ASSUME Init PROVE TypeInv
  OBVIOUS
<1>1. IdleWorker \in Worker /\ IdleWorker.pc = "idle"
  BY Numbers DEF IdleWorker, Worker, WorkerPC
<1>2. job \in Job
  BY Numbers DEF Init, Job, JobStatus, Terminal
<1>3. worker \in [Workers -> Worker] /\ \A w \in Workers : LocalOK(worker[w])
  BY <1>1 DEF Init, LocalOK
<1> QED  BY <1>2, <1>3, Numbers DEF Init, TypeInv, TypeOK

\* Every step keeps the state well formed.
LEMMA TypeStep == TypeInv /\ [Next]_vars => TypeInv'
<1> SUFFICES ASSUME TypeInv, [Next]_vars PROVE TypeInv'
  OBVIOUS
<1>0. /\ job \in Job /\ ready \in [0 .. MaxRetries -> Nat]
      /\ worker \in [Workers -> Worker] /\ \A w \in Workers : LocalOK(worker[w])
      /\ cancelling \in BOOLEAN /\ sends \in Nat /\ faults \in Nat /\ runs \in Nat
      /\ disturbed \in BOOLEAN
  BY DEF TypeInv, TypeOK
<1>1. /\ \A w \in Workers : worker[w].retries \in 0 .. MaxRetries
      /\ IdleWorker \in Worker /\ IdleWorker.pc = "idle"
  BY <1>0, Numbers DEF Worker, WorkerPC, IdleWorker
<1>2. \A n \in 0 .. MaxRetries :
        /\ [ready EXCEPT ![n] = @ + 1] \in [0 .. MaxRetries -> Nat]
        /\ ready[n] > 0 => [ready EXCEPT ![n] = @ - 1] \in [0 .. MaxRetries -> Nat]
  BY <1>0
<1>3. job' \in Job
  <2>1. CASE EnsureQueued \/ CancelRead \/ CancelWrite \/ DeadlinePasses
    <3>1. "queued" \in JobStatus /\ "cancelled" \in JobStatus
      BY DEF JobStatus
    <3>2. CASE EnsureQueued
      BY <1>0, <3>1, <3>2, JobMoves DEF EnsureQueued
    <3>3. CASE CancelWrite
      BY <1>0, <3>1, <3>3, JobMoves DEF CancelWrite
    <3>4. CASE CancelRead \/ DeadlinePasses
      BY <1>0, <3>4, JobMoves DEF CancelRead, DeadlinePasses
    <3> QED  BY <2>1, <3>2, <3>3, <3>4
  <2>2. CASE Tick
    BY <1>0, <2>2, JobMoves DEF Tick
  <2>3. ASSUME NEW w \in Workers, Claim(w) PROVE job' \in Job
    <3>1. "dead_letter" \in JobStatus /\ "running" \in JobStatus /\ NextAttempt \in Nat
      BY <1>0, NextAttemptType DEF JobStatus, Terminal
    <3>2. CASE ClaimSkip(w)
      BY <1>0, <3>2 DEF ClaimSkip
    <3>3. CASE ClaimDead(w)
      <4>1. \/ job' = [job EXCEPT !.status = "dead_letter"]
            \/ job' = [job EXCEPT !.status = "dead_letter", !.attempts = NextAttempt]
        BY <3>3 DEF ClaimDead
      <4>2. [job EXCEPT !.status = "dead_letter"] \in Job
        BY <1>0, <3>1, JobMoves
      <4>3. [job EXCEPT !.status = "dead_letter", !.attempts = NextAttempt] \in Job
        BY <1>0, <3>1 DEF Job
      <4> QED  BY <4>1, <4>2, <4>3
    <3>4. CASE ClaimRun(w)
      <4>1. Lease \in 0 .. Lease
        BY Numbers
      <4> QED  BY <1>0, <3>1, <3>4, <4>1 DEF ClaimRun, Job
    <3> QED  BY <2>3, <3>2, <3>3, <3>4 DEF Claim
  <2>4. ASSUME NEW w \in Workers, FinishWrite(w) PROVE job' \in Job
    <3>1. worker[w].outcome \in JobStatus
      BY <1>0, <2>4 DEF FinishWrite, LocalOK, Worker, JobStatus, Terminal
    <3> QED  BY <1>0, <2>4, <3>1, JobMoves DEF FinishWrite
  <2> QED
    BY <1>0, <2>1, <2>2, <2>3, <2>4
       DEF Next, vars, Send, Take, RunnerEnds, Finish, FinishRead, Retry, Ack, WorkerLost,
           DatabaseFails
<1>4. worker' \in [Workers -> Worker] /\ \A w \in Workers : LocalOK(worker'[w])
  <2>1. CASE UNCHANGED worker
    BY <1>0, <2>1
  <2>2. ASSUME NEW w \in Workers, NEW s, LocalOK(s), worker' = [worker EXCEPT ![w] = s]
        PROVE  worker' \in [Workers -> Worker] /\ \A v \in Workers : LocalOK(worker'[v])
    BY <1>0, <2>2, OneWorkerMoves
  <2>3. CASE Tick
    <3>1. \A w \in Workers : LocalOK([worker[w] EXCEPT !.left = Less(@)])
      BY <1>0, LessType DEF LocalOK, Worker
    <3>2. worker' = [w \in Workers |-> [worker[w] EXCEPT !.left = Less(@)]]
      BY <2>3 DEF Tick
    <3> HIDE DEF Less
    <3> QED  BY <3>1, <3>2 DEF LocalOK
  <2>4. ASSUME NEW w \in Workers, Ack(w) \/ WorkerLost(w) PROVE \E s : LocalOK(s) /\ worker' = [worker EXCEPT ![w] = s]
    BY <1>1, <2>4 DEF Ack, WorkerLost, LocalOK
  <2>5. ASSUME NEW w \in Workers, Take(w) PROVE \E s : LocalOK(s) /\ worker' = [worker EXCEPT ![w] = s]
    <3>1. \A r \in 0 .. MaxRetries : LocalOK([IdleWorker EXCEPT !.pc = "claim", !.retries = r])
      BY <1>1 DEF LocalOK, Worker, WorkerPC
    <3> QED  BY <2>5, <3>1 DEF Take
  <2>6. ASSUME NEW w \in Workers, NEW pc \in WorkerPC \ {"write"},
               worker' = [worker EXCEPT ![w] = [worker[w] EXCEPT !.pc = pc]]
        PROVE  \E s : LocalOK(s) /\ worker' = [worker EXCEPT ![w] = s]
    <3>1. LocalOK([worker[w] EXCEPT !.pc = pc])
      BY <1>0 DEF LocalOK, Worker
    <3> QED  BY <2>6, <3>1
  <2>7. ASSUME NEW w \in Workers, Retry(w) \/ ClaimSkip(w) \/ ClaimDead(w) \/ DatabaseFails(w)
        PROVE  \E pc \in WorkerPC \ {"write"} : worker' = [worker EXCEPT ![w] = [worker[w] EXCEPT !.pc = pc]]
    BY <2>7 DEF Retry, ClaimSkip, ClaimDead, DatabaseFails, WorkerPC
  <2>8. ASSUME NEW w \in Workers, ClaimRun(w) PROVE \E s : LocalOK(s) /\ worker' = [worker EXCEPT ![w] = s]
    <3>1. LocalOK([worker[w] EXCEPT !.pc = "run", !.attempt = NextAttempt, !.left = Lease])
      <4>1. NextAttempt \in Nat /\ Lease \in 0 .. Lease
        BY <1>0, NextAttemptType, Numbers
      <4> HIDE DEF NextAttempt
      <4> QED  BY <1>0, <4>1 DEF LocalOK, Worker, WorkerPC
    <3>2. worker' = [worker EXCEPT ![w] = [worker[w] EXCEPT !.pc = "run", !.attempt = NextAttempt, !.left = Lease]]
      BY <2>8 DEF ClaimRun
    <3> QED  BY <3>1, <3>2
  <2>9. ASSUME NEW w \in Workers, RunnerEnds(w) PROVE \E s : LocalOK(s) /\ worker' = [worker EXCEPT ![w] = s]
    <3>1. \A o \in Outcomes : LocalOK([worker[w] EXCEPT !.pc = "finish", !.result = o])
      BY <1>0, ApplicationJobAssumption DEF LocalOK, Worker, WorkerPC
    <3>2. \E o \in Outcomes : worker' = [worker EXCEPT ![w] = [worker[w] EXCEPT !.pc = "finish", !.result = o]]
      BY <2>9 DEF RunnerEnds
    <3> QED  BY <3>1, <3>2
  <2>10. ASSUME NEW w \in Workers, FinishRead(w) PROVE \E s : LocalOK(s) /\ worker' = [worker EXCEPT ![w] = s]
    <3> DEFINE outcome == Outcome(worker[w].result, job.attempts)
    <3>1. outcome \in {"succeeded", "queued", "failed", "dead_letter"}
      BY DEF Outcome
    <3> HIDE DEF outcome
    <3>2. LocalOK([worker[w] EXCEPT !.pc = "write", !.outcome = outcome])
      BY <1>0, <3>1 DEF LocalOK, Worker, WorkerPC
    <3>3. LocalOK([worker[w] EXCEPT !.pc = "ack"]) /\ LocalOK([worker[w] EXCEPT !.pc = "retry"])
      BY <1>0 DEF LocalOK, Worker, WorkerPC
    <3>4. \/ worker' = [worker EXCEPT ![w] = [worker[w] EXCEPT !.pc = "write", !.outcome = outcome]]
          \/ worker' = [worker EXCEPT ![w] = [worker[w] EXCEPT !.pc = "ack"]]
          \/ worker' = [worker EXCEPT ![w] = [worker[w] EXCEPT !.pc = "retry"]]
      BY <2>10 DEF FinishRead, Done, outcome
    <3> QED  BY <3>2, <3>3, <3>4
  <2>11. ASSUME NEW w \in Workers, FinishWrite(w)
        PROVE  \E pc \in WorkerPC \ {"write"} : worker' = [worker EXCEPT ![w] = [worker[w] EXCEPT !.pc = pc]]
    <3>1. Done(w) \in WorkerPC \ {"write"}
      BY DEF Done, WorkerPC
    <3>2. worker' = [worker EXCEPT ![w] = [worker[w] EXCEPT !.pc = Done(w)]]
      BY <2>11 DEF FinishWrite
    <3> QED  BY <3>1, <3>2
  <2> QED
    BY <2>1, <2>2, <2>3, <2>4, <2>5, <2>6, <2>7, <2>8, <2>9, <2>10, <2>11
       DEF Next, vars, EnsureQueued, CancelRead, CancelWrite, DeadlinePasses, Send, Claim, Finish
<1>5. ready' \in [0 .. MaxRetries -> Nat]
  <2>1. CASE Send
    BY <1>2, <2>1, Numbers DEF Send
  <2>2. ASSUME NEW w \in Workers, Take(w) \/ Retry(w) \/ WorkerLost(w) PROVE ready' \in [0 .. MaxRetries -> Nat]
    <3>1. CASE Take(w)
      BY <1>2, <3>1 DEF Take
    <3>2. CASE Retry(w)
      <4>1. worker[w].retries < MaxRetries => worker[w].retries + 1 \in 0 .. MaxRetries
        BY <1>1, Numbers
      <4> QED  BY <1>0, <1>2, <3>2, <4>1 DEF Retry
    <3>3. CASE WorkerLost(w)
      BY <1>1, <1>2, <3>3 DEF WorkerLost
    <3> QED  BY <2>2, <3>1, <3>2, <3>3
  <2> QED
    BY <1>0, <2>1, <2>2
       DEF Next, vars, EnsureQueued, CancelRead, CancelWrite, DeadlinePasses, Tick, Claim, ClaimSkip,
           ClaimDead, ClaimRun, RunnerEnds, Finish, FinishRead, FinishWrite, Ack, DatabaseFails
<1>6. cancelling' \in BOOLEAN /\ sends' \in Nat /\ faults' \in Nat /\ runs' \in Nat
  <2>1. cancelling' = cancelling \/ cancelling' = TRUE \/ cancelling' = FALSE
    BY DEF Next, vars, EnsureQueued, Send, CancelRead, CancelWrite, DeadlinePasses, Tick, Take,
           Claim, ClaimSkip, ClaimDead, ClaimRun, RunnerEnds, Finish, FinishRead, FinishWrite,
           Retry, Ack, WorkerLost, DatabaseFails
  <2>2. sends' \in {sends, sends + 1} /\ faults' \in {faults, faults + 1} /\ runs' \in {runs, runs + 1}
    BY DEF Next, vars, EnsureQueued, Send, CancelRead, CancelWrite, DeadlinePasses, Tick, Take,
           Claim, ClaimSkip, ClaimDead, ClaimRun, RunnerEnds, Finish, FinishRead, FinishWrite,
           Retry, Ack, WorkerLost, DatabaseFails
  <2>3. cancelling' \in BOOLEAN
    BY <1>0, <2>1
  <2>4. sends' \in Nat /\ faults' \in Nat /\ runs' \in Nat
    BY <1>0, <2>2
  <2> QED  BY <2>3, <2>4
<1>7. disturbed' \in BOOLEAN
  <2>1. disturbed' = disturbed \/ disturbed' = TRUE
        \/ disturbed' = (disturbed \/ \E w \in Workers : Executing(w) /\ worker[w].left <= 1)
    BY DEF Next, vars, EnsureQueued, Send, CancelRead, CancelWrite, DeadlinePasses, Tick, Take,
           Claim, ClaimSkip, ClaimDead, ClaimRun, RunnerEnds, Finish, FinishRead, FinishWrite,
           Retry, Ack, WorkerLost, DatabaseFails
  <2> QED  BY <1>0, <2>1
<1> QED  BY <1>3, <1>4, <1>5, <1>6, <1>7 DEF TypeInv, TypeOK

\* The row, the queue and the workers are always well formed.
THEOREM TypeCorrect == Spec => []TypeOK
<1>1. TypeInv => TypeOK
  BY DEF TypeInv
<1> QED  BY <1>1, TypeInit, TypeStep, PTL DEF Spec

-----------------------------------------------------------------------------
(* Attempts                                                                *)

\* Every execution holds one of the attempts counted so far.
Counted ==
  /\ RunsBounded
  /\ \A w \in Workers : Executing(w) => worker[w].attempt <= job.attempts
  /\ AttemptsDistinct

\* A step that is no running claim starts nobody and renumbers nobody.
LEMMA QuietForAttempts ==
  ASSUME TypeInv, [Next]_vars, \A w \in Workers : ~ClaimRun(w)
  PROVE  /\ runs' = runs /\ job'.attempts \in {job.attempts, job.attempts + 1}
         /\ \A v \in Workers : Executing(v)' => Executing(v) /\ worker'[v].attempt = worker[v].attempt
<1>0. job \in Job /\ worker \in [Workers -> Worker]
  BY DEF TypeInv, TypeOK
<1>1. runs' = runs
  BY DEF Next, vars, EnsureQueued, Send, CancelRead, CancelWrite, DeadlinePasses, Tick, Take, Claim,
         ClaimSkip, ClaimDead, RunnerEnds, Finish, FinishRead, FinishWrite, Retry, Ack,
         WorkerLost, DatabaseFails
<1>2. job'.attempts \in {job.attempts, job.attempts + 1}
  BY <1>0 DEF Next, vars, EnsureQueued, Send, CancelRead, CancelWrite, DeadlinePasses, Tick, Take,
              Claim, ClaimSkip, ClaimDead, RunnerEnds, Finish, FinishRead, FinishWrite, Retry,
              Ack, WorkerLost, DatabaseFails, Job, NextAttempt
<1>3. ASSUME NEW v \in Workers, Executing(v)'
      PROVE  Executing(v) /\ worker'[v].attempt = worker[v].attempt
  <2>1. CASE UNCHANGED worker
    BY <1>3, <2>1 DEF Executing
  <2>2. CASE Tick
    BY <1>0, <1>3, <2>2 DEF Tick, Executing, Worker
  <2>3. ASSUME NEW w \in Workers, worker' = [worker EXCEPT ![w] = IdleWorker]
        PROVE  Executing(v) /\ worker'[v].attempt = worker[v].attempt
    BY <1>0, <1>3, <2>3 DEF Executing, IdleWorker
  <2>4. ASSUME NEW w \in Workers, Take(w)
        PROVE  Executing(v) /\ worker'[v].attempt = worker[v].attempt
    BY <1>0, <1>3, <2>4 DEF Take, Executing, IdleWorker
  <2>5. ASSUME NEW w \in Workers, Retry(w) \/ ClaimSkip(w) \/ ClaimDead(w) \/ DatabaseFails(w)
        PROVE  Executing(v) /\ worker'[v].attempt = worker[v].attempt
    BY <1>0, <1>3, <2>5 DEF Retry, ClaimSkip, ClaimDead, DatabaseFails, Executing, Worker
  <2>6. ASSUME NEW w \in Workers, RunnerEnds(w) \/ FinishRead(w) \/ FinishWrite(w)
        PROVE  Executing(v) /\ worker'[v].attempt = worker[v].attempt
    BY <1>0, <1>3, <2>6 DEF RunnerEnds, FinishRead, FinishWrite, Executing, Done, Worker
  <2> QED
    BY <2>1, <2>2, <2>3, <2>4, <2>5, <2>6
       DEF Next, vars, EnsureQueued, Send, CancelRead, CancelWrite, DeadlinePasses, Claim, Finish,
           Ack, WorkerLost
<1> QED  BY <1>1, <1>2, <1>3

\* What a claim that runs does.
LEMMA RunStarts ==
  ASSUME TypeInv, NEW w \in Workers, ClaimRun(w)
  PROVE  /\ runs' = runs + 1 /\ job'.attempts = job.attempts + 1 /\ job'.attempts <= MaxAttempts
         /\ job'.status = "running" /\ job'.leaseLeft = Lease
         /\ worker'[w].attempt = job.attempts + 1 /\ worker'[w].left = Lease
         /\ worker'[w].pc = "run"
         /\ \A v \in Workers \ {w} : worker'[v] = worker[v]
BY DEF TypeInv, TypeOK, ClaimRun, NextAttempt, Job, Worker

\* No step breaks the counting of runs: only a claim starts one.
LEMMA CountedStep == TypeInv /\ Counted /\ [Next]_vars => Counted'
<1> SUFFICES ASSUME TypeInv, Counted, [Next]_vars PROVE Counted'
  OBVIOUS
<1>0. /\ job.attempts \in Nat /\ runs \in Nat
      /\ \A w \in Workers : worker[w].attempt \in Nat
  BY DEF TypeInv, TypeOK, Job, Worker
<1>1. ASSUME NEW w \in Workers, ClaimRun(w) PROVE Counted'
  <2>1. RunsBounded'
    <3>1. runs <= job.attempts /\ runs' = runs + 1 /\ job'.attempts = job.attempts + 1
          /\ job'.attempts <= MaxAttempts
      BY <1>1, RunStarts DEF Counted, RunsBounded
    <3> QED  BY <1>0, <3>1, Numbers DEF RunsBounded
  <2>2. \A v \in Workers \ {w} : Executing(v)' => Executing(v) /\ worker'[v].attempt = worker[v].attempt
    BY <1>1, RunStarts DEF Executing
  <2>3. \A v \in Workers : Executing(v)' => worker'[v].attempt <= job'.attempts
    BY <1>0, <1>1, <2>2, RunStarts DEF Counted
  <2>4. AttemptsDistinct'
    <3> SUFFICES ASSUME NEW u \in Workers, NEW v \in Workers, u # v, Executing(u)', Executing(v)'
                 PROVE  worker'[u].attempt # worker'[v].attempt
      BY DEF AttemptsDistinct
    <3>1. CASE u = w
      BY <1>0, <1>1, <2>2, <3>1, RunStarts DEF Counted
    <3>2. CASE v = w
      BY <1>0, <1>1, <2>2, <3>2, RunStarts DEF Counted
    <3>3. CASE u # w /\ v # w
      BY <2>2, <3>3 DEF Counted, AttemptsDistinct
    <3> QED  BY <3>1, <3>2, <3>3
  <2> QED  BY <2>1, <2>3, <2>4 DEF Counted
<1>2. CASE \A w \in Workers : ~ClaimRun(w)
  BY <1>0, <1>2, QuietForAttempts DEF Counted, RunsBounded, AttemptsDistinct
<1> QED  BY <1>1, <1>2

\* The counting holds in every reachable state.
LEMMA CountedAlways == Spec => [](TypeInv /\ Counted)
<1>1. Init => Counted
  BY Numbers DEF Init, Counted, RunsBounded, AttemptsDistinct, Executing, IdleWorker
<1> QED  BY <1>1, TypeInit, TypeStep, CountedStep, PTL DEF Spec

\* However deliveries repeat and workers die, the runner of an operation is started
\* at most max_attempts times.
THEOREM RunsLimited == Spec => []RunsBounded
<1>1. Counted => RunsBounded
  BY DEF Counted
<1> QED  BY <1>1, CountedAlways, PTL

\* Two workers that execute at once, one of them past its lease, do so under
\* different attempt numbers.
THEOREM AttemptsNeverShared == Spec => []AttemptsDistinct
<1>1. Counted => AttemptsDistinct
  BY DEF Counted
<1> QED  BY <1>1, CountedAlways, PTL

-----------------------------------------------------------------------------
(* Exclusive execution, while no run outlives its lease and nobody cancels *)

\* Whoever executes holds the row: it is running, and its lease runs out when the
\* execution's own time does.
HoldsRow ==
  /\ ~cancelling
  /\ \A v, w \in Workers : Executing(v) /\ Executing(w) => v = w
  /\ \A w \in Workers : Executing(w) =>
       job.status = "running" /\ job.leaseLeft = worker[w].left /\ worker[w].left > 0

\* A disturbance is not forgotten, and an undisturbed step cancels nothing and ends no lease.
LEMMA Disturbance ==
  ASSUME [Next]_vars, ~disturbed'
  PROVE  /\ ~disturbed /\ ~CancelRead
         /\ Tick => \A w \in Workers : Executing(w) => ~(worker[w].left <= 1)
<1>1. ~CancelRead
  BY DEF CancelRead
<1>2. Tick => ~disturbed /\ \A w \in Workers : Executing(w) => ~(worker[w].left <= 1)
  BY DEF Tick
<1>3. CASE ~Tick
  <2>1. disturbed' = disturbed
    BY <1>1, <1>3
       DEF Next, vars, EnsureQueued, Send, CancelWrite, DeadlinePasses, Take, Claim,
           ClaimSkip, ClaimDead, ClaimRun, RunnerEnds, Finish, FinishRead, FinishWrite,
           Retry, Ack, WorkerLost, DatabaseFails
  <2> QED  BY <1>1, <1>3, <2>1
<1> QED  BY <1>1, <1>2, <1>3

\* No undisturbed step takes a running row from the worker that executes it.
LEMMA HoldsRowStep ==
  ASSUME TypeInv, HoldsRow, [Next]_vars, ~disturbed'
  PROVE  HoldsRow'
<1>0. /\ job \in Job /\ worker \in [Workers -> Worker] /\ cancelling = FALSE
      /\ \A w \in Workers : worker[w].left \in 0 .. Lease /\ Lease \in Nat /\ Lease > 0
  BY Numbers DEF TypeInv, TypeOK, HoldsRow, Worker
<1>1. cancelling' = FALSE
  BY <1>0, Disturbance
     DEF Next, vars, EnsureQueued, Send, CancelWrite, DeadlinePasses, Tick, Take, Claim,
         ClaimSkip, ClaimDead, ClaimRun, RunnerEnds, Finish, FinishRead, FinishWrite, Retry,
         Ack, WorkerLost, DatabaseFails
<1>2. ASSUME NEW w \in Workers, ClaimRun(w) PROVE HoldsRow'
  <2>1. \A v \in Workers : ~Executing(v)
    BY <1>0, <1>2 DEF ClaimRun, Skipped, InFlight, HoldsRow
  <2>2. \A v \in Workers : Executing(v)' => v = w
    BY <1>2, <2>1, RunStarts DEF Executing
  <2> QED  BY <1>0, <1>1, <1>2, <2>2, RunStarts DEF HoldsRow
<1>3. ASSUME Tick PROVE HoldsRow'
  <2>1. \A v \in Workers : /\ worker'[v].pc = worker[v].pc
                           /\ worker'[v].left = Less(worker[v].left)
    BY <1>0, <1>3 DEF Tick, Worker
  <2>2. job'.status = job.status /\ job'.leaseLeft = Less(job.leaseLeft)
    BY <1>0, <1>3 DEF Tick, Job
  <2>3. \A v \in Workers : Executing(v)' => Executing(v) /\ worker[v].left > 1
    BY <1>0, <1>3, <2>1, Disturbance DEF Executing
  <2>4. \A v \in Workers : Executing(v)' => worker'[v].left > 0
    BY <1>0, <2>1, <2>3 DEF Less
  <2> QED  BY <1>1, <2>1, <2>2, <2>3, <2>4 DEF HoldsRow
<1>4. ASSUME ~Tick, \A w \in Workers : ~ClaimRun(w) PROVE HoldsRow'
  <2>1. \A v \in Workers : Executing(v)' => Executing(v)
    BY <1>4, QuietForAttempts
  <2>2. \A v \in Workers : Executing(v)' => worker'[v].left = worker[v].left
    <3> SUFFICES ASSUME NEW v \in Workers, Executing(v)' PROVE worker'[v].left = worker[v].left
      OBVIOUS
    <3>1. ASSUME NEW w \in Workers, Take(w) PROVE v # w
      BY <1>0, <3>1 DEF Take, IdleWorker, Executing
    <3>2. ASSUME NEW w \in Workers, Ack(w) \/ WorkerLost(w) PROVE v # w
      BY <1>0, <3>2 DEF Ack, WorkerLost, IdleWorker, Executing
    <3>3. ASSUME NEW w \in Workers, \/ ClaimSkip(w) \/ ClaimDead(w) \/ RunnerEnds(w)
                                     \/ Retry(w) \/ DatabaseFails(w)
          PROVE  worker'[v].left = worker[v].left
      BY <1>0, <3>3 DEF ClaimSkip, ClaimDead, RunnerEnds, Retry, DatabaseFails, Worker
    <3>4. ASSUME NEW w \in Workers, FinishRead(w) \/ FinishWrite(w)
          PROVE  worker'[v].left = worker[v].left
      BY <1>0, <3>4 DEF FinishRead, FinishWrite, Worker
    <3>5. ASSUME NEW w \in Workers, w # v, Take(w) \/ Ack(w) \/ WorkerLost(w)
          PROVE  worker'[v].left = worker[v].left
      BY <1>0, <3>5 DEF Take, Ack, WorkerLost
    <3>6. CASE UNCHANGED worker
      BY <3>6
    <3> QED
      BY <1>4, <3>1, <3>2, <3>3, <3>4, <3>5, <3>6
         DEF Next, vars, EnsureQueued, Send, CancelRead, CancelWrite, DeadlinePasses, Claim, Finish
  <2>3. ASSUME NEW v \in Workers, Executing(v)'
        PROVE  job'.status = job.status /\ job'.leaseLeft = job.leaseLeft
    <3>1. job.status = "running" /\ job.leaseLeft > 0
      BY <2>1, <2>3 DEF HoldsRow
    <3>2. ASSUME NEW w \in Workers, FinishWrite(w) PROVE FALSE
      <4>1. Executing(w) /\ w = v
        BY <2>1, <2>3, <3>2 DEF FinishWrite, Executing, HoldsRow
      <4> QED  BY <1>0, <2>3, <3>2, <4>1 DEF FinishWrite, Executing, Done, Worker
    <3>3. ASSUME NEW w \in Workers, ClaimDead(w) PROVE FALSE
      BY <3>1, <3>3 DEF ClaimDead, Skipped, InFlight
    <3> QED
      BY <1>0, <1>4, <3>1, <3>2, <3>3
         DEF Next, vars, EnsureQueued, Send, CancelRead, CancelWrite, DeadlinePasses, Take, Claim,
             ClaimSkip, RunnerEnds, Finish, FinishRead, Retry, Ack, WorkerLost, DatabaseFails, Job
  <2> QED  BY <1>1, <2>1, <2>2, <2>3 DEF HoldsRow
<1> QED  BY <1>2, <1>3, <1>4

\* So in every undisturbed state a worker that executes holds the row.
Exclusive == ~disturbed => HoldsRow

LEMMA ExclusiveAlways == Spec => [](TypeInv /\ Exclusive)
<1>1. Init => Exclusive
  BY DEF Init, Exclusive, HoldsRow, Executing, IdleWorker
<1>2. TypeInv /\ Exclusive /\ [Next]_vars => Exclusive'
  BY Disturbance, HoldsRowStep DEF Exclusive
<1> QED  BY <1>1, <1>2, TypeInit, TypeStep, PTL DEF Spec

\* Until a live run outlives its lease or an operator cancels, no two workers ever
\* execute one operation at once, whatever is lost, repeated or fails.
THEOREM RunsExclusive == Spec => []OneLiveRun
<1>1. Exclusive => OneLiveRun
  BY DEF Exclusive, HoldsRow, OneLiveRun
<1> QED  BY <1>1, ExclusiveAlways, PTL

\* Until then a recorded success is never undone.
THEOREM SuccessStays == Spec => SucceededIsTerminal
<1>1. TypeInv /\ Exclusive /\ [Next]_vars
      => [job.status = "succeeded" => job'.status = "succeeded" \/ disturbed']_vars
  <2> SUFFICES ASSUME TypeInv, Exclusive, Next, job.status = "succeeded", ~disturbed'
               PROVE  job'.status = "succeeded"
    BY DEF vars
  <2>0. job \in Job /\ ~cancelling /\ HoldsRow
    BY Disturbance DEF TypeInv, TypeOK, Exclusive, HoldsRow
  <2>1. ASSUME NEW w \in Workers, FinishWrite(w) PROVE FALSE
    BY <2>0, <2>1 DEF HoldsRow, FinishWrite, Executing
  <2> QED
    BY <2>0, <2>1
       DEF Next, EnsureQueued, Send, CancelRead, CancelWrite, DeadlinePasses, Tick, Take, Claim,
           ClaimSkip, ClaimDead, ClaimRun, Skipped, Terminal, RunnerEnds, Finish, FinishRead,
           Retry, Ack, WorkerLost, DatabaseFails, Job
<1> QED  BY <1>1, ExclusiveAlways, PTL DEF Spec, SucceededIsTerminal
=============================================================================
