------------------------------- MODULE Outbox -------------------------------
(***************************************************************************)
(* The transactional outbox of backend/workers/outbox.py: the table        *)
(* background_job_outbox, the dispatchers that claim rows, publish them to *)
(* the broker and acknowledge them, and everything else that writes the    *)
(* same rows (the upload transaction, an operator's cancellation, the      *)
(* deletion of a document).                                                *)
(*                                                                         *)
(* Time is kept as the time LEFT to each instant the code compares with    *)
(* now: availableIn = 0 is available_at <= now, leaseLeft = 0 is           *)
(* locked_at <= now - OUTBOX_DISPATCH_LEASE_SECONDS, deadlineLeft = 0 is   *)
(* deadline_at <= now.                                                     *)
(***************************************************************************)
EXTENDS Integers, FiniteSets

CONSTANTS Jobs,         \* ids of rag_ingestion_jobs rows, each used once
          Dispatchers,  \* concurrent executions of dispatch_outbox_task
          MaxAttempts,  \* settings.RAG_INGESTION_MAX_ATTEMPTS
          Lease,        \* settings.OUTBOX_DISPATCH_LEASE_SECONDS
          Deadline,     \* settings.RAG_INGESTION_JOB_TIMEOUT_SECONDS
          BackoffUnit,  \* retry delay per attempt, the 60 of min(60 * attempts, 900)
          MaxBackoff,   \* longest retry delay, the 900
          BatchSize     \* rows one dispatcher claims at most

ASSUME OutboxAssumption ==
  /\ MaxAttempts \in Nat \ {0}
  /\ Lease \in Nat \ {0}
  /\ Deadline \in Nat
  /\ BackoffUnit \in Nat
  /\ MaxBackoff \in Nat
  /\ BatchSize \in Nat \ {0}

VARIABLES row,         \* background_job_outbox, by job_id
          job,         \* the status column of rag_ingestion_jobs
          dispatcher,  \* local state of every dispatcher
          operator,    \* jobs an operator's cancel_job has checked, not yet written
          broker,      \* messages accepted by the broker: <<job, attempt>>
          lastToken    \* the lease token generated last

vars == <<row, job, dispatcher, operator, broker, lastToken>>

NoToken == 0
Settled == {"dispatched", "dead_letter", "cancelled"}
RowStatus == {"absent", "pending", "dispatching", "deleted"} \cup Settled
JobStatus == {"absent", "pending", "running", "completed", "failed", "cancelled", "deleted"}

Row == [status : RowStatus, attempts : Nat, availableIn : Nat,
        leaseLeft : Nat, deadlineLeft : Nat, token : Nat]

\* A row selected by a claim whose transaction is still open: dead is what the
\* deadline and attempt checks decided, completed what _dead_letter read of the job.
Pick == [job : Jobs, attempts : Nat, dead : BOOLEAN, completed : BOOLEAN]
\* OutboxClaim: a committed lease to publish and acknowledge.
Claim == [job : Jobs, attempts : Nat, token : Nat]
NoClaim == [job |-> "none"]

DispatcherPC == {"idle", "claiming", "sending", "accepted", "refused"}
Dispatcher == [pc : DispatcherPC, picks : SUBSET Pick,
               claims : SUBSET Claim, current : Claim \cup {NoClaim}]

IdleDispatcher == [pc |-> "idle", picks |-> {}, claims |-> {}, current |-> NoClaim]

Init ==
  /\ row = [j \in Jobs |-> [status |-> "absent", attempts |-> 0, availableIn |-> 0,
                            leaseLeft |-> 0, deadlineLeft |-> 0, token |-> NoToken]]
  /\ job = [j \in Jobs |-> "absent"]
  /\ dispatcher = [d \in Dispatchers |-> IdleDispatcher]
  /\ operator = {}
  /\ broker = {}
  /\ lastToken = NoToken

-----------------------------------------------------------------------------
(* Faults the checks must notice, each in the place of the definition it   *)
(* resembles.                                                              *)

LockedByNobody(j) == FALSE
ClaimableWhenPending(j) == row[j].status = "pending" /\ row[j].availableIn = 0
ClaimedRowKeepsToken(p, token) ==
  [row[p.job] EXCEPT !.status = IF p.dead THEN "dead_letter" ELSE "dispatching",
                     !.attempts = p.attempts,
                     !.leaseLeft = IF p.dead THEN 0 ELSE Lease,
                     !.token = IF p.dead THEN NoToken
                               ELSE IF @ = NoToken THEN token ELSE @]
OwnsLeaseByToken(c) == row[c.job].token = c.token
AckedRowAlways(c, dispatched, delay) ==
  [row[c.job] EXCEPT !.status = "dispatched", !.leaseLeft = 0, !.token = NoToken]

-----------------------------------------------------------------------------
(* Row locks: SELECT ... FOR UPDATE SKIP LOCKED until the claim commits.   *)

Locked(j) == \E d \in Dispatchers : \E p \in dispatcher[d].picks : p.job = j

\* The WHERE clause of the claim query: due rows, and leases that ran out.
Claimable(j) ==
  \/ row[j].status = "pending" /\ row[j].availableIn = 0
  \/ row[j].status = "dispatching" /\ row[j].leaseLeft = 0

PickOf(j) ==
  [job |-> j,
   attempts |-> row[j].attempts + 1,
   dead |-> row[j].deadlineLeft = 0 \/ row[j].attempts + 1 > MaxAttempts,
   completed |-> job[j] = "completed"]

(***************************************************************************)
(* upload_document / enqueue_document_indexing: the ingestion job and its  *)
(* outbox row are inserted by one transaction.                             *)
(***************************************************************************)
Enqueue(j) ==
  /\ row[j].status = "absent"
  /\ row' = [row EXCEPT ![j].status = "pending", ![j].deadlineLeft = Deadline]
  /\ job' = [job EXCEPT ![j] = "pending"]
  /\ UNCHANGED <<dispatcher, operator, broker, lastToken>>

\* delete_ingestion_jobs_for_document; the outbox row goes by ON DELETE CASCADE,
\* which waits for a claim that holds the row.
DeleteJob(j) ==
  /\ job[j] \notin {"absent", "deleted"}
  /\ ~Locked(j)
  /\ row' = [row EXCEPT ![j].status = "deleted", ![j].token = NoToken]
  /\ job' = [job EXCEPT ![j] = "deleted"]
  /\ UNCHANGED <<dispatcher, operator, broker, lastToken>>

-----------------------------------------------------------------------------
(* dispatch_pending_job_events                                             *)

\* The query of _claim_pending_job_events. Rows another open claim holds are
\* skipped, so a batch is any set of claimable rows nobody holds.
ClaimSelect(d) ==
  /\ dispatcher[d].pc = "idle"
  /\ \E S \in SUBSET {j \in Jobs : Claimable(j) /\ ~Locked(j)} :
       /\ S # {}
       /\ Cardinality(S) <= BatchSize
       /\ dispatcher' = [dispatcher EXCEPT ![d].pc = "claiming",
                                           ![d].picks = {PickOf(j) : j \in S}]
  /\ UNCHANGED <<row, job, operator, broker, lastToken>>

\* The claim loop's effect on one row: a new lease, or _dead_letter.
ClaimedRow(p, token) ==
  IF p.dead
  THEN [row[p.job] EXCEPT !.status = "dead_letter", !.attempts = p.attempts,
                          !.leaseLeft = 0, !.token = NoToken]
  ELSE [row[p.job] EXCEPT !.status = "dispatching", !.attempts = p.attempts,
                          !.leaseLeft = Lease, !.token = token]

\* The claim transaction commits; uuid4 tokens are numbers never used before.
ClaimCommit(d) ==
  LET picks   == dispatcher[d].picks
      picked  == {p.job : p \in picks}
      pick(j) == CHOOSE p \in picks : p.job = j
      token   == lastToken + 1
      claims  == {[job |-> p.job, attempts |-> p.attempts, token |-> token]
                    : p \in {q \in picks : ~q.dead}}
  IN /\ dispatcher[d].pc = "claiming"
     /\ row' = [j \in Jobs |-> IF j \in picked THEN ClaimedRow(pick(j), token) ELSE row[j]]
     /\ job' = [j \in Jobs |-> IF j \in picked /\ pick(j).dead /\ ~pick(j).completed
                               THEN "failed" ELSE job[j]]
     /\ dispatcher' = [dispatcher EXCEPT
          ![d] = [IdleDispatcher EXCEPT !.pc = IF claims = {} THEN "idle" ELSE "sending",
                                        !.claims = claims]]
     /\ lastToken' = token
     /\ UNCHANGED <<operator, broker>>

\* enqueue_outbox_job.apply_async for one claim. An accepted message may still
\* raise (the connection breaks on the reply), a call that returns was accepted.
Publish(d) ==
  /\ dispatcher[d].pc = "sending"
  /\ \E c \in dispatcher[d].claims, accepted, raised \in BOOLEAN :
       /\ accepted \/ raised
       /\ broker' = IF accepted THEN broker \cup {<<c.job, c.attempts>>} ELSE broker
       /\ dispatcher' = [dispatcher EXCEPT
            ![d].pc = IF raised THEN "refused" ELSE "accepted",
            ![d].claims = @ \ {c},
            ![d].current = c]
  /\ UNCHANGED <<row, job, operator, lastToken>>

\* The compare-and-set of _ack_claim: id, status and lease token must match.
OwnsLease(c) == row[c.job].status = "dispatching" /\ row[c.job].token = c.token

Backoff(attempts) ==
  IF BackoffUnit * attempts < MaxBackoff THEN BackoffUnit * attempts ELSE MaxBackoff

\* The row an acknowledgement leaves. The retry delay counts from before the
\* publish, so at commit any part of it may have passed.
AckedRow(c, dispatched, delay) ==
  IF dispatched
  THEN [row[c.job] EXCEPT !.status = "dispatched", !.leaseLeft = 0, !.token = NoToken]
  ELSE [row[c.job] EXCEPT !.status = "pending", !.leaseLeft = 0, !.token = NoToken,
                          !.availableIn = delay]

Ack(d) ==
  LET c    == dispatcher[d].current
      left == dispatcher[d].claims
  IN /\ dispatcher[d].pc \in {"accepted", "refused"}
     /\ IF OwnsLease(c)
        THEN /\ ~Locked(c.job)   \* the UPDATE waits for a claim that holds the row
             /\ \E delay \in 0 .. Backoff(c.attempts) :
                  row' = [row EXCEPT ![c.job] =
                            AckedRow(c, dispatcher[d].pc = "accepted", delay)]
        ELSE UNCHANGED row
     /\ dispatcher' = [dispatcher EXCEPT
          ![d].pc = IF left = {} THEN "idle" ELSE "sending",
          ![d].current = NoClaim]
     /\ UNCHANGED <<job, operator, broker, lastToken>>

\* The process dies or an exception leaves the loop: an open claim transaction
\* rolls back, committed claims stay leased with nobody to publish them.
Abandon(d) ==
  /\ dispatcher[d].pc # "idle"
  /\ dispatcher' = [dispatcher EXCEPT ![d] = IdleDispatcher]
  /\ UNCHANGED <<row, job, operator, broker, lastToken>>

-----------------------------------------------------------------------------
(* Everybody else who writes the two tables                                *)

\* cancel_job of the jobs console reads the job without a lock ...
CancelCheck(j) ==
  /\ j \notin operator
  /\ job[j] = "pending"
  /\ operator' = operator \cup {j}
  /\ UNCHANGED <<row, job, dispatcher, broker, lastToken>>

\* ... and later writes the job and its undelivered outbox row, which waits for
\* a claim that holds the row. A job deleted meanwhile rolls the request back.
CancelWrite(j) ==
  /\ j \in operator
  /\ ~Locked(j)
  /\ operator' = operator \ {j}
  /\ IF job[j] = "deleted"
     THEN UNCHANGED <<row, job>>
     ELSE /\ job' = [job EXCEPT ![j] = "cancelled"]
          /\ row' = [row EXCEPT ![j].status =
                       IF @ \in {"pending", "dispatching"} THEN "cancelled" ELSE @]
  /\ UNCHANGED <<dispatcher, broker, lastToken>>

\* What index_document, run for any accepted message, does to the status column;
\* DocumentIndexing gives the consumer in full.
ConsumerStep(j) ==
  /\ \E m \in broker : m[1] = j
  /\ job[j] \notin {"absent", "deleted"}
  /\ \E s \in {"running", "completed", "failed"} :
       /\ job[j] = "completed" => s # "running"
       /\ job' = [job EXCEPT ![j] = s]
  /\ UNCHANGED <<row, dispatcher, operator, broker, lastToken>>

Less(t) == IF t = 0 THEN 0 ELSE t - 1

\* One unit of time; a claim transaction takes none.
Tick ==
  /\ \A d \in Dispatchers : dispatcher[d].pc # "claiming"
  /\ row' = [j \in Jobs |-> [row[j] EXCEPT !.availableIn = Less(@), !.leaseLeft = Less(@),
                                           !.deadlineLeft = Less(@)]]
  /\ UNCHANGED <<job, dispatcher, operator, broker, lastToken>>

-----------------------------------------------------------------------------
Next ==
  \/ \E j \in Jobs : \/ Enqueue(j)
                     \/ DeleteJob(j)
                     \/ CancelCheck(j)
                     \/ CancelWrite(j)
                     \/ ConsumerStep(j)
  \/ \E d \in Dispatchers : \/ ClaimSelect(d)
                            \/ ClaimCommit(d)
                            \/ Publish(d)
                            \/ Ack(d)
                            \/ Abandon(d)
  \/ Tick

Spec == Init /\ [][Next]_vars

\* Beat starts dispatch_outbox_task every 30 seconds and a started dispatcher
\* takes its next step or dies; claims that keep reaching commit do commit.
Fairness ==
  /\ WF_vars(Tick)
  /\ \A d \in Dispatchers : /\ WF_vars(ClaimSelect(d))
                            /\ SF_vars(ClaimCommit(d))
                            /\ WF_vars(Publish(d))
                            /\ WF_vars(Ack(d))

FairSpec == Spec /\ Fairness

-----------------------------------------------------------------------------
(* Properties                                                              *)

\* The state is well formed.
TypeOK ==
  /\ row \in [Jobs -> Row]
  /\ job \in [Jobs -> JobStatus]
  /\ dispatcher \in [Dispatchers -> Dispatcher]
  /\ operator \in SUBSET Jobs
  /\ broker \in SUBSET (Jobs \X Nat)
  /\ lastToken \in Nat

\* Claims a dispatcher has yet to publish, and all it has yet to settle.
Unsent(d) == dispatcher[d].claims
Held(d) == IF dispatcher[d].pc \in {"accepted", "refused"}
           THEN Unsent(d) \cup {dispatcher[d].current} ELSE Unsent(d)

\* However dispatchers overlap, crash and reclaim, no attempt of a job is
\* published twice and no attempt beyond the limit is published, so the broker
\* accepts at most RAG_INGESTION_MAX_ATTEMPTS messages per job. Rests on SKIP
\* LOCKED, on counting the attempt in the claim transaction and on dead-lettering
\* the row that exceeds the limit.
PublishBound ==
  /\ \A m \in broker : m[2] \in 1 .. MaxAttempts
  /\ \A d \in Dispatchers : \A c \in Unsent(d) :
       /\ c.attempts \in 1 .. MaxAttempts
       /\ <<c.job, c.attempts>> \notin broker
       /\ \A e \in Dispatchers \ {d} : \A b \in Held(e) :
            b.job = c.job => b.attempts # c.attempts

\* A dispatcher whose row was claimed again no longer holds the row's lease, so
\* its acknowledgement cannot settle somebody else's attempt.
StaleClaimHasNoLease ==
  \A d \in Dispatchers : \A c \in Held(d) :
    OwnsLease(c) => c.attempts = row[c.job].attempts

\* A row is marked dispatched only if the broker accepted a message for it.
DispatchedWasAccepted ==
  \A j \in Jobs : row[j].status = "dispatched" => \E n \in 1 .. MaxAttempts : <<j, n>> \in broker

\* A settled row is never claimed, acknowledged or cancelled again, only deleted
\* with its job: late acknowledgements and late cancellations change nothing.
SettledRowsStay ==
  [][\A j \in Jobs : row[j].status \in Settled =>
       row'[j].status \in {row[j].status, "deleted"}]_vars

-----------------------------------------------------------------------------
(* The inductive invariant behind PublishBound, StaleClaimHasNoLease,      *)
(* DispatchedWasAccepted and SettledRowsStay.                              *)

\* A dispatcher has picks only while its claim transaction is open, claims and a
\* current claim only after it committed.
LocalOK(s) ==
  /\ s.pc # "claiming" => s.picks = {}
  /\ s.pc # "sending" /\ s.pc # "accepted" /\ s.pc # "refused" => s.claims = {}
  /\ IF s.pc \in {"accepted", "refused"}
     THEN s.current \in Claim /\ s.current \notin s.claims
     ELSE s.current = NoClaim

\* An open claim transaction holds its rows: they stay claimable as selected.
PickOK(p) ==
  /\ row[p.job].status \in {"pending", "dispatching"}
  /\ p.attempts = row[p.job].attempts + 1
  /\ p.dead \/ p.attempts <= MaxAttempts

\* Row locks are exclusive.
PicksExclusive ==
  \A d, e \in Dispatchers : \A p \in dispatcher[d].picks, q \in dispatcher[e].picks :
    p.job = q.job => d = e /\ p = q

\* A committed claim counts one of the row's attempts, and its token is the
\* row's only while that attempt is the row's last.
ClaimOK(c) ==
  /\ c.attempts \in 1 .. MaxAttempts
  /\ c.attempts <= row[c.job].attempts
  /\ c.token \in 1 .. lastToken
  /\ c.token = row[c.job].token => c.attempts = row[c.job].attempts

\* No two claims, of one dispatcher or of two, count the same attempt.
ClaimsExclusive ==
  \A d, e \in Dispatchers : \A c \in Held(d), b \in Held(e) :
    c.job = b.job /\ c.attempts = b.attempts => d = e /\ c = b

\* A message counts one of the row's attempts, no unsent claim's message is there,
\* and the message of an accepted claim is.
MessagesOK ==
  /\ \A m \in broker : m[2] \in 1 .. MaxAttempts /\ m[2] <= row[m[1]].attempts
  /\ \A d \in Dispatchers : \A c \in Unsent(d) : <<c.job, c.attempts>> \notin broker
  /\ \A d \in Dispatchers : dispatcher[d].pc = "accepted" =>
       <<dispatcher[d].current.job, dispatcher[d].current.attempts>> \in broker

IInv ==
  /\ TypeOK
  /\ \A d \in Dispatchers : LocalOK(dispatcher[d])
  /\ \A d \in Dispatchers : \A p \in dispatcher[d].picks : PickOK(p)
  /\ PicksExclusive
  /\ \A d \in Dispatchers : \A c \in Held(d) : ClaimOK(c)
  /\ ClaimsExclusive
  /\ MessagesOK
  /\ \A j \in Jobs : row[j].token <= lastToken
  /\ DispatchedWasAccepted

\* The outbox implements Delivery: the promise to a job read off its row.
PromiseOf(status) ==
  CASE status = "absent" -> "none"
    [] status \in {"pending", "dispatching"} -> "owed"
    [] status = "dispatched" -> "kept"
    [] status = "dead_letter" -> "broken"
    [] OTHER -> "withdrawn"

Promises == INSTANCE Delivery WITH
  Limit <- MaxAttempts,
  promise <- [j \in Jobs |-> PromiseOf(row[j].status)]

\* Every behaviour of the dispatchers, crashes and late acknowledgements
\* included, is one that Delivery allows.
KeepsPromises == Promises!Spec

\* A row whose publisher died, or whose publish failed, is retried until it is
\* dispatched, dead-lettered or cancelled; it is never left in between.
EveryRowSettles ==
  \A j \in Jobs : row[j].status = "pending" ~> row[j].status \in Settled \cup {"deleted"}
=============================================================================
