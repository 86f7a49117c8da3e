-------------------------- MODULE DocumentIndexing --------------------------
(***************************************************************************)
(* The indexing of one document by                                         *)
(* backend/modules/rag/application/document_ingestion_service.py: the runs *)
(* of index_document that the outbox' messages start, the requests that    *)
(* enqueue further jobs, the operator who cancels one, the dispatcher of   *)
(* the outbox that gives one up, the owner who deletes the document and    *)
(* the task that cleans up after the deletion.                             *)
(*                                                                         *)
(* A step is a transaction, or the part of one up to a statement that      *)
(* others interleave with; the row locks it holds meanwhile are JobLocked  *)
(* and DocLocked. One index version (IndexVersions has several).           *)
(***************************************************************************)
EXTENDS Integers, FiniteSets

CONSTANTS Jobs,         \* ids of the document's ingestion jobs
          Indexers,     \* concurrent executions of index_document
          MaxAttempts,  \* settings.RAG_INGESTION_MAX_ATTEMPTS
          Lease,        \* settings.OUTBOX_DISPATCH_LEASE_SECONDS, for heartbeats
          Faults,       \* whether steps fail, workers are lost, transactions aborted
          Deletes,      \* whether the owner deletes the document
          Operators,    \* how many operators cancel a job at a time
          DeadLetters   \* whether the outbox gives up the delivery of jobs

ASSUME DocumentIndexingAssumption ==
  /\ MaxAttempts \in Nat \ {0} /\ Lease \in Nat \ {0} /\ Operators \in Nat
  /\ {Faults, Deletes, DeadLetters} \subseteq BOOLEAN

VARIABLES doc,         \* the row of rag_documents
          job,         \* the rows of rag_ingestion_jobs
          chunks,      \* which runs made the committed rows of rag_chunks
          indexer,     \* local state of every indexer
          owner,       \* local state of delete_document
          cleaner,     \* local state of cleanup_deleted_document
          cancelling,  \* jobs cancel_job has checked and not written
          disturbed    \* history: under a run, its heartbeat went stale or its job was
                       \* given another status by an operator or the outbox

vars == <<doc, job, chunks, indexer, owner, cleaner, cancelling, disturbed>>

\* working stands for validating, extracting, chunking and embedding.
Doc == [status : {"uploaded", "working", "indexed", "failed", "deleted"}, deleted : BOOLEAN]

\* A checked job is one whose request has read the document but not inserted the
\* row; left is the time for which the heartbeat of a running job is fresh.
JobStatus == {"absent", "checked", "pending", "running", "completed", "failed",
              "cancelled", "deleted"}
Job == [status : JobStatus, attempts : 0 .. MaxAttempts, left : 0 .. Lease, expired : BOOLEAN]

\* What one run left in rag_chunks; not whole if it failed while storing.
Chunks == [job : Jobs, attempt : 1 .. MaxAttempts, whole : BOOLEAN]

NoJob == "none"
Working == {"extract", "chunk", "embed", "store", "insert"}
Indexer == [pc : {"idle", "found", "failing", "answering"} \cup Working,
            job : Jobs \cup {NoJob}, attempt : 0 .. MaxAttempts, seen : SUBSET Chunks]
\* jobs are those the DELETE statement saw, seen the chunks.
Sweeper == [pc : {"idle", "found", "hidden", "sweeping", "committed", "queued", "chunks", "done"},
            jobs : SUBSET Jobs, seen : SUBSET Chunks]

NewJob == [status |-> "pending", attempts |-> 0, left |-> 0, expired |-> FALSE]
IdleIndexer == [pc |-> "idle", job |-> NoJob, attempt |-> 0, seen |-> {}]
IdleSweeper == [pc |-> "idle", jobs |-> {}, seen |-> {}]

\* upload_document has committed the document and its first job.
Init ==
  /\ doc = [status |-> "uploaded", deleted |-> FALSE]
  /\ \E j \in Jobs : job = [k \in Jobs |-> IF k = j THEN NewJob ELSE [NewJob EXCEPT !.status = "absent"]]
  /\ chunks = {}
  /\ indexer = [i \in Indexers |-> IdleIndexer]
  /\ owner = IdleSweeper
  /\ cleaner = IdleSweeper
  /\ cancelling = {}
  /\ disturbed = FALSE

Stored == {j \in Jobs : job[j].status \notin {"absent", "checked", "deleted"}}
JobLocked(j) == \E i \in Indexers : indexer[i].pc = "insert" /\ indexer[i].job = j
DocLocked == owner.pc \in {"hidden", "sweeping"}
Live(i) == indexer[i].pc \in Working \cup {"failing"}
UnderRun(j) == \E i \in Indexers : indexer[i].pc \notin {"idle", "found"} /\ indexer[i].job = j
-----------------------------------------------------------------------------
(* Faults the checks must notice, each named for the definition it         *)
(* resembles.                                                              *)

ConflictIgnored(i) == FALSE
FreshNever(k) == FALSE
RepeatsNothing(k) == FALSE
NextIfStopped(k) == IF k.status = "running" THEN k.attempts ELSE k.attempts + 1
SweptNone(S) == job
-----------------------------------------------------------------------------
(* enqueue_document_indexing: reindexing and retries                       *)

Active(j) == job[j].status \in {"pending", "running"} /\ ~job[j].expired

\* get_document, and unless a new attempt is forced no active job ...
CheckEnqueue(j) ==
  /\ job[j].status = "absent" /\ ~doc.deleted
  /\ \E force \in BOOLEAN : force \/ \A k \in Jobs : ~Active(k)
  /\ job' = [job EXCEPT ![j].status = "checked"]
  /\ UNCHANGED <<doc, chunks, indexer, owner, cleaner, cancelling, disturbed>>

\* ... create_ingestion_job and commit. The foreign key does not wait for a deletion.
InsertJob(j) ==
  /\ job[j].status = "checked"
  /\ job' = [job EXCEPT ![j] = NewJob]
  /\ UNCHANGED <<doc, chunks, indexer, owner, cleaner, cancelling, disturbed>>

\* deadline_at passes.
Expire(j) ==
  /\ j \in Stored /\ ~job[j].expired
  /\ job' = [job EXCEPT ![j].expired = TRUE]
  /\ UNCHANGED <<doc, chunks, indexer, owner, cleaner, cancelling, disturbed>>

\* One unit of time, in which heartbeats grow old.
Tick ==
  /\ \E j \in Jobs : job[j].left > 0
  /\ job' = [j \in Jobs |-> [job[j] EXCEPT !.left = IF @ = 0 THEN 0 ELSE @ - 1]]
  /\ disturbed' = (disturbed \/ \E i \in Indexers : Live(i) /\ job[indexer[i].job].left = 1)
  /\ UNCHANGED <<doc, chunks, indexer, owner, cleaner, cancelling>>
-----------------------------------------------------------------------------
(* index_document                                                          *)

\* The row under the status it gets; only the heartbeat of a running job counts.
Beating(k, s) == [k EXCEPT !.status = s, !.left = IF s = "running" THEN Lease ELSE 0]

Leaves(i) == indexer' = [indexer EXCEPT ![i] = IdleIndexer]
MovesTo(i, pc) == indexer' = [indexer EXCEPT ![i].pc = pc]

\* A message for j is delivered, once more perhaps, and the document is found.
Deliver(i, j) ==
  /\ indexer[i].pc = "idle"
  /\ job[j].status \notin {"absent", "checked"} /\ ~doc.deleted
  /\ indexer' = [indexer EXCEPT ![i].pc = "found", ![i].job = j]
  /\ UNCHANGED <<doc, job, chunks, owner, cleaner, cancelling, disturbed>>

Fresh(k) == k.status = "running" /\ k.left > 0
Repeats(k) == k.status = "completed"
Exhausted(k) == k.expired \/ k.attempts >= MaxAttempts

\* The job, read FOR UPDATE, is gone, done, or another run's: nothing is written.
Decline(i) ==
  LET k == job[indexer[i].job]
  IN /\ indexer[i].pc = "found" /\ ~JobLocked(indexer[i].job)
     /\ k.status = "deleted" \/ Repeats(k) \/ Fresh(k)
     /\ Leaves(i)
     /\ UNCHANGED <<doc, job, chunks, owner, cleaner, cancelling, disturbed>>

\* Its deadline or its attempts are over: the job fails, the document stays as it is.
GiveUp(i) ==
  LET j == indexer[i].job  k == job[j]
  IN /\ indexer[i].pc = "found" /\ ~JobLocked(j)
     /\ k.status # "deleted" /\ ~Repeats(k) /\ ~Fresh(k) /\ Exhausted(k)
     /\ job' = [job EXCEPT ![j] = Beating(k, "failed")]
     /\ Leaves(i)
     /\ UNCHANGED <<doc, chunks, owner, cleaner, cancelling, disturbed>>

\* update_ingestion_job, started.
NextAttempt(k) == k.attempts + 1

\* The attempt starts, whatever else the status is.
Claim(i) ==
  LET j == indexer[i].job  k == job[j]
  IN /\ indexer[i].pc = "found" /\ ~JobLocked(j) /\ ~DocLocked
     /\ k.status # "deleted" /\ ~Repeats(k) /\ ~Fresh(k) /\ ~Exhausted(k)
     /\ job' = [job EXCEPT ![j] = [Beating(k, "running") EXCEPT !.attempts = NextAttempt(k)]]
     /\ doc' = [doc EXCEPT !.status = "working"]
     /\ indexer' = [indexer EXCEPT ![i].pc = "extract", ![i].attempt = NextAttempt(k)]
     /\ UNCHANGED <<chunks, owner, cleaner, cancelling, disturbed>>

\* _touch_job. Touching a deleted row raises StaleDataError: the transaction is
\* lost, and with it the handler's.
Touched(j) == job' = [job EXCEPT ![j] = Beating(@, @.status)]

\* Scanned, then parsed: _touch_job, the next status, commit.
Stage(i) ==
  LET j == indexer[i].job
  IN /\ indexer[i].pc \in {"extract", "chunk"} /\ ~JobLocked(j)
     /\ \/ /\ job[j].status # "deleted" /\ ~job[j].expired /\ ~DocLocked
           /\ Touched(j)
           /\ doc' = [doc EXCEPT !.status = "working"]
           /\ MovesTo(i, IF indexer[i].pc = "extract" THEN "chunk" ELSE "embed")
        \/ /\ job[j].status # "deleted" /\ job[j].expired
           /\ MovesTo(i, "failing") /\ UNCHANGED <<job, doc>>
        \/ /\ job[j].status = "deleted"
           /\ Leaves(i) /\ UNCHANGED <<job, doc>>
     /\ UNCHANGED <<chunks, owner, cleaner, cancelling, disturbed>>

\* Status embedding, without a look at the job.
Embed(i) ==
  /\ indexer[i].pc = "embed" /\ ~DocLocked
  /\ doc' = [doc EXCEPT !.status = "working"]
  /\ MovesTo(i, "store")
  /\ UNCHANGED <<job, chunks, owner, cleaner, cancelling, disturbed>>

\* The last transaction begins: _touch_job locks the job, and the DELETE of
\* replace_chunks sees the chunks committed so far.
Store(i) ==
  LET j == indexer[i].job
  IN /\ indexer[i].pc = "store" /\ ~JobLocked(j)
     /\ \/ /\ job[j].status # "deleted" /\ ~job[j].expired
           /\ indexer' = [indexer EXCEPT ![i].pc = "insert", ![i].seen = chunks]
        \/ job[j].status # "deleted" /\ job[j].expired /\ MovesTo(i, "failing")
        \/ job[j].status = "deleted" /\ Leaves(i)
     /\ UNCHANGED <<doc, job, chunks, owner, cleaner, cancelling, disturbed>>

\* The unique index on document, version and chunk_index: chunks that appeared
\* since the DELETE make the INSERT fail.
Conflict(i) == chunks \ indexer[i].seen # {}

Made(i, whole) == [job |-> indexer[i].job, attempt |-> indexer[i].attempt, whole |-> whole]

\* The rest of the transaction: the chunks are inserted, the document is indexed,
\* the job completed; what the replacement had seen is forgotten.
Commit(i) ==
  LET j == indexer[i].job
  IN /\ indexer[i].pc = "insert" /\ ~DocLocked
     /\ ~Conflict(i)
     /\ chunks' = (chunks \ indexer[i].seen) \cup {Made(i, TRUE)}
     /\ doc' = [doc EXCEPT !.status = "indexed"]
     /\ job' = [job EXCEPT ![j] = Beating(@, "completed")]
     /\ indexer' = [indexer EXCEPT ![i].pc = "answering", ![i].seen = {}]
     /\ UNCHANGED <<owner, cleaner, cancelling, disturbed>>

\* refresh and the invalidation of the cache, still within the try block.
Answer(i) ==
  /\ indexer[i].pc = "answering"
  /\ Leaves(i)
  /\ UNCHANGED <<doc, job, chunks, owner, cleaner, cancelling, disturbed>>

\* Scanner, storage, parser, embedding provider or the time limit raise.
Raise(i) ==
  /\ Faults /\ indexer[i].pc \in {"extract", "chunk", "embed", "store", "answering"}
  /\ MovesTo(i, "failing")
  /\ UNCHANGED <<doc, job, chunks, owner, cleaner, cancelling, disturbed>>

\* The except clauses: document, then job, are failed, whatever they are by now.
Fail(i) ==
  LET j == indexer[i].job
  IN /\ indexer[i].pc = "failing" /\ ~JobLocked(j) /\ ~DocLocked
     /\ IF job[j].status = "deleted" THEN UNCHANGED <<doc, job>>
        ELSE /\ doc' = [doc EXCEPT !.status = "failed"]
             /\ job' = [job EXCEPT ![j] = Beating(@, "failed")]
     /\ Leaves(i)
     /\ UNCHANGED <<chunks, owner, cleaner, cancelling, disturbed>>

\* Raised after the DELETE: the except clauses commit the transaction they find
\* open, the DELETE and what was inserted included.
FailStoring(i) ==
  LET j == indexer[i].job
  IN /\ Faults /\ indexer[i].pc = "insert" /\ ~DocLocked
     /\ ~Conflict(i)
     /\ \E rest \in {{}, {Made(i, FALSE)}} : chunks' = (chunks \ indexer[i].seen) \cup rest
     /\ doc' = [doc EXCEPT !.status = "failed"]
     /\ job' = [job EXCEPT ![j] = Beating(@, "failed")]
     /\ Leaves(i)
     /\ UNCHANGED <<owner, cleaner, cancelling, disturbed>>

\* The open transaction is lost, and the run with it: the worker died, the database
\* failed, the INSERT met other chunks, or PostgreSQL breaks a deadlock with the owner.
Abort(i) ==
  /\ \/ Faults /\ indexer[i].pc # "idle"
     \/ indexer[i].pc = "insert" /\ (Conflict(i) \/ owner.pc = "sweeping")
  /\ Leaves(i)
  /\ UNCHANGED <<doc, job, chunks, owner, cleaner, cancelling, disturbed>>
-----------------------------------------------------------------------------
(* delete_document and cleanup_deleted_document                            *)

Without(S) == [j \in Jobs |-> IF j \in S THEN [NewJob EXCEPT !.status = "deleted"] ELSE job[j]]

FindDocument ==
  /\ Deletes /\ owner.pc = "idle" /\ ~doc.deleted
  /\ owner' = [owner EXCEPT !.pc = "found"]
  /\ UNCHANGED <<doc, job, chunks, indexer, cleaner, cancelling, disturbed>>

\* soft_delete_document, flushed: the document is locked.
HideDocument ==
  /\ owner.pc = "found"
  /\ owner' = [owner EXCEPT !.pc = "hidden"]
  /\ UNCHANGED <<doc, job, chunks, indexer, cleaner, cancelling, disturbed>>

\* delete_ingestion_jobs_for_document: the statement sees the jobs there are ...
SweepJobs ==
  /\ owner.pc = "hidden"
  /\ owner' = [owner EXCEPT !.pc = "sweeping", !.jobs = Stored]
  /\ UNCHANGED <<doc, job, chunks, indexer, cleaner, cancelling, disturbed>>

\* ... waits for their locks, and the transaction commits.
CommitDelete ==
  /\ owner.pc = "sweeping" /\ \A j \in owner.jobs : ~JobLocked(j)
  /\ doc' = [status |-> "deleted", deleted |-> TRUE]
  /\ job' = Without(owner.jobs)
  /\ owner' = [owner EXCEPT !.pc = "committed"]
  /\ UNCHANGED <<chunks, indexer, cleaner, cancelling, disturbed>>

\* The transaction fails, or loses a deadlock with an indexer.
AbortDelete ==
  /\ \/ Faults /\ owner.pc \in {"found", "hidden", "sweeping"}
     \/ owner.pc = "sweeping" /\ \E j \in owner.jobs : JobLocked(j)
  /\ owner' = IdleSweeper
  /\ UNCHANGED <<doc, job, chunks, indexer, cleaner, cancelling, disturbed>>

\* queue_document_cleanup, reached only if nothing fails after the commit.
QueueCleanup ==
  /\ owner.pc = "committed"
  /\ owner' = [owner EXCEPT !.pc = "done"]
  /\ \/ cleaner' = [cleaner EXCEPT !.pc = "queued"]
     \/ Faults /\ UNCHANGED cleaner
  /\ UNCHANGED <<doc, job, chunks, indexer, cancelling, disturbed>>

\* vector_store.delete_document sees the chunks there are ...
SweepChunks ==
  /\ cleaner.pc = "queued"
  /\ cleaner' = [cleaner EXCEPT !.pc = "chunks", !.seen = chunks]
  /\ UNCHANGED <<doc, job, chunks, indexer, owner, cancelling, disturbed>>

\* ... the jobs are deleted next ...
SweepJobsAgain ==
  /\ cleaner.pc = "chunks"
  /\ cleaner' = [cleaner EXCEPT !.pc = "sweeping", !.jobs = Stored]
  /\ UNCHANGED <<doc, job, chunks, indexer, owner, cancelling, disturbed>>

\* ... and when their locks are free the transaction commits.
CommitCleanup ==
  /\ cleaner.pc = "sweeping" /\ \A j \in cleaner.jobs : ~JobLocked(j)
  /\ chunks' = chunks \ cleaner.seen
  /\ job' = Without(cleaner.jobs)
  /\ cleaner' = [IdleSweeper EXCEPT !.pc = "done"]
  /\ UNCHANGED <<doc, indexer, owner, cancelling, disturbed>>

\* The task fails and is retried, or the object cannot be deleted after the commit.
RetryCleanup ==
  /\ Faults /\ cleaner.pc \in {"chunks", "sweeping", "done"}
  /\ cleaner' = [IdleSweeper EXCEPT !.pc = "queued"]
  /\ UNCHANGED <<doc, job, chunks, indexer, owner, cancelling, disturbed>>
-----------------------------------------------------------------------------
(* JobsConsoleService.cancel_job                                           *)

CheckCancel(j) ==
  /\ Cardinality(cancelling) < Operators /\ j \notin cancelling /\ job[j].status = "pending"
  /\ cancelling' = cancelling \cup {j}
  /\ UNCHANGED <<doc, job, chunks, indexer, owner, cleaner, disturbed>>

\* The row is written whatever became of it; a deleted one raises StaleDataError.
WriteCancel(j) ==
  /\ j \in cancelling /\ ~JobLocked(j)
  /\ job' = IF job[j].status = "deleted" THEN job
            ELSE [job EXCEPT ![j] = Beating(@, "cancelled")]
  /\ cancelling' = cancelling \ {j}
  /\ disturbed' = (disturbed \/ UnderRun(j))
  /\ UNCHANGED <<doc, chunks, indexer, owner, cleaner>>
-----------------------------------------------------------------------------
(* _dead_letter of the outbox                                              *)

\* A claim that finds the deadline or the attempts of j's row over fails the job,
\* unless it read completed; where it read failed, only the heartbeat changes.
\* Whatever it read, the row may be another's by the time it is written. Outbox
\* counts the attempts; here every job may be given up, and more than once.
DeadLetter(j) ==
  /\ DeadLetters /\ j \in Stored /\ ~JobLocked(j)
  /\ \/ /\ job' = [job EXCEPT ![j] = Beating(@, "failed")]
        /\ disturbed' = (disturbed \/ UnderRun(j))
     \/ Touched(j) /\ UNCHANGED disturbed
  /\ UNCHANGED <<doc, chunks, indexer, owner, cleaner, cancelling>>
-----------------------------------------------------------------------------
Run(i) ==
  \/ Decline(i) \/ GiveUp(i) \/ Claim(i) \/ Stage(i) \/ Embed(i) \/ Store(i) \/ Commit(i)
  \/ Answer(i) \/ Raise(i) \/ Fail(i) \/ FailStoring(i) \/ Abort(i)

Delete ==
  \/ FindDocument \/ HideDocument \/ SweepJobs \/ CommitDelete \/ AbortDelete \/ QueueCleanup
  \/ SweepChunks \/ SweepJobsAgain \/ CommitCleanup \/ RetryCleanup

Next ==
  \/ \E i \in Indexers : Run(i) \/ \E j \in Jobs : Deliver(i, j)
  \/ \E j \in Jobs : \/ CheckEnqueue(j) \/ InsertJob(j) \/ Expire(j)
                     \/ CheckCancel(j) \/ WriteCancel(j) \/ DeadLetter(j)
  \/ Delete
  \/ Tick

Spec == Init /\ [][Next]_vars

-----------------------------------------------------------------------------
(* What the abstract specification sees                                    *)

\* A run is an attempt of a job; a deleted job has none left.
begun == [j \in Jobs |-> IF job[j].status = "deleted" THEN MaxAttempts ELSE job[j].attempts]
atWork == {<<indexer[i].job, indexer[i].attempt>> : i \in {k \in Indexers : indexer[k].pc \in Working}}

\* The runs whose chunks a search shows.
shown == IF doc.status = "indexed" /\ ~doc.deleted
         THEN {<<c.job, c.attempt>> : c \in chunks} ELSE {}

Search == INSTANCE Publication WITH working <- atWork, gone <- doc.deleted
-----------------------------------------------------------------------------
(* Properties                                                              *)

\* The state is well formed.
TypeOK ==
  /\ doc \in Doc
  /\ job \in [Jobs -> Job]
  /\ chunks \in SUBSET Chunks
  /\ indexer \in [Indexers -> Indexer]
  /\ owner \in Sweeper /\ cleaner \in Sweeper
  /\ cancelling \in SUBSET Jobs
  /\ disturbed \in BOOLEAN

\* However runs of one or of several jobs overlap, fail or are lost, a document
\* that retrieval searches holds the complete chunks of exactly one run.
IndexedIsWhole ==
  doc.status = "indexed" /\ ~doc.deleted => \E c \in chunks : c.whole /\ chunks = {c}

\* The heartbeat keeps duplicate deliveries apart: no two runs work on one job until
\* one has been silent for OUTBOX_DISPATCH_LEASE_SECONDS, or an operator's cancellation
\* or the outbox's dead letter writes over the status of a job that a run works on.
OneLiveRun ==
  ~disturbed =>
    \A i, k \in Indexers : Live(i) /\ Live(k) /\ indexer[i].job = indexer[k].job => i = k

\* Even past the lease, runs of one job are different attempts.
AttemptsDistinct ==
  \A i, k \in Indexers :
    Live(i) /\ Live(k) /\ i # k /\ indexer[i].job = indexer[k].job
      => indexer[i].attempt # indexer[k].attempt

\* What Outbox assumes of its consumer: a job that completed is not set running,
\* and one that was deleted does not come back.
ConsumerAsAssumed ==
  [][\A j \in Jobs :
       /\ job[j].status = "completed" => job'[j].status # "running"
       /\ job[j].status = "deleted" => job'[j].status = "deleted"]_vars

\* cleanup_deleted_document, "retries cannot leave stale citations behind": once it
\* is done, no chunk is left of a job the deletion found, whatever runs it had then.
\* A job inserted behind the deletion's back is not covered: see InsertJob.
CleanupLeavesNothing ==
  cleaner.pc = "done" => \A c \in chunks : c.job \notin owner.jobs

\* To a search the document is a Publication: one run's work replaces another's in one
\* step, a run publishes once at most, and nothing is shown after the deletion.
PublishesRuns == Search!Spec

\* docs/runbooks/outbox-dispatch.md, the consumer "treats completed work as a
\* no-op": what completed stays completed.
CompletedStays ==
  [][\A j \in Jobs : job[j].status = "completed" => job'[j].status \in {"completed", "deleted"}]_vars
=============================================================================
