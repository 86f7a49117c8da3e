--------------------------- MODULE IndexVersions ---------------------------
(***************************************************************************)
(* The blue/green index versions of                                        *)
(* backend/modules/rag/application/index_version_service.py: the table     *)
(* rag_index_versions, the administrators who validate, activate and roll  *)
(* back its rows, the indexing of documents into a version, and the        *)
(* retention task that deletes the chunks of retired versions.             *)
(*                                                                         *)
(* A version is named by the configuration it belongs to (its fingerprint  *)
(* key). Names are numbers, ordered like the rows' primary keys: those are *)
(* random, so the order says nothing of age. Dimensions always fit.        *)
(***************************************************************************)
EXTENDS Integers, FiniteSets

CONSTANTS Versions,   \* pipeline configurations
          Docs,       \* documents, none of them deleted
          Requests,   \* concurrent administrator requests
          Retention,  \* whether the retention task runs
          MaxFailed   \* bound: ingestion jobs that fail

ASSUME IndexVersionsAssumption ==
  Versions \subseteq Nat /\ Retention \in BOOLEAN /\ MaxFailed \in Nat

VARIABLES version,  \* rag_index_versions, by key
          desired,  \* the configuration that is deployed
          doc,      \* rag_documents, their ingestion jobs and the worker of each
          chunks,   \* per document and version, the configuration that made its chunks
          request,  \* local state of every administrator request
          cleanup,  \* versions the retention task selected and has not cleaned
          failed    \* failed ingestion jobs

vars == <<version, desired, doc, chunks, request, cleanup, failed>>

NoVersion == -1
Maybe == Versions \cup {NoVersion}

\* aged: retired_at lies before the retention cutoff.
Version == [status : {"absent", "building", "validated", "active", "retired"}, aged : BOOLEAN]

\* status (every status but indexed is other) and job are columns; config is the configuration of the worker that
\* indexes, target the version it resolved, opened the row it is about to insert.
Doc == [status : {"other", "indexed"},
        job : {"none", "pending", "running", "writing"},
        config : Maybe, target : Maybe, opened : Maybe]

\* locks are the rows the transaction holds, wants the active rows its statement
\* saw, op the endpoint, on the version id.
RequestPC == {"idle", "target", "locking", "checking", "jobs", "ready", "relocking",
              "writing", "refused"}
Request == [pc : RequestPC, op : {"none", "validate", "activate", "rollback"},
            id : Maybe, locks : SUBSET Versions, wants : SUBSET Versions]

IdleDoc == [status |-> "other", job |-> "pending", config |-> NoVersion,
            target |-> NoVersion, opened |-> NoVersion]
IdleRequest == [pc |-> "idle", op |-> "none", id |-> NoVersion, locks |-> {}, wants |-> {}]

Init ==
  /\ version = [v \in Versions |-> [status |-> "absent", aged |-> FALSE]]
  /\ desired \in Versions
  /\ doc = [d \in Docs |-> IdleDoc]
  /\ chunks = [d \in Docs |-> [v \in Versions |-> NoVersion]]
  /\ request = [r \in Requests |-> IdleRequest]
  /\ cleanup = {}
  /\ failed = 0

Active == {v \in Versions : version[v].status = "active"}
Built(d, v) == chunks[d][v] # NoVersion
Indexed == {d \in Docs : doc[d].status = "indexed"}
-----------------------------------------------------------------------------
(* Faults the checks must notice, each named for the definition it         *)
(* resembles.                                                              *)

AllowedUnchecked(from, to) == to = "validated" \/ <<from, to>> = <<"validated", "active">>
LockableByNobody(r, S) == \A q \in Requests : request[q].locks \cap S = {}
ReplacedInAll(d, v, config) == [u \in Versions |-> IF u = v THEN config ELSE NoVersion]
-----------------------------------------------------------------------------
(* Rows of the catalog                                                     *)

\* A row opened outside a request: the bootstrap of an empty catalog is active.
Opened(v) == [version EXCEPT ![v].status = IF Active = {} THEN "active" ELSE "building"]

\* ensure_active_version, called by the status and list endpoints: bootstraps an
\* empty catalog, or opens the candidate of a configuration that has drifted.
EnsureActive ==
  /\ version[desired].status = "absent"
  /\ version' = Opened(desired)
  /\ UNCHANGED <<desired, doc, chunks, request, cleanup, failed>>

\* create_building_version.
CreateBuilding ==
  /\ version[desired].status = "absent"
  /\ version' = [version EXCEPT ![desired].status = "building"]
  /\ UNCHANGED <<desired, doc, chunks, request, cleanup, failed>>

\* Another configuration is deployed.
Deploy ==
  /\ desired' \in Versions \ {desired}
  /\ UNCHANGED <<version, doc, chunks, request, cleanup, failed>>
-----------------------------------------------------------------------------
(* mark_validated, activate, rollback                                      *)

\* Rows in S are locked by r or by nobody.
Lockable(r, S) == \A q \in Requests \ {r} : request[q].locks \cap S = {}

Allowed(from, to) ==
  <<from, to>> \in {<<"building", "validated">>, <<"validated", "active">>}

\* _lock_version: the row itself, FOR UPDATE.
LockTarget(r) ==
  /\ request[r].pc = "idle"
  /\ \E v \in Versions, op \in {"validate", "activate", "rollback"} :
       /\ version[v].status # "absent"
       /\ Lockable(r, {v})
       /\ request' = [request EXCEPT ![r] =
            [IdleRequest EXCEPT !.pc = "target", !.op = op, !.id = v, !.locks = {v}]]
  /\ UNCHANGED <<version, desired, doc, chunks, cleanup, failed>>

\* SELECT ... WHERE status = 'active' FOR UPDATE, of _lock_version and again of
\* _retire_other_active: the statement sees the active rows ...
SeeActive(r) ==
  /\ request[r].pc \in {"target", "ready"}
  /\ request' = [request EXCEPT
       ![r].pc = IF @ = "target" THEN "locking" ELSE "relocking",
       ![r].wants = Active]
  /\ UNCHANGED <<version, desired, doc, chunks, cleanup, failed>>

\* ... waits for their locks, and keeps those that still are active.
LockActive(r) ==
  LET wants == request[r].wants
  IN /\ request[r].pc \in {"locking", "relocking"}
     /\ Lockable(r, wants)
     /\ request' = [request EXCEPT
          ![r].pc = IF @ = "locking" THEN "checking" ELSE "writing",
          ![r].locks = @ \cup (wants \cap Active),
          ![r].wants = IF request[r].pc = "locking" THEN {} ELSE wants \cap Active]
     /\ UNCHANGED <<version, desired, doc, chunks, cleanup, failed>>

\* promotion_readiness, the counts of documents and chunks; coverage of 0.95 is
\* full coverage for fewer than twenty documents.
HasChunks(v) == Indexed = {} \/ \E d \in Docs : Built(d, v)
Covered(v) == \A d \in Indexed : Built(d, v)

\* What the request may do, judged from its locked row and the first counts.
Proceeds(r) ==
  LET v == request[r].id  from == version[v].status
  IN CASE request[r].op = "validate" -> Allowed(from, "validated") /\ HasChunks(v)
       [] request[r].op = "activate" -> Allowed(from, "active") /\ HasChunks(v) /\ Covered(v)
       [] OTHER -> from = "retired" /\ \E d \in Docs : Built(d, v)

\* A request that need not or may not proceed ends here, its locks released.
Check(r) ==
  /\ request[r].pc = "checking"
  /\ request' = [request EXCEPT ![r] =
       IF Proceeds(r)
       THEN [@ EXCEPT !.pc = CASE request[r].op = "validate" -> "writing"
                               [] request[r].op = "activate" -> "jobs"
                               [] request[r].op = "rollback" -> "ready"]
       ELSE IdleRequest]
  /\ UNCHANGED <<version, desired, doc, chunks, cleanup, failed>>

\* promotion_readiness, the counts of jobs: none is active and none has failed.
CountJobs(r) ==
  /\ request[r].pc = "jobs"
  /\ request' = [request EXCEPT ![r] =
       IF failed = 0 /\ \A d \in Docs : doc[d].job = "none"
       THEN [@ EXCEPT !.pc = "ready"] ELSE IdleRequest]
  /\ UNCHANGED <<version, desired, doc, chunks, cleanup, failed>>

\* mark_validated's write and commit.
Validate(r) ==
  /\ request[r].pc = "writing" /\ request[r].op = "validate"
  /\ version' = [version EXCEPT ![request[r].id].status = "validated"]
  /\ request' = [request EXCEPT ![r] = IdleRequest]
  /\ UNCHANGED <<desired, doc, chunks, cleanup, failed>>

\* One flush sends both UPDATEs in the order of the primary keys, and the partial
\* unique index allows no second active row at any moment.
Conflict(r) ==
  \E a \in Active \ {request[r].id} : a \notin request[r].wants \/ a > request[r].id

\* The end of activate and rollback: the other active row is retired and the
\* target activated, or the flush raises IntegrityError and nothing is written.
Switch(r) ==
  LET v == request[r].id
  IN /\ request[r].pc = "writing" /\ request[r].op # "validate"
     /\ IF Conflict(r)
        THEN /\ request' = [request EXCEPT ![r] =
                 [IdleRequest EXCEPT !.pc = "refused", !.op = request[r].op]]
             /\ UNCHANGED version
        ELSE /\ request' = [request EXCEPT ![r] = IdleRequest]
             /\ version' = [u \in Versions |->
                  CASE u = v -> [status |-> "active", aged |-> FALSE]
                    [] u # v /\ u \in request[r].wants -> [status |-> "retired", aged |-> FALSE]
                    [] OTHER -> version[u]]
     /\ UNCHANGED <<desired, doc, chunks, cleanup, failed>>

\* The request is answered with an error.
Respond(r) ==
  /\ request[r].pc = "refused"
  /\ request' = [request EXCEPT ![r] = IdleRequest]
  /\ UNCHANGED <<version, desired, doc, chunks, cleanup, failed>>
-----------------------------------------------------------------------------
(* Indexing of one document, as far as it concerns versions                *)

\* enqueue_document_indexing: a user, or enqueue_stale_reindex for a document
\* that is indexed but not in the write target.
Enqueue(d) ==
  /\ doc[d].job = "none"
  /\ doc' = [doc EXCEPT ![d].job = "pending"]
  /\ UNCHANGED <<version, desired, chunks, request, cleanup, failed>>

\* index_document begins: the document leaves status indexed.
StartIndexing(d) ==
  /\ doc[d].job = "pending"
  /\ doc' = [doc EXCEPT ![d].job = "running", ![d].status = "other", ![d].config = desired]
  /\ UNCHANGED <<version, desired, chunks, request, cleanup, failed>>

\* resolve_write_version: the worker's own configuration if its version takes
\* writes, else the active version, opening whatever ensure_active_version opens.
ResolveTarget(d) ==
  LET own == doc[d].config
      takesWrites == version[own].status \in {"building", "validated", "active"}
      opened == IF version[own].status = "absent" THEN own ELSE NoVersion
      target == CASE takesWrites -> own
                  [] ~takesWrites /\ Active # {} -> CHOOSE a \in Active : TRUE
                  [] OTHER -> opened
  IN /\ doc[d].job = "running"
     /\ target # NoVersion
     /\ doc' = [doc EXCEPT ![d].job = "writing", ![d].target = target, ![d].opened = opened]
     /\ UNCHANGED <<version, desired, chunks, request, cleanup, failed>>

\* replace_chunks: the document's chunks of one version.
Replaced(d, v, config) == [chunks[d] EXCEPT ![v] = config]

\* The last transaction of index_document. A row somebody else has opened
\* meanwhile is a unique violation: the worker starts over.
CommitChunks(d) ==
  LET opened == doc[d].opened
      done == [IdleDoc EXCEPT !.status = "indexed", !.job = "none"]
  IN /\ doc[d].job = "writing"
     /\ IF opened # NoVersion /\ version[opened].status # "absent"
        THEN /\ doc' = [doc EXCEPT ![d] = IdleDoc]
             /\ UNCHANGED <<version, chunks>>
        ELSE /\ doc' = [doc EXCEPT ![d] = done]
             /\ version' = IF opened = NoVersion THEN version ELSE Opened(opened)
             /\ chunks' = [chunks EXCEPT ![d] = Replaced(d, doc[d].target, doc[d].config)]
     /\ UNCHANGED <<desired, request, cleanup, failed>>

\* index_document fails before its last transaction commits, for good.
FailIndexing(d) ==
  /\ doc[d].job \in {"running", "writing"} /\ failed < MaxFailed
  /\ doc' = [doc EXCEPT ![d] = [IdleDoc EXCEPT !.job = "none"]]
  /\ failed' = failed + 1
  /\ UNCHANGED <<version, desired, chunks, request, cleanup>>
-----------------------------------------------------------------------------
(* cleanup_retired_versions                                                *)

Age(v) ==
  /\ Retention /\ version[v].status = "retired" /\ ~version[v].aged
  /\ version' = [version EXCEPT ![v].aged = TRUE]
  /\ UNCHANGED <<desired, doc, chunks, request, cleanup, failed>>

\* Reads the retired versions past retention, without a lock ...
SelectRetired ==
  /\ Retention /\ cleanup = {}
  /\ cleanup' = {v \in Versions : version[v].status = "retired" /\ version[v].aged}
  /\ cleanup' # {}
  /\ UNCHANGED <<version, desired, doc, chunks, request, failed>>

\* ... and deletes their chunks.
DeleteChunks ==
  /\ cleanup # {}
  /\ chunks' = [d \in Docs |-> [v \in Versions |-> IF v \in cleanup THEN NoVersion ELSE chunks[d][v]]]
  /\ cleanup' = {}
  /\ UNCHANGED <<version, desired, doc, request, failed>>
-----------------------------------------------------------------------------
Step(r) ==
  SeeActive(r) \/ LockActive(r) \/ Check(r) \/ CountJobs(r) \/ Validate(r) \/ Switch(r) \/ Respond(r)

Next ==
  \/ EnsureActive \/ CreateBuilding \/ Deploy \/ SelectRetired \/ DeleteChunks
  \/ \E r \in Requests : LockTarget(r) \/ Step(r)
  \/ \E d \in Docs : \/ Enqueue(d) \/ StartIndexing(d) \/ ResolveTarget(d)
                     \/ CommitChunks(d) \/ FailIndexing(d)
  \/ \E v \in Versions : Age(v)

Spec == Init /\ [][Next]_vars

\* A request that is being served takes its next step, and PostgreSQL queues the
\* waiters of a row lock.
FairSpec == Spec /\ \A r \in Requests : WF_vars(Step(r)) /\ SF_vars(LockActive(r))

-----------------------------------------------------------------------------
(* Properties                                                              *)

\* The state is well formed.
TypeOK ==
  /\ version \in [Versions -> Version]
  /\ desired \in Versions
  /\ doc \in [Docs -> Doc]
  /\ chunks \in [Docs -> [Versions -> Maybe]]
  /\ request \in [Requests -> Request]
  /\ cleanup \in SUBSET Versions
  /\ failed \in Nat

\* However requests to activate, roll back and validate overlap, no two versions
\* are active, and once one has been active retrieval never is without one.
OneActive ==
  /\ \A v, w \in Active : v = w
  /\ (\E v \in Versions : version[v].status = "retired") => Active # {}

\* Row locks of two requests are exclusive, so neither waits for the other for
\* ever: every request is answered.
RequestsEnd == \A r \in Requests : request[r].pc = "target" ~> request[r].pc = "idle"

\* Retention deletes what a retired version holds, indexing replaces what it
\* writes: no chunk is deleted from a version that is serving or being built.
\* The retention task locks nothing: it is safe only as long as no rollback takes
\* effect between its SELECT and its DELETE, see RollbackTakesEffect.
OnlyRetiredLosesChunks ==
  [][\A d \in Docs, v \in Versions :
       Built(d, v) /\ chunks'[d][v] = NoVersion => version[v].status = "retired"]_vars

\* docs/rag-index-versions.md, "Rollback re-activates a **retired** version without
\* re-embedding": a rollback that found a retired version with its chunks takes effect.
RollbackTakesEffect ==
  \A r \in Requests : request[r].pc = "refused" => request[r].op # "rollback"

\* The service implements Catalog, with the statuses of the rows.
Served == INSTANCE Catalog WITH status <- [v \in Versions |-> version[v].status]

\* However administrators' statements interleave, workers open versions and flushes are
\* refused, the catalog moves as if every switch were one step: what is promoted was
\* validated and still is, and what it replaces is what serves.
SwitchesAtomically == Served!Spec
=============================================================================
