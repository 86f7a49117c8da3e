# A verification project for generic_app

generic_app is a modular FastAPI backend (PostgreSQL, Redis, Celery) with a React frontend. Most of
it is request-sized CRUD. The part in which correctness is hard is what happens *between*
requests: work is handed to Celery through a transactional outbox, runs under leases and heartbeats
in processes that can die, is delivered more than once, is cancelled and deleted by people while it
runs, and switches the search index under live traffic. The frontend has a small share of it: one refresh
for many refused requests, and a query cache that is written before the server has answered. This
project models these parts in TLA+, checks them with TLC on small instances, and proves their main
properties with TLAPS for every instance.

Paths below are relative to the repository (`src/`); `rag/...` abbreviates
`backend/modules/rag/...`.

1. [Inventory](#1-inventory) of the system
2. [Plan](#2-plan): modules, composition, runs, theorems
3. [Modules](#3-modules-and-the-code): how state and actions correspond to the code
4. [Runs](#4-runs): what each shows, bounds, fairness, deadlock
5. [Proofs](#5-proofs)
6. [Where the code and its documents disagree](#6-where-the-code-and-its-documents-disagree)
7. [What is not modelled](#7-what-is-not-modelled)

## 1. Inventory

Backend: `backend/workers` (2.3k lines), `backend/modules/*` (36k lines, of which rag 13k, ai 5k,
chat 3.4k, platform 3.4k, memory 2.6k), `backend/core`, `backend/db`, `backend/api`, a code generator in
`tools/generic_app`. Frontend: 83k lines, of which 28k are a generated client. The package
`backend/lib` (idempotency, concurrency, caching) is imported throughout and absent from the
repository; where a module needs it, it is modelled from its use and its tests and marked external.

How the parts that interact interact:

    upload / reindex request ──one transaction──▶ rag_ingestion_jobs + background_job_outbox
                                                             │
        beat, every 30 s ──▶ dispatch_outbox_task ──claim, publish, acknowledge
                                                             │ Celery (at least once)
                                                             ▼
    enqueue_outbox_job ─▶ application_jobs ─▶ run_tracked_sync ─▶ index_document ─▶ rag_chunks
                               ▲                    │                   │            of one
    jobs console: cancel, retry┘                    ▼                   ▼            index version
                                       send_email_task ─▶ external_effects ─▶ SMTP
    owner: delete_document ─▶ cleanup_deleted_document         administrator: validate, activate, roll back
                                                               beat, hourly: cleanup_retired_versions

| Component | State | Operations | What is hard | What makes it correct |
| --- | --- | --- | --- | --- |
| **Transactional outbox** `workers/outbox.py`, `models.py` | `background_job_outbox`: status, attempts, `available_at`, `locked_at`, `lease_token`, `deadline_at` | enqueue (in the producer's transaction), claim (`FOR UPDATE SKIP LOCKED`), publish, acknowledge by compare-and-set, back off, dead-letter | overlapping dispatchers, death between any two steps, a publish that is accepted and raises, expired leases, cancellation and deletion in between | a message per attempt and no more than the limit; a stale dispatcher settles nothing; settled rows stay; every row settles |
| **Application jobs** `workers/job_service.py`, `tasks.py`, `celery_app.py` | `application_jobs`: status, attempts, `started_at`, `deadline_at`; Celery's deliveries and their retry numbers | `ensure_queued_job`, claim, run, finish, release for retry, cancel | at-least-once delivery, a lease shorter than the time limit, finishes that do not look who runs the job now, retries counted twice (Celery, row) | bounded runs, no shared attempt, one live run within the lease, success is final, a job that was sent for ends |
| **Document indexing** `rag/application/document_ingestion_service.py`, `rag/workers.py` | `rag_documents.status`, `rag_ingestion_jobs` with heartbeat, `rag_chunks`; sessions and row locks | enqueue, claim, four stages, replace chunks, complete, fail; delete document, clean up | several runs of several jobs on one document, failure handlers that commit what they find open, deletion and cancellation between stages, lock order | what is searched is complete and from one run; overlapping runs differ; nothing stays after cleanup |
| **Index versions** `rag/application/index_version_service.py` | `rag_index_versions`, chunks per version, request-local locks | bootstrap, build, validate, activate, roll back, resolve write version, retention | two administrators, statement-by-statement locking, flush order under a unique index, unlocked counts, retention beside rollback | exactly one version serves; serving chunks are never deleted; requests end |
| **External effect ledger** `workers/effect_ledger.py`, `email.py` | `external_effects`: status, attempts, `started_at` | begin (insert, deduplicate, defer, reclaim), provider call, complete | death between the provider's acceptance and the record, a lease shorter than the task limit, records by operation id | calls are counted; one sender while claims are fresh; no call after a success; the mail is sent |
| **Document upload and duplicates** | stored object, document, job, outbox row | store, insert, compensate, find duplicate | commit whose outcome is unknown; unique fingerprint races | no row without object, no object without row for ever |
| **Cache, generations, single-flight loader** `core/cache.py`, `cache_loader.py` | Redis keys, generation counters in Redis and in the process, loader locks | get-or-set, invalidate, bump generation, fail open | a loader that stores what was invalidated, a counter that expires | no stale value outlives an invalidation it should see |
| **Beat and schedule lock** `workers/schedule_lock.py` | Redis NX lock | acquire, expire | fails open, expires early | tasks behind it tolerate overlap |
| **AI generation and evaluation** `modules/ai` | run rows, reviews | start, complete, fail, review | a task that is retried after its row was written | a run ends once |
| **Chat** `modules/chat` | conversations, messages | send, stream, store, retain | provider stream fails or is cancelled midway | a turn is stored whole or marked |
| **Memory** `modules/memory` | registry, vector store | extract, merge, delete | two stores written in turn | the registry names what the store holds |
| **Retrieval and answers** `rag` | none of its own | search, fuse, cite | scoring arithmetic | reads only what is indexed and active |
| **Parsing, chunking, embedding** `rag` | none | split, embed | boundaries of overlapping chunks | chunks cover the text |
| **RAG evaluation** `rag/evaluation` | data sets | metrics | none | arithmetic |
| **Identity and sessions** `modules/identity_access` | `refresh_sessions`, the browser's cookies | sign in, read and rotate by compare-and-set, log out, revoke; check an access token | two rotations of one token; answers whose cookies arrive late | one rotation wins; a sign-in has one live session |
| **Users, profile, audit** | rows | CRUD | none | constraints |
| **Policy, projects** | roles, memberships | decide, CRUD | precedence of rules | decisions match the tables |
| **Platform** | flags, keys, webhooks, billing | CRUD, cached reads | the cache | see cache |
| **Jobs console** `modules/jobs` | the two job tables | list, cancel, retry | unlocked read, later write | states that are over stay over |
| **Settings, storage, notifications, calendar** | rows, objects | CRUD | none | constraints |
| **Rate limits and uploads** `core` | Redis windows, local fallback | hit, reset | two counters at once | the limit holds |
| **API, manifests, diagnostics** | registry | start up | order of modules | dependencies first |
| **Sessions and migrations** `db`, `alembic` | sessions | begin, commit | none of its own | transactions are our steps |
| **Observability** | metrics | record | none | none |
| **Module generator** `tools/generic_app` | files, journal | write, roll back | failure halfway | rollback restores |
| **Frontend** `frontend/src/api/client.ts`, `features/auth` | per tab a shared refresh promise, a session generation, whether it is signed in | retry after a 401, join or begin a refresh, log out, sign in | requests that wait while the user changes; several tabs with one cookie jar | one refresh for each generation; every waiter is told; no request is repeated after the end of the tab's session in which it was refused |
| **Query cache of a tab** `frontend/src/config/queryKeys.ts`, `config/queryClient.ts`, `features/*` | cached lists with their invalid marks, running fetches, mutations with the snapshots they took, the identity | optimistic mutations (`onMutate`, `onError`, `onSettled`), mutations that store their answer, refetch, navigate, log out, expire, sign in, fetch the identity anew | mutations of one list overlap, cancel each other's refetches and restore each other's snapshots; fetches and answers arrive after their user has left, the identity's own included | a list that nobody is changing is the server's; a cancelled fetch is taken up again; no fetched list outlives its session |
| **`backend/lib`** | not in the repository | | | |

`PROJECT.json` lists the same components with their status, and under `hazards` the forty places
where this code can go wrong in a way a test would hardly reach, with the properties that watch them.

## 2. Plan

Modules in order of importance. The first seven are built; each has proofs of its own.

| # | Module | Interacts with | Status |
| --- | --- | --- | --- |
| 1 | `Outbox`, implementing the abstract `Delivery` | `ConsumerStep` stands for 3; `DocumentIndexing!ConsumerAsAssumed` discharges it | checked, proved |
| 2 | `ApplicationJob` | sits in front of 3 and 5 for every task | checked, proved |
| 3 | `DocumentIndexing`, implementing `Publication` | consumer of 1; one version of 4 | checked, proved |
| 4 | `IndexVersions`, implementing `Catalog` | indexing of 3 reduced to what versions see | checked, proved |
| 5 | `EffectLedger`, implementing `Effect` | called from tasks under 2 | checked, proved |
| 6 | `SessionClient`, implementing `Logins` | the browser's client against the refresh sessions of the backend | checked, proved |
| 7 | `ClientCache` | the tab of 6, whose logout and expiry clear it; requests reduced to sent, applied and answered | checked, proved |
| 8 | `RetrievalCache`, `CacheLoader` | generations bumped by 3 and 4; abstract spec: a cache that may forget but never answers with a superseded generation | planned |
| 9 | `DocumentUpload` | producer of 1 and 3; compensation after an ambiguous commit, duplicates under the unique index | planned |
| 10 | `AiRun`, `ChatTurn`, `MemoryWrites` | run under 2 | planned |
| 11 | `MutationJournal` | none | planned |
| 12 | pure algorithms: `Chunking`, `ManifestOrder`, backoff and policy decisions, against reference definitions | none | planned |

Abstract specifications: `Delivery`, `Publication`, `Catalog`, `Effect` and `Logins` say what the modules above
promise to those who rely on them, each in four to six actions and without requests, locks, leases or clocks; each is implemented,
by a run on a small instance and by a theorem in general. Worth stating next: the bounded executions
`ApplicationJob` promises a task, and a cache that shows lists of the present user, for `ClientCache`.

Runs: one per question, at bounds where every action fires (section 4). Runs planned for modules 8
and 9: two readers and two invalidations; one upload with an ambiguous commit and a duplicate.

Theorems planned next: refinement theorems for `ApplicationJob` and `ClientCache`.

## 3. Modules and the code

Conventions. A step is one database transaction, or the part of one between two statements that others
can interleave with; then the row locks it holds are part of the state. An exception handler is the
action that follows the failing step. Time is kept as the time *left* to the instants the code compares
with now, so a state does not grow with the clock. The definitions under the heading "Faults the
checks must notice" are single-definition changes of the model, used to confirm that each property can
fail; no specification uses them.

### Outbox and Delivery

`row` is `background_job_outbox` by job, `job` the status column of `rag_ingestion_jobs`, `dispatcher` the
local state of each execution of `dispatch_outbox_task`, `broker` the messages the broker accepted.

| Action | Code |
| --- | --- |
| `Enqueue` | `enqueue_job_event` within the producer's transaction |
| `ClaimSelect`, `ClaimCommit` | `_claim_pending_job_events`: the `SKIP LOCKED` query, then the loop with `_dead_letter` and the commit. Between the two the picks are locked (`Locked`) |
| `Publish` | `enqueue_outbox_job.apply_async` for one claim: accepted or not, raised or not, but never neither |
| `Ack` | `_ack_claim`: `UPDATE ... WHERE id, status = 'dispatching', lease_token`; dispatched, or pending again after `min(60 * attempts, 900)` |
| `Abandon` | the process dies, or an exception leaves the loop |
| `CancelCheck`, `CancelWrite` | `JobsConsoleService.cancel_job`, which reads without a lock |
| `DeleteJob` | `delete_ingestion_jobs_for_document`, the outbox row by cascade |
| `ConsumerStep` | what `index_document` may do to the job's status; `DocumentIndexing` shows in full that it does no more |

The Redis lock in front of the task is modelled as absent, because it fails open and expires; nothing
proved here may rest on it. `uuid4` tokens are numbers never used before. `Delivery` is the contract:
a job is *owed*, then *kept*, *broken* or *withdrawn* for good; kept only after a hand-over; at most
`Limit` hand-overs. `Outbox` implements it with `promise` read off the row's status and the same
`broker` (`KeepsPromises`).

### ApplicationJob

One `operation_id`: its row `job`, Celery's deliveries `ready` by retry number, each `worker`'s
position in `run_tracked_sync`. `ClaimSkip`, `ClaimDead`, `ClaimRun` are the three outcomes of
`_claim_job`; `RunnerEnds` is the runner returning, raising or raising `ExternalEffectInFlightError`;
`FinishRead`/`FinishWrite` are `_finish_job` and `_release_job_for_retry`, which read the row without a lock
and write it later; `Retry`, `Ack`, `WorkerLost` are Celery with `acks_late`,
`reject_on_worker_lost` and `autoretry_for`; `CancelRead`/`CancelWrite` the console. A finish whose outcome equals the
status it read writes nothing, since SQLAlchemy sends changed columns only: `FinishRead` then ends the
finish. Operations share no state, so one stands for all.

### DocumentIndexing

One document: `doc`, its `job` rows, `chunks` (which run made the committed ones and whether they are
whole), the `indexer`s, the `owner` who deletes, the `cleaner` task. The stages of `index_document` are
`Claim`, `Stage` (scanned, parsed), `Embed`, `Store`, `Commit`. `Store` is the `DELETE` of `replace_chunks`,
which under READ COMMITTED sees the chunks committed by then (`seen`); `Commit` is the rest of that
transaction. Two runs that replace chunks at once therefore meet in `Conflict`, the unique index on document,
version and chunk index. `Fail` and `FailStoring` are the except clauses: the second commits the
transaction it finds open, with the deletion and perhaps part of the new chunks in it. `Abort` is the loss of the
transaction, a deadlock with the owner's opposite lock order included. Two others write a job's status without a look at its
heartbeat: the console (`CheckCancel`, `WriteCancel`) and the outbox's `_dead_letter` (`DeadLetter`), which fails a job whose row has
no time or attempts left. `Outbox` counts these; here any job may be given up at any time, more than once. Deletion is
`FindDocument`, `HideDocument`, `SweepJobs`, `CommitDelete`, `QueueCleanup`, then the task
`SweepChunks`, `SweepJobsAgain`, `CommitCleanup` with its retries.

`Publication` is what a search is promised: it shows nothing, or what one run made; a run begins once (`Begin`), works, and is
published once at most, in the place of what was shown (`Publish`), or lost (`Lose`); jobs that are deleted begin no more, and the
document is not shown again (`Delete`). `DocumentIndexing` implements it (`PublishesRuns`) with `begun` read off the attempts of the
rows, `working` off the indexers (`atWork`), and `shown` off the filter every retrieval statement carries: status `indexed`
and not deleted. `shown` lists every run that has chunks there, so that a mixture of two runs would be no state of `Publication`.

### IndexVersions

`version` is the catalog by configuration key; the keys are numbers ordered like the primary keys,
which are random and so tell nothing of age. A request takes `LockTarget`, `SeeActive`, `LockActive`,
`Check`, `CountJobs`, again `SeeActive` and `LockActive`, then `Switch` (or `Validate`): the statements of
`_lock_version`, `promotion_readiness`, `_retire_other_active` and the flush. `Conflict` is the partial
unique index on `status = 'active'`, checked after each `UPDATE` of the flush, which the unit of work sends
in primary-key order. `ResolveTarget`/`CommitChunks` are `resolve_write_version` and the transaction that
uses its answer later; `SelectRetired`/`DeleteChunks` the retention task, which locks nothing.

`Catalog` is the status of each version and five steps: an empty catalog is served from the first version (`Bootstrap`),
others are drafted and approved (`Draft`, `Approve`), `Promote` puts an approved version into service and retires the one before
it at once, and `Restore` does so with a retired one, as the documents promise of a rollback. The implementation never takes that
last step: section 6. `IndexVersions` implements it (`SwitchesAtomically`) with the statuses of the rows. That a version must have been
approved *when it is promoted*, while the request looked at its status statements earlier, is the point of the refinement.

### EffectLedger

One effect: its `row`, each `delivery` of `send_email_task` with its retries, the attempts the
provider `accepted`. `FindNothing`/`Insert` is the insert race under the unique constraint,
`Deduplicate`, `Defer`, `Reclaim` the other answers of `begin_external_effect`; `Call` is SMTP, which may refuse,
accept, or accept and lose the answer; `Succeed` and `Fail` are `complete_external_effect`. Staleness is
judged by the clock the task read *before* it waited for the row lock, which `age` keeps.

`Effect` is the effect as its producer sees it: attempts are numbered one by one (`Begin`), hand the mail over at most once each
(`Take`), end (`End`) or are recorded as the success after which none begins (`Record`); they come one after the other unless one
`Lapse`s. `EffectLedger` implements it (`OneEffect`): `begun` is the row's counter, `sending` the attempts of the deliveries under way,
`taken` what the provider accepted, `recorded` the row's status, `lapsed` the history variable `overran`.

### SessionClient

`tab` is the module state of `client.ts` (the promise with its generation, the generation, and for `authSessionActive` the
sign-in that last set it: the user on display is `auth.me`, which its own fetch can change, see `ClientCache`), `request` a call of `apiFetch`, `apiFetchStream` or `apiUpload`, `refresh` the call of `/auth/refresh` it has begun,
`session` the table `refresh_sessions`, `jar` the cookies all tabs share. `Join` and `StartRefresh` are `refreshForRetry` up to its
await, `Resolve` is everything that follows an answer in one turn of the event loop: expiring the session,
forgetting the promise, failing or repeating the waiters. A refresh reads its session (`RefreshRead`) and rotates it by
compare-and-set in the same transaction (`RefreshRotate`); the browser stores the cookies when the answer arrives (`RefreshStored`),
which the tab may learn of late or never (`RefreshLost`: the client's timeout). A session records who ended it, which the
program does not; only `NeverRacesItself` looks at it. `RevokeElsewhere` is every other end: another device, the age of the session,
or its own user, in whichever tab, who changes the password or ends sessions from the list of them.

`Logins` is the server's side alone: a sign-in opens a session (`Open`), each refresh replaces it by one that was never used before
(`Replace`), and a logout or a revocation ends it (`End`), after which the sign-in has none again. `SessionClient` implements it
(`SessionsReplaced`) with the live sessions of each sign-in and the sessions that exist, whatever tabs, cookies and answers do.

### ClientCache

`entry` and `fetch` are a query of the tab's cache and the fetch that runs for it, `call` the mutations with the context
`onMutate` returned, `mounted` the keys the screens on display observe, `user` the data of the identity's query `queryKeys.auth.me` and `identity` the
fetch that runs for it, `jar` whose session the cookies hold, `active` the flag `authSessionActive`, `leaving` whether a logout has no answer yet, `server` what the backend holds. A list is the set of the mutations whose effect it shows:
an optimistic write adds its call to the cached set, the server adds it when it applies the call, and two lists are equal exactly
if they show the same effects.

| Definition | Code |
| --- | --- |
| `Mark`, `SetPreferences` | `markOneMutation`, `markAllMutation`, `preferencesMutation` of `NotificationsView.tsx` and `NotificationPreferences` |
| `ToggleUser`, `ToggleWebhook`, `UpdateFlag` | the optimistic mutations of the administration views |
| `ReorderTasks`, `CreateTask`, `ChangeTask` | `useProjectDetail.ts`: optimistic and storing, storing and invalidating, storing only |
| `SaveConfig` | `useAdminSettingsContent.ts`: the answer replaces the entry |
| `Start` | `mutate()`: `onMutate` and the request |
| `Serve`, `ServeLate` | the endpoint, which may also run after the tab has given the call up |
| `AnswerSuccess`, `AnswerError` | `onSuccess` or `onError`, then `onSettled`, whoever is signed in by then |
| `Refetch`, `Read`, `Arrive`, `FetchFails` | a query's fetch: asked, read by the server, stored, or failed with its retry |
| `Navigate`, `Unmount` | routes: keys come on display and go; a fetch that is left ends if its query function takes the abort signal |
| `Logout`, `LogoutAnswered`, `Expire`, `SignIn` | `AuthContext.tsx` with `clearUserScopedQueryState`, `expireAuthSession` of `client.ts` |
| `AskIdentity`, `ArriveIdentity`, `IdentityFails` | the query of `AuthContext.tsx`, refetched by `invalidateUserIdentity` or a reconnection; no clearing touches it |

The mutations are a table (`Hook`): which fetches `onMutate` cancels, what it writes, whether it also writes where there is no data,
what `onSuccess` stores, what is invalidated. TanStack Query is not in the repository; `Ask`, `CancelFetch`, `SetData` and `Invalidate`
say what the code relies on and are marked external. The handlers await nothing but cancellations, so each is one step. No
mutation starts between the first clearing and the unmounting, a logout is not repeated while one is under way, a refused call is one
the server never applies (`abandoned`), and data that is stale when it is mounted is fetched by a `Refetch`. `doubtful` records the
keys that a call given up and applied all the same, a left fetch without an abort signal, or a clearing under a pending mutation
may leave out of date: `SettledListsAreCurrent` says nothing of them. The module is one tab: a sign-in in another tab, which changes the
cookies under this one and lets its lists be fetched as somebody else, is left out, here and in `FetchedListsLeave`.

## 4. Runs

Every passing run explores its state space to the end; together they fire every action and disjunct of the
next-state relations. "States" are distinct states, rounded.

| Run | Question | Instance | States |
| --- | --- | --- | --- |
| `outbox` | Are rows published, acknowledged and settled as promised, whatever dispatchers do? Checks `PublishBound`, `StaleClaimHasNoLease`, `DispatchedWasAccepted`, `SettledRowsStay`, the refinement `KeepsPromises`, and `EveryRowSettles` | 2 dispatchers, 1 job, 3 attempts, lease 1, deadline 5 | 72k |
| `job` | Do runs stay bounded and distinct, does a job that was sent for end, and, until a run outlives its lease or an operator cancels, is there one run at a time and is success final? `RunsBounded`, `AttemptsDistinct`, `OneLiveRun`, `SentJobEnds`, `SucceededIsTerminal` | 2 workers, 2 retries, 3 attempts, lease 2, 2 sends, 1 fault, an operator, a deadline, all outcomes | 1.7M |
| `indexing` | Is what is searched whole, do overlapping runs differ, does the cleanup leave nothing, does the consumer keep Outbox's assumption, and, until a heartbeat goes stale under its run or the console or the outbox writes over the job's status under it, does one run work on a job? `IndexedIsWhole`, `AttemptsDistinct`, `OneLiveRun`, `CleanupLeavesNothing`, `ConsumerAsAssumed`, and the refinement `PublishesRuns` | 2 jobs, 2 indexers, 2 attempts, lease 1, faults, deletion, dead letters and 1 operator, with symmetry | 2.6M |
| `versions` | Do two administrators leave one active version, is a switch one step that was approved, are both answered, and are only retired chunks deleted, while a document is indexed and old versions are cleaned up? `OneActive`, `RequestsEnd`, `OnlyRetiredLosesChunks`, and the refinement `SwitchesAtomically` | 2 versions, 1 document, 2 requests, retention, 1 failed job | 519k |
| `effects` | Is the mail sent, counted, and by one sender? `CallsCounted`, `OneSender`, `SuccessIsFinal`, `MailSent`, and the refinement `OneEffect` | 2 deliveries, 4 retries each, lease 2, limit 3, 2 faults | 215k |
| `session` | Do tabs share refreshes, tell every waiter, repeat no request in the tab's next session, keep one session, and never expire a session by racing themselves? `SingleFlight`, `NobodyStranded`, `OneSessionPerSignIn`, `RetriedInItsSession`, `NeverRacesItself`, and the refinement `SessionsReplaced` | 2 tabs, 2 requests, 2 sign-ins, 1 fault, with symmetry | 2.3M |
| `cache` | Do overlapping optimistic mutations leave the server's lists, are the fetches they cancel taken up again, and does no fetched list outlive its session? `SettledListsAreCurrent`, `CancelledFetchesResume`, `FetchedListsLeave` | notifications and preferences, 2 mutations, 2 users, 3 bounded events, with symmetry | 1.0M |
| `job_crash`, `indexing_completed`, `versions_rollback`, `cache_late`, `cache_identity` | Statements of the documents the code does not keep: section 6 | 1 or 2 actors | small |

**Bounds, and why they are enough.** Rows of the outbox share nothing but the dispatcher's batch, and operations,
documents and effects share nothing at all, so one of each shows their behaviours; the theorems cover any number and any batch size.
Two dispatchers, workers, requests, indexers and deliveries are what a race needs; that a third one breaks nothing is left to the
theorems of section 5, which hold for any number. The `indexing` run has overruns, faults, cancellation, dead letters and deletion at once; `Operators` bounds the cancellations that are between
their two steps, not how many there are. Three attempts let a claim be
superseded, and the superseding one too. A lease of one or two units and a deadline of five lets every timer
expire before, between and after every pair of steps. `MaxSends`, `MaxFaults` and `MaxFailed` bound what the
environment does, never what the program does; the other limits are settings of the program. In `effects` four
retries are two for each fault, the least for which `MailSent` holds: with fewer, a delivery can spend its last
retry waiting for the lease of a dead one. In `session` a request belongs
to either tab, so the two requests race in one tab or across two. An expired token, an aborted call, a lost answer and a
session revoked elsewhere all count as faults, and one fault with an initial token that may have run out reaches the pairs that
matter to a refresh: the access token's end and one of the others. With two faults the instance has 7.4M states and the same result. A third request,
which the case of a promise replaced and then forgotten needs, is left to the theorem `OneFlight`. In `versions` two rows suffice: the race of two
targets needs a catalog that is empty, or one active row and one other; a cycle of row locks needs two rows; a worker's stale target
needs one version that is retired and one that serves. A third version matters to none of the run's four properties but as one more of
these, and the theorems cover any number. In `cache` the two keys differ in what
matters: the fetches of one take the abort signal, and marking a notification cancels the fetches of both but writes only one. Two
calls of either mutation overlap in every order, also of the same list. `MaxEvents` bounds mutations, sign-ins, failed fetches and repeated
fetches of the identity together: three of them are two mutations and a failure or a change of user, or a mutation, a sign-in and the
fetch of an identity, in every order. The page may be loaded with a session, whose identity is fetched without an event, so one sign-in already is
the next user of the tab, or the same one again. Logouts, expiries, refetches and navigation are not bounded. The other mutations of the table are covered by the theorems, which quantify over all of it.

The settings are `OUTBOX_DISPATCH_LEASE_SECONDS` 600 (also the heartbeat's), `WORKER_JOB_RUNNING_LEASE_SECONDS` 900, task time limit 1800 and
soft limit 1650, so that a live run *can* outlive its lease, and the runs let it. Where a property holds only until then, a history
variable (`disturbed` of `ApplicationJob` and `DocumentIndexing`, `overran` of `EffectLedger`) records that it has happened, and the
property speaks of the states before. The program never reads these variables.

The type invariants are conjuncts of the inductive invariants of section 5 and proved there as `TypeCorrect`, so no run spends a
property on them.

**Fairness.** `Outbox!Fairness`: time passes; beat starts a dispatcher every 30 seconds (weak fairness of
`ClaimSelect`), and a started one takes its next step or dies (`Publish`, `Ack`). `ClaimCommit` is strongly fair: an
adversary that kills every dispatcher before it commits would starve any outbox, and a transaction that reaches its
commit again and again commits once. Nothing is assumed of `Publish` succeeding. `ApplicationJob!FairSpec`: workers
keep consuming, and the soft time limit ends every run. `IndexVersions!FairSpec`: a request that is being served takes its
next step; `LockActive` is strongly fair since PostgreSQL queues the waiters of a row lock. `EffectLedger!FairSpec`: time
passes, and workers take messages and finish what they take. `DocumentIndexing` states no liveness: a run that is lost
there is started again by the outbox or by Celery, whose liveness the other two modules state.

`SessionClient` and `ClientCache` state no liveness either: a tab may be closed and a server may
never answer. What the waiters of a refresh need is the invariant `NobodyStranded`, what a cancelled fetch needs
`CancelledFetchesResume`.

**Deadlock** is checked except in `effects`, `session`, `cache`, `cache_late`, `cache_identity` and the runs of `DocumentIndexing`, where the system
really stops: every delivery is over, every request or mutation answered and every sign-in used, or every job has been inserted, ended and its heartbeat run out, and no
further message or request exists in the instance.

## 5. Proofs

All theorems are of the form `Spec => ...` for every value of the constants allowed by the named
assumptions (`OutboxAssumption` and so on), which say that limits are positive or natural numbers and that
switches are Booleans. Nothing is assumed of the number of jobs, dispatchers, workers, runs, documents, requests or
deliveries, which may be infinite sets.

| Module | Theorem | Shows |
| --- | --- | --- |
| `OutboxProofs` | `Invariant`, `TypeCorrect`, `PublishBounded`, `StaleClaimsPowerless`, `DispatchedAccepted`, `SettledStay` | the safety of the outbox |
| `OutboxImplements` | `Implements` | `Spec => KeepsPromises`: the outbox implements `Delivery` |
| `ApplicationJobProofs` | `TypeCorrect`, `RunsLimited`, `AttemptsNeverShared` | for every mixture of overlap, loss and cancellation |
| | `RunsExclusive`, `SuccessStays` | until a live run outlives its lease or an operator cancels |
| `DocumentIndexingProofs` | `TypeCorrect`, `SearchedIsWhole`, `NoSharedAttempt`, `ConsumerKeepsItsSide` | with overruns, faults, cancellation and deletion |
| | `CleanupCompletes` | nothing is left of the jobs a deletion found |
| | `RunsAlone` | one run for each job, until a heartbeat goes stale under its run, or the console or the outbox writes over its status |
| | `IndexingImplementsPublication` | `Spec => PublishesRuns`: a document implements `Publication` |
| `IndexVersionsProofs` | `TypeCorrect`, `AtMostOneServes`, `NoRollback`, `OnlySweptAreRetired` | for any keys and any number of administrators |
| | `VersionsImplementCatalog` | `Spec => SwitchesAtomically`: the versions implement `Catalog` |
| `EffectLedgerProofs` | `TypeCorrect`, `EveryCallCounted`, `LeaseExcludes`, `SuccessStays` | the lease longer or shorter than the time limit |
| | `LedgerImplementsEffect` | `Spec => OneEffect`: the ledger implements `Effect` |
| `SessionClientProofs` | `TypeCorrect`, `OneFlight`, `EveryWaiterServed`, `NoRetryAcrossSessions`, `RotationExclusive`, `NoSelfRace` | any number of tabs, requests and sign-ins |
| | `SessionsImplementLogins` | `Spec => SessionsReplaced`: the server's sessions implement `Logins` |
| `ClientCacheProofs` | `TypeCorrect`, `ListsSettle`, `FetchedListsAreGone`, `FetchesResume` | every mutation of the table, any number of users, calls, keys and screens |

**Outbox.** `PublishBound` is not inductive: it does not say why two dispatchers cannot hold the same attempt. `IInv` adds
that open claims are exclusive (`PicksExclusive`, what `SKIP LOCKED` gives), that the rows they hold stay as they
were selected (`PickOK`), that a committed claim counts one of the row's attempts and owns the row's token only while its attempt is
the last (`ClaimOK`), that no two claims count the same attempt (`ClaimsExclusive`), and that messages belong to
claims that are no longer unsent (`MessagesOK`). The only hard step is `ClaimCommit`, which raises the
counter of each picked row above everything counted before and draws a new token. For `Implements` the invariant gets
one more part, `Unwritten`: a row that does not exist has no messages, jobs or operators, so only `Enqueue`
creates a promise.

**ApplicationJob.** `Counted` relates every executing worker's attempt to the row's and to the number of
starts: a claim increments the row's counter, so its number is above everybody else's. `HoldsRow` carries
`OneLiveRun`: until `disturbed` is set (`Exclusive`) the row of an executing worker is running, its lease runs out
when the execution's own time does, and that time is not over, so no claim, finish or release of another worker finds a row it may
write. The step that breaks `HoldsRow` is the one that sets `disturbed`, and `disturbed` is never reset.

**DocumentIndexing.** `Placed` says that a run in flight works on a job that was inserted, under a number the
job has counted, and that the last transaction holds the lock of a job that exists; `Distinct` is `AttemptsDistinct`
extended to runs that are being answered; `Deletion` says that the cleaner only runs after the document is
hidden. With these, `IndexedIsWhole` is inductive: the only step that makes the document indexed is `Commit`, which removes
every chunk it saw and, by the unique index, meets none it did not see; every step that writes an incomplete set
also marks the document failed. `RunsAlone` adds `Alone`: until something is disturbed the row of a run in flight
is deleted, or running with a fresh heartbeat, or completed by that run, and no claim succeeds on any of them. `CleanupCompletes` adds `Swept`: once
the deletion has committed, the jobs it found are gone, so no chunk of theirs can be committed behind the cleaner's statement.
`IndexingImplementsPublication` sorts the steps into four: a claim begins the next attempt (`ClaimBegins`), a commit publishes, or
is lost if the document is deleted (`CommitPublishes`), a deletion closes its jobs (`DeleteCloses`), and all others at most
end a run and hide the document (`RunsDwindle`). It needs `Distinct`, since a run that ends must not end another of the same number, the
unique index, and one more invariant, `Unbegun`: a job that is not inserted has begun nothing, so its insertion takes no attempt back.

**IndexVersions.** `Holds` says that a request holds the lock of its target, and in its last step of all active rows it
will retire, which still are active; `Exclusive` that locks are; `Ordered` that every retired version sorts
before the active one. The last is the reason for `NoRollback`: an activation succeeds only if the target's key is
the greater one, so a retired version's key is below the active one's, and a rollback to it always
violates the unique index. `OnlySweptAreRetired` follows from it: what the retention task has selected without a lock is still
retired when it deletes (`Sweeping`), and a worker that writes chunks knows its configuration, so nobody else takes chunks away.
`VersionsImplementCatalog` needs `Judged`: from the check to the flush a request's target keeps the status it was granted for, since its
row is locked all the time while the counts are taken and the active rows are waited for. An activation's flush is then a `Promote`, and
a rollback's, by `Ordered`, always a conflict; `OneActive` makes what it retires all that served.

**EffectLedger.** `Counted` ties attempts, claims and accepted mails together; `Holds` says that until a sender
outlives its claim, a sender's claim is the row's and is fresh. `LedgerImplementsEffect` puts them together: by `Counted` a
recorded success belongs to mail the provider has, and no attempt is above the row's counter, so a claim is the next one; by
`Holds` a claim that succeeds finds no sender unless one has outlived its claim.

**SessionClient.** `TabInv` adds to `SingleFlight` that a refresh under way is never newer than its tab and is the shared one
if it is not older (`Flights`), that what a tab shares is under way (`Promised`), that a request refreshes at most once
(`Unused`), and that who waits, waits for a refresh of the generation in which it was refused (`Faithful`). Logout, sign-in
and expiry all raise the generation, so they turn every waiter's refresh into an old one, which is what `NoRetryAcrossSessions` needs.
`RotationExclusive` needs only that live sessions belong to sign-ins already granted (`Owned`). `SessionsImplementLogins` adds
`Fresh`: the name of a session is unused until its sign-in is granted or its refresh has rotated, so a replacement is never a session
that has been there before; that the rotation replaces *the* session of its sign-in is `RotationExclusive`.
`NoSelfRace` needs to know which sessions a tab may have ended or be about to end. `Past`: a session whose cookies the browser has yet to store
is dealt with by nobody, so what a stored answer puts into the jar is untouched. `Present`: what a tab with a user signed in finds in the
jar is no session it has ended or has asked to end, except by the refresh under way for this user. `Arriving`: nor is what the next user
finds when the cookies of a sign-in are stored, because one user signs in at a time and no logout begins meanwhile (`Doors`).
With these `Sole` is inductive: only the refresh itself ends the session that a tab refreshes for its user. The old
generation's refreshes, which the program lets run on, are the hard case: the server may still rotate the session in the
jar for a tab whose user has left.

**ClientCache.** `SettledListsAreCurrent` says nothing of a list while a mutation of it is under way, when the cache may hold anything:
one mutation's snapshot may contain another's write. `Trusted` closes the gap for keys that are free of doubt and that every mutation
settles (`Sure`): such a key is fetched only while it is on display and has data while it is being changed, so the last handler
to run really replaces what is cached and what is being fetched; and while nobody changes it, it is `Faithful`: what a fetch has read
is the server's list, and so is what is valid now *or would be after a cancellation*, which puts back the mark the fetch found.
`Restores` says that a call puts back only what it writes, `CallsHaveUsers` that what it puts back has an owner. For `FetchedListsAreGone` the invariant has `Mine`
(without a logout under way, what was fetched and what is being fetched is the session's whose cookies there are, and somebody is shown) and `Quiet`
(while nobody is shown either, nothing is on display). `FetchesResume` has an invariant of its own, `Resuming`:
besides the property, only data can be marked as invalid (`Unmarked`), so a first fetch that is cancelled leaves a query that
the settling mutation asks for again.

**Only model-checked**, and why. Liveness (`EveryRowSettles`, `SentJobEnds`, `RequestsEnd`, `MailSent`) and `ENABLED` are beyond
the prover. Induction over data is beyond the prover's
library; no module has recursive definitions.

## 6. Where the code and its documents disagree

Five disagreements have a run whose counterexample shows them.

* **A lost worker's job stays running** (`job_crash`, `CrashRemainsRetryable`). `docs/runbooks/outbox-dispatch.md:20`: a
  worker crash "remains retryable instead of being acknowledged as a false success". The redelivered message finds
  the `application_jobs` row running within its lease, is answered `in_flight` (`job_service.py:192-200`), returns
  normally and is acknowledged. No delivery is left.
* **A completed job becomes failed** (`indexing_completed`, `CompletedStays`). The same runbook, line 18: the consumer
  "treats completed work as a no-op". The claim does; the except clauses of a run that has been superseded do
  not look (`document_ingestion_service.py:448-455`).
* **No rollback takes effect** (`versions_rollback`, `RollbackTakesEffect`). `docs/rag-index-versions.md:44`: "Rollback re-activates a
  **retired** version without re-embedding", and the code allows the transition (`index_version_service.py:37`). Both status changes go out in
  one flush, in the order of the primary keys, under a unique index that allows no second active row at any moment (`Conflict`). A switch
  succeeds only if the target's key is the greater one, so the version it retires has the smaller key, and the rollback's flush fails. The theorem
  `NoRollback` says so of every history. `OnlyRetiredLosesChunks` holds *because* of this: the retention task locks nothing, and
  would otherwise race with a rollback.
* **A late mutation fills the cleared cache** (`cache_late`, `LateMutationsRepopulateNothing`). `frontend/src/config/queryKeys.ts:111`
  says of the line below it: "Prevent late mutation observers from repopulating removed user data". Clearing the mutation cache
  forgets the mutations and does not stop those under way: the handlers given to `useMutation` run when the answer comes, and store
  or restore the list of a user who has left, for the next one to find.
* **A user who has logged out is shown again** (`cache_identity`, `ShownUserHasSession`). `frontend/src/features/auth/context/AuthContext.tsx:43`:
  "network logout must not keep the previous user's data visible". The identity is itself fetched (22-27), and `isUserScopedQuery`
  (`queryKeys.ts:104-106`) keeps it out of what a logout or an expiry cancels and removes, so an answer under way sets it back. If somebody else has
  signed in by then, the former user's identity stands over the new one's lists.

Met while modelling, without a run of their own because they follow from the same causes or because
every behaviour shows them at once:

* The same flush refuses an activation whose target's key is the smaller, although readiness was granted (`index_version_service.py:214-219`), while
  `docs/rag-index-versions.md:83` has "Activate (retire previous)". Keys are random, so this is every second activation on average.
* `_dead_letter` sets an ingestion job to `failed` without a look at its heartbeat (`backend/workers/outbox.py:61-78`). If a run of the job lives, a further delivery
  may claim it: two live runs with fresh heartbeats, while `docs/runbooks/outbox-dispatch.md:18-20` has the heartbeat keep them apart. A cancellation
  under a run has the same effect. `OneLiveRun` excludes both; `AttemptsDistinct` and `IndexedIsWhole` hold beyond them.
* Re-indexing into the candidate takes the document out of the serving version meanwhile, since retrieval
  joins on `status = 'indexed'` (`rag/.../chunk_search.py:38`); the same document says the active version keeps serving.
* `resolve_write_version` answers with another configuration's active version when the worker's own is retired
  (`index_version_service.py:134-137`), so chunks of one configuration land in another's version.
* `_release_job_for_retry` puts a job another worker is executing back to `queued`
  (`job_service.py:287-301`), which `application-job-lifecycle.md:10` defines as "not currently executing"; a stale
  `_finish_job` overwrites a newer outcome (266-281); both only past the lease.
* `cancel_job` reads without a lock and writes over a claim (`modules/jobs/service.py:249-258`), so a job shown as
  cancelled "before start" (`docs/jobs-console.md:29`) executes; a cancelled ingestion job whose message is already
  published is run (`document_ingestion_service.py:254-292` never looks for `cancelled`).
* In the ledger a superseded sender's `failed` is recorded over a fresh claim of another, which lets a third
  claim begin while the second sends; only after a claim has been outlived, so `OneSender` is not touched.
* A job inserted between the owner's deletion of jobs and its commit keeps its chunks after the cleanup;
  `CleanupLeavesNothing` speaks of the jobs the deletion found, and TLC finds this behaviour when it is made to
  speak of all chunks.

* Two tabs that refresh at once: one rotation wins, and the other tab shows "session expired" although the browser holds the
  winner's live session, while `README.md:604` has a refresh come before the session is declared expired (`NeverRacesItself`
  says that the cause is never the tab's own refresh or logout).
* Cookies belong to the browser, a session generation to the tab. A tab whose request was refused repeats it in its own session with
  the cookies there are by then: another tab may have signed in as somebody else, or a late refresh have stored its answer. `SessionClient` reaches this;
  `RetriedInItsSession` does not exclude it, and no document promises otherwise.
* A refresh whose server part ran before a logout and whose answer arrives after it puts a live session back into the browser;
  the logout ended only the session it was sent with.
* `apiFetch` treats the 401 of a failed sign-in like any other (`client.ts:402-406`): it tries a refresh or gives up, and the
  form shows "Session expired" instead of the server's message.
* The second clearing of a logout (`AuthContext.tsx:53`) is needed, as `FetchedListsAreGone` shows, and comes at the answer whoever
  is signed in by then: a user who has signed in meanwhile loses the lists they have just fetched. Until that answer, one user's
  refetched lists can be on display for the next.
* Updating and deleting a task stores the answer and invalidates nothing (`useProjectDetail.ts:30-33`): a refetch that read the
  server before the change and arrives after the answer shows the old task until the next one. `SettledListsAreCurrent` therefore
  speaks of the mutations that settle what they write. `deleteMutation` filters by the task that is selected when the answer comes.

## 7. What is not modelled

Within the modelled components: Redis' visibility timeout (a redelivery is a `Send` or a retry); the payload-hash mismatch
and the unset `SMTP_HOST` of the ledger, neither of which changes state after a claim; the dimension check and
percentages of `promotion_readiness` (dimensions fit; a coverage of 0.95 is full coverage for fewer than twenty
documents); what parser, chunker and embedding compute (a run's chunks are whole or not); `ApplicationJob` in front of the
ledger is not composed with it, so `MailSent` speaks of the deliveries that reach the ledger, and `job_crash`
shows what the front can lose; `upload_document`'s stored object; a tab opened without a session, whose client is active
with nobody shown until its first 401; the timeouts of single requests, which end them as `Cancel` does; in `ClientCache` the mutations that only invalidate when they
succeed, the streamed turn that `KnowledgeChat` writes
into its list, the collection of entries nobody observes, and filters of one list kept under keys of their own.

Hazards that no module reaches yet, besides those in `PROJECT.json` without a property: a loader that stores what was invalidated
while it read the database (`backend/core/cache_loader.py:142`), an upload whose commit raises although it happened
(`document_ingestion_service.py:181`), and the time during which a document that is being re-indexed is missing from the version that
serves (`document_ingestion_service.py:293`).

Components without a module are listed in section 1 and, with the reason, in `PROJECT.json`. They fall into three
kinds: planned (upload, cache and loader, rate limits, AI runs, chat, memory, generator journal, pure
algorithms); CRUD within one transaction, where the database's constraints are the specification (users, profile, audit,
platform, settings, storage, notifications, calendar); and code whose result is numbers or text (ranking, parsing,
embedding, evaluation, rendering), which TLA+ says little about.

Most of the repository's TypeScript is of the last two kinds: a client and schemas generated from the API's description, views that
render what a query returns, and forms. They keep no state between two requests but the cache and the session, which modules 6 and 7
model, so a model of them would repeat their text. That is why the modelled share of the lines is small there.
