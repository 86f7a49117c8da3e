----------------------- MODULE DocumentIndexingProofs -----------------------
(***************************************************************************)
(* Theorems about DocumentIndexing, for every number of jobs, runs and     *)
(* attempts. The invariant adds to the properties what holds the runs      *)
(* together: a run in flight works on a job that was inserted, under an    *)
(* attempt the job has counted, and holds the lock of a job that is there; *)
(* and the cleanup only ever runs for a document that was deleted.         *)
(***************************************************************************)
EXTENDS DocumentIndexing, TLAPS

InFlight(i) == indexer[i].pc \notin {"idle", "found"}
Given(j) == job[j].status \notin {"absent", "checked"}

\* What every run knows of its job.
Placed(i) ==
  LET r == indexer[i]
  IN /\ r.pc # "idle" => r.job \in Jobs /\ Given(r.job)
     /\ InFlight(i) => /\ r.attempt >= 1
                       /\ job[r.job].status # "deleted" => r.attempt <= job[r.job].attempts
     /\ r.pc = "insert" => job[r.job].status # "deleted"

\* Runs of one job are different attempts, the one that is being answered included.
Distinct ==
  \A i, k \in Indexers :
    InFlight(i) /\ InFlight(k) /\ i # k /\ indexer[i].job = indexer[k].job
      => indexer[i].attempt # indexer[k].attempt

Runs == Distinct /\ \A i \in Indexers : Placed(i)

Deletion ==
  /\ cleaner.pc # "idle" => doc.deleted
  /\ owner.pc \in {"committed", "done"} => doc.deleted

IInv == TypeOK /\ Runs /\ Deletion /\ IndexedIsWhole
-----------------------------------------------------------------------------
(* Rows and runs                                                           *)

\* The numbers among the constants.
LEMMA Numbers == MaxAttempts \in Nat \ {0} /\ Lease \in Nat \ {0}
  BY DocumentIndexingAssumption

\* A row is written under its new status and keeps its attempts and its deadline.
LEMMA BeatingIs ==
  ASSUME NEW k \in Job, NEW s \in JobStatus
  PROVE  /\ Beating(k, s) \in Job /\ Beating(k, s).status = s
         /\ Beating(k, s).attempts = k.attempts
<1> DEFINE t == IF s = "running" THEN Lease ELSE 0
<1>1. t \in 0 .. Lease /\ Beating(k, s) = [k EXCEPT !.status = s, !.left = t]
  BY Numbers DEF Beating
<1> HIDE DEF t
<1> QED  BY <1>1 DEF Job

\* The row that is inserted, and what is left of one that is deleted.
LEMMA NewJobIs ==
  /\ NewJob \in Job /\ NewJob.status = "pending"
  /\ \A s \in JobStatus : [NewJob EXCEPT !.status = s] \in Job
                          /\ [NewJob EXCEPT !.status = s].status = s
  /\ "deleted" \in JobStatus /\ "absent" \in JobStatus
<1>1. 0 \in 0 .. MaxAttempts /\ 0 \in 0 .. Lease
  BY Numbers
<1>2. "pending" \in JobStatus /\ "deleted" \in JobStatus /\ "absent" \in JobStatus
  BY DEF JobStatus
<1>3. NewJob \in Job
  BY <1>1, <1>2 DEF NewJob, Job
<1>4. ASSUME NEW s \in JobStatus
      PROVE  [NewJob EXCEPT !.status = s] \in Job /\ [NewJob EXCEPT !.status = s].status = s
  BY <1>3 DEF Job
<1> QED  BY <1>2, <1>3, <1>4 DEF NewJob

\* What jobs do to the runs that work on them: none is taken back, the attempts
\* of one that is there never decrease, and a locked one is not deleted.
JobsKeep ==
  \A j \in Jobs :
    /\ Given(j) =>
         /\ job'[j].status \notin {"absent", "checked"}
         /\ job'[j].status # "deleted" => /\ job[j].status # "deleted"
                                          /\ job'[j].attempts >= job[j].attempts
    /\ JobLocked(j) /\ job[j].status # "deleted" => job'[j].status # "deleted"

\* A job that is there is written.
LEMMA JobWritten ==
  ASSUME job \in [Jobs -> Job], NEW j \in Jobs, job[j].status # "deleted",
         NEW s \in JobStatus \ {"absent", "checked", "deleted"},
         job' = [job EXCEPT ![j] = Beating(job[j], s)]
  PROVE  job' \in [Jobs -> Job] /\ JobsKeep
<1>1. Beating(job[j], s) \in Job /\ Beating(job[j], s).status = s
      /\ Beating(job[j], s).attempts = job[j].attempts
  BY BeatingIs
<1>2. \A k \in Jobs : job'[k] = IF k = j THEN Beating(job[j], s) ELSE job[k]
  OBVIOUS
<1>3. \A k \in Jobs : job[k].attempts \in Nat
  BY DEF Job
<1>4. job' \in [Jobs -> Job]
  BY <1>1
<1> QED  BY <1>1, <1>2, <1>3, <1>4 DEF JobsKeep, Given

\* Jobs that nobody has locked are deleted.
LEMMA JobsDeleted ==
  ASSUME job \in [Jobs -> Job], NEW S \in SUBSET Jobs, \A j \in S : ~JobLocked(j),
         job' = Without(S)
  PROVE  job' \in [Jobs -> Job] /\ JobsKeep
<1>1. /\ [NewJob EXCEPT !.status = "deleted"] \in Job
      /\ [NewJob EXCEPT !.status = "deleted"].status = "deleted"
  BY NewJobIs
<1>2. \A k \in Jobs : job'[k] = IF k \in S THEN [NewJob EXCEPT !.status = "deleted"] ELSE job[k]
  BY DEF Without
<1>3. \A k \in Jobs : job[k].attempts \in Nat
  BY DEF Job
<1>4. job' \in [Jobs -> Job]
  BY <1>1 DEF Without
<1>5. ASSUME NEW k \in Jobs
      PROVE  /\ Given(k) =>
                  /\ job'[k].status \notin {"absent", "checked"}
                  /\ job'[k].status # "deleted" => /\ job[k].status # "deleted"
                                                   /\ job'[k].attempts >= job[k].attempts
             /\ JobLocked(k) /\ job[k].status # "deleted" => job'[k].status # "deleted"
  <2>1. CASE k \in S
    <3>1. job'[k].status = "deleted" /\ ~JobLocked(k)
      BY <1>1, <1>2, <2>1
    <3> QED  BY <3>1
  <2>2. CASE k \notin S
    <3>1. job'[k] = job[k] /\ job[k].attempts \in Nat
      BY <1>2, <1>3, <2>2
    <3> QED  BY <3>1 DEF Given
  <2> QED  BY <2>1, <2>2
<1> QED  BY <1>4, <1>5 DEF JobsKeep

\* Jobs that keep their status and their attempts.
LEMMA JobsStay ==
  ASSUME job \in [Jobs -> Job],
         \A j \in Jobs : job'[j].status = job[j].status /\ job'[j].attempts = job[j].attempts
  PROVE  JobsKeep
<1>1. \A k \in Jobs : job[k].attempts \in Nat
  BY DEF Job
<1> QED  BY <1>1 DEF JobsKeep, Given

\* A run that does not move, while jobs go on.
LEMMA PlacedStays ==
  ASSUME job \in [Jobs -> Job], indexer \in [Indexers -> Indexer], Runs, JobsKeep,
         job' \in [Jobs -> Job], NEW i \in Indexers, indexer'[i] = indexer[i]
  PROVE  Placed(i)'
<1>1. Placed(i) /\ indexer[i].attempt \in Nat
  BY DEF Runs, Indexer
<1>2. CASE indexer[i].pc = "idle"
  BY <1>2 DEF Placed, InFlight
<1>3. CASE indexer[i].pc # "idle"
  <2> DEFINE j == indexer[i].job
  <2>1. j \in Jobs /\ Given(j)
    BY <1>1, <1>3 DEF Placed
  <2>2. job[j].attempts \in Nat /\ job'[j].attempts \in Nat
    BY <2>1 DEF Job
  <2>3. indexer[i].pc = "insert" => JobLocked(j)
    BY DEF JobLocked
  <2> QED  BY <1>1, <2>1, <2>2, <2>3 DEF Placed, InFlight, JobsKeep, Given
<1> QED  BY <1>2, <1>3

\* Nobody moves.
LEMMA RunsStay ==
  ASSUME job \in [Jobs -> Job], indexer \in [Indexers -> Indexer], Runs, JobsKeep,
         job' \in [Jobs -> Job], UNCHANGED indexer
  PROVE  Runs'
<1>1. Distinct'
  BY DEF Runs, Distinct, InFlight
<1> QED  BY <1>1, PlacedStays DEF Runs

\* One run moves on, ends, or begins with a job it found.
LEMMA RunMoves ==
  ASSUME job \in [Jobs -> Job], indexer \in [Indexers -> Indexer], Runs, JobsKeep,
         job' \in [Jobs -> Job], NEW i \in Indexers, NEW s \in Indexer,
         indexer' = [indexer EXCEPT ![i] = s],
         \/ s.pc = "idle"
         \/ s.pc = "found" /\ s.job \in Jobs /\ job'[s.job].status \notin {"absent", "checked"}
         \/ /\ InFlight(i) /\ s.pc # "found"
            /\ s.job = indexer[i].job /\ s.attempt = indexer[i].attempt
            /\ s.pc = "insert" => job'[s.job].status # "deleted"
  PROVE  Runs'
<1>1. \A k \in Indexers : indexer'[k] = IF k = i THEN s ELSE indexer[k]
  OBVIOUS
<1>2. \A k \in Indexers :
        InFlight(k)' => InFlight(k) /\ indexer'[k].job = indexer[k].job
                                    /\ indexer'[k].attempt = indexer[k].attempt
  BY <1>1 DEF InFlight
<1>3. Distinct'
  BY <1>2 DEF Runs, Distinct
<1>4. ASSUME NEW k \in Indexers PROVE Placed(k)'
  <2>1. Placed(k)
    BY DEF Runs
  <2>2. CASE indexer'[k].pc \in {"idle", "found"}
    <3>1. indexer'[k].pc = "found" =>
            /\ indexer'[k].job \in Jobs
            /\ job'[indexer'[k].job].status \notin {"absent", "checked"}
      BY <1>1, <2>1, <2>2 DEF Placed, JobsKeep, Given, InFlight
    <3> QED  BY <2>2, <3>1 DEF Placed, InFlight, Given
  <2>3. CASE indexer'[k].pc \notin {"idle", "found"}
    <3> DEFINE j == indexer[k].job
    <3>1. /\ InFlight(k) /\ indexer'[k].job = j /\ indexer'[k].attempt = indexer[k].attempt
      BY <1>2, <2>3 DEF InFlight
    <3>2. j \in Jobs /\ Given(j)
      BY <2>1, <3>1 DEF Placed, InFlight
    <3>3. job[j].attempts \in Nat /\ job'[j].attempts \in Nat /\ indexer[k].attempt \in Nat
      BY <3>2 DEF Job, Indexer
    <3>4. indexer'[k].pc = "insert" => job'[j].status # "deleted"
      <4>1. k # i /\ indexer[k].pc = "insert" => JobLocked(j) /\ job[j].status # "deleted"
        BY <2>1 DEF JobLocked, Placed
      <4> QED  BY <1>1, <3>1, <3>2, <4>1 DEF JobsKeep, InFlight
    <3> QED  BY <2>1, <3>1, <3>2, <3>3, <3>4 DEF Placed, InFlight, JobsKeep, Given
  <2> QED  BY <2>2, <2>3
<1> QED  BY <1>3, <1>4 DEF Runs
-----------------------------------------------------------------------------
(* The steps of a run keep the types, and the runs apart                   *)

\* What TypeOK and Runs say of one run.
LEMMA RunIs ==
  ASSUME TypeOK, Runs, NEW i \in Indexers
  PROVE  /\ indexer[i] \in Indexer
         /\ indexer[i].pc # "idle" =>
              indexer[i].job \in Jobs /\ job[indexer[i].job] \in Job /\ Given(indexer[i].job)
         /\ InFlight(i) => indexer[i].attempt \in 1 .. MaxAttempts
         /\ \A p \in {"found", "failing", "answering"} \cup Working :
              LET s == [indexer[i] EXCEPT !.pc = p]
              IN s \in Indexer /\ s.pc = p /\ s.job = indexer[i].job
                               /\ s.attempt = indexer[i].attempt
<1>1. indexer[i] \in Indexer /\ Placed(i)
  BY DEF TypeOK, Runs
<1>2. indexer[i].pc # "idle" =>
        indexer[i].job \in Jobs /\ job[indexer[i].job] \in Job /\ Given(indexer[i].job)
  BY <1>1 DEF TypeOK, Placed
<1>3. InFlight(i) => indexer[i].attempt \in 1 .. MaxAttempts
  BY <1>1, Numbers DEF Placed, Indexer
<1>4. ASSUME NEW p \in {"found", "failing", "answering"} \cup Working
      PROVE  LET s == [indexer[i] EXCEPT !.pc = p]
             IN s \in Indexer /\ s.pc = p /\ s.job = indexer[i].job
                              /\ s.attempt = indexer[i].attempt
  BY <1>1 DEF Indexer
<1> QED  BY <1>1, <1>2, <1>3, <1>4

\* A run ends.
LEMMA RunLeaves ==
  ASSUME TypeOK, Runs, JobsKeep, job' \in [Jobs -> Job], NEW i \in Indexers, Leaves(i)
  PROVE  indexer' \in [Indexers -> Indexer] /\ Runs'
<1>1. IdleIndexer \in Indexer /\ IdleIndexer.pc = "idle"
  BY Numbers DEF IdleIndexer, Indexer
<1> QED  BY <1>1, RunMoves DEF Leaves, TypeOK

\* A run moves on with its job and its attempt.
LEMMA RunGoesOn ==
  ASSUME TypeOK, Runs, JobsKeep, job' \in [Jobs -> Job], NEW i \in Indexers, InFlight(i),
         NEW p \in {"failing", "answering"} \cup (Working \ {"insert"}), MovesTo(i, p)
  PROVE  indexer' \in [Indexers -> Indexer] /\ Runs'
<1> DEFINE s == [indexer[i] EXCEPT !.pc = p]
<1>1. s \in Indexer /\ s.pc = p /\ s.job = indexer[i].job /\ s.attempt = indexer[i].attempt
  BY RunIs
<1>2. indexer' = [indexer EXCEPT ![i] = s]
  BY DEF MovesTo
<1>3. p \notin {"found", "insert"}
  BY DEF Working
<1> HIDE DEF s
<1> QED  BY <1>1, <1>2, <1>3, RunMoves DEF TypeOK

\* Documents are written.
LEMMA DocWritten ==
  ASSUME TypeOK, NEW s \in {"uploaded", "working", "indexed", "failed", "deleted"}
  PROVE  /\ [doc EXCEPT !.status = s] \in Doc
         /\ [doc EXCEPT !.status = s].status = s /\ [doc EXCEPT !.status = s].deleted = doc.deleted
  BY DEF TypeOK, Doc

\* A run that ends, or fails, without writing anything.
LEMMA QuietSteps ==
  ASSUME TypeOK, Runs, NEW i \in Indexers, Decline(i) \/ Answer(i) \/ Raise(i) \/ Abort(i)
  PROVE  TypeOK' /\ Runs'
<1>1. UNCHANGED <<doc, job, chunks, owner, cleaner, cancelling, disturbed>>
  BY DEF Decline, Answer, Raise, Abort
<1>2. JobsKeep /\ job' \in [Jobs -> Job]
  BY <1>1, JobsStay DEF TypeOK
<1>3. Leaves(i) \/ (MovesTo(i, "failing") /\ InFlight(i))
  BY DEF Decline, Answer, Raise, Abort, InFlight
<1>4. indexer' \in [Indexers -> Indexer] /\ Runs'
  BY <1>2, <1>3, RunLeaves, RunGoesOn
<1> QED  BY <1>1, <1>4 DEF TypeOK

\* A run gives up a job whose deadline or attempts are over.
LEMMA GiveUpKeeps ==
  ASSUME TypeOK, Runs, NEW i \in Indexers, GiveUp(i) PROVE TypeOK' /\ Runs'
<1>1. indexer[i].job \in Jobs /\ "failed" \in JobStatus \ {"absent", "checked", "deleted"}
  BY RunIs DEF GiveUp, JobStatus
<1>2. JobsKeep /\ job' \in [Jobs -> Job]
  BY <1>1, JobWritten DEF GiveUp, TypeOK
<1>3. indexer' \in [Indexers -> Indexer] /\ Runs'
  BY <1>2, RunLeaves DEF GiveUp
<1> QED  BY <1>2, <1>3 DEF GiveUp, TypeOK

\* A run claims its job, under an attempt that no other run of it has.
LEMMA ClaimKeeps ==
  ASSUME TypeOK, Runs, NEW i \in Indexers, Claim(i) PROVE TypeOK' /\ Runs'
<1> DEFINE j == indexer[i].job
           n == NextAttempt(job[j])
           k == [Beating(job[j], "running") EXCEPT !.attempts = n]
           s == [indexer[i] EXCEPT !.pc = "extract", !.attempt = n]
<1>1. j \in Jobs /\ job[j] \in Job /\ Given(j) /\ indexer[i] \in Indexer
  BY RunIs DEF Claim
<1>2. n \in 1 .. MaxAttempts /\ n > job[j].attempts
  BY <1>1, Numbers DEF Claim, Exhausted, NextAttempt, Job
<1>3. k \in Job /\ k.status = "running" /\ k.attempts = n
  <2>1. Beating(job[j], "running") \in Job /\ Beating(job[j], "running").status = "running"
    BY <1>1, BeatingIs DEF JobStatus
  <2> HIDE DEF n
  <2> QED  BY <1>2, <2>1 DEF Job
<1>4. s \in Indexer /\ s.pc = "extract" /\ s.job = j /\ s.attempt = n
  <2>1. n \in 0 .. MaxAttempts /\ "extract" \in Working
    BY <1>2, Numbers DEF Working
  <2> HIDE DEF n
  <2> QED  BY <1>1, <2>1 DEF Indexer
<1>5. /\ job' = [job EXCEPT ![j] = k] /\ indexer' = [indexer EXCEPT ![i] = s]
      /\ doc' = [doc EXCEPT !.status = "working"]
      /\ job[j].status # "deleted"
      /\ UNCHANGED <<chunks, owner, cleaner, cancelling, disturbed>>
  BY DEF Claim
<1> HIDE DEF k, s, n
<1>6. job' \in [Jobs -> Job] /\ indexer' \in [Indexers -> Indexer] /\ doc' \in Doc
  BY <1>3, <1>4, <1>5, DocWritten DEF TypeOK
<1>7. JobsKeep
  <2>1. \A l \in Jobs : job'[l] = (IF l = j THEN k ELSE job[l]) /\ job[l].attempts \in Nat
    BY <1>5 DEF TypeOK, Job
  <2> QED  BY <1>2, <1>3, <1>5, <2>1 DEF JobsKeep, Given
<1>8. \A l \in Indexers : indexer'[l] = IF l = i THEN s ELSE indexer[l]
  BY <1>5 DEF TypeOK
<1>9. \A l \in Indexers \ {i} : InFlight(l) /\ indexer[l].job = j => indexer[l].attempt < n
  <2>1. \A l \in Indexers : indexer[l].attempt \in Nat /\ Placed(l)
    BY DEF TypeOK, Runs, Indexer
  <2> QED  BY <1>1, <1>2, <1>5, <2>1 DEF Placed, Job
<1>10. Distinct'
  <2>1. \A l \in Indexers : l # i => (InFlight(l)' <=> InFlight(l))
    BY <1>8 DEF InFlight
  <2>2. n \in Nat /\ \A l \in Indexers : indexer[l].attempt \in Nat
    BY <1>2 DEF TypeOK, Indexer
  <2> QED  BY <1>4, <1>8, <1>9, <2>1, <2>2 DEF Runs, Distinct
<1>11. Placed(i)'
  <2>1. indexer'[i] = s /\ job'[j] = k
    BY <1>1, <1>5, <1>8 DEF TypeOK
  <2> QED  BY <1>1, <1>2, <1>3, <1>4, <2>1 DEF Placed, InFlight, Given
<1>12. \A l \in Indexers : Placed(l)'
  BY <1>6, <1>7, <1>8, <1>11, PlacedStays DEF TypeOK
<1> QED  BY <1>5, <1>6, <1>10, <1>12 DEF TypeOK, Runs

\* The stages before the last transaction.
LEMMA StageKeeps ==
  ASSUME TypeOK, Runs, NEW i \in Indexers, Stage(i) \/ Embed(i) PROVE TypeOK' /\ Runs'
<1> DEFINE j == indexer[i].job
<1>1. /\ InFlight(i) /\ j \in Jobs /\ job[j] \in Job /\ Given(j)
      /\ UNCHANGED <<chunks, owner, cleaner, cancelling, disturbed>>
  BY RunIs DEF Stage, Embed, InFlight
<1>2. JobsKeep /\ job' \in [Jobs -> Job]
  <2>1. CASE UNCHANGED job
    BY <2>1, JobsStay DEF TypeOK
  <2>2. CASE Touched(j) /\ job[j].status # "deleted"
    <3>1. job[j].status \in JobStatus \ {"absent", "checked", "deleted"}
      BY <1>1, <2>2 DEF Given, Job
    <3> QED  BY <1>1, <2>2, <3>1, JobWritten DEF Touched, TypeOK
  <2> QED  BY <2>1, <2>2 DEF Stage, Embed
<1>3. doc' \in Doc
  BY DocWritten DEF Stage, Embed, TypeOK
<1>4. Leaves(i) \/ \E p \in {"chunk", "embed", "store", "failing"} : MovesTo(i, p)
  BY DEF Stage, Embed
<1>5. indexer' \in [Indexers -> Indexer] /\ Runs'
  BY <1>1, <1>2, <1>4, RunLeaves, RunGoesOn DEF Working
<1> QED  BY <1>1, <1>2, <1>3, <1>5 DEF TypeOK

\* The last transaction begins.
LEMMA StoreKeeps ==
  ASSUME TypeOK, Runs, NEW i \in Indexers, Store(i) PROVE TypeOK' /\ Runs'
<1> DEFINE j == indexer[i].job
<1>1. /\ InFlight(i) /\ indexer[i] \in Indexer
      /\ UNCHANGED <<doc, job, chunks, owner, cleaner, cancelling, disturbed>>
  BY RunIs DEF Store, InFlight
<1>2. JobsKeep /\ job' \in [Jobs -> Job]
  BY <1>1, JobsStay DEF TypeOK
<1>3. indexer' \in [Indexers -> Indexer] /\ Runs'
  <2>1. CASE Leaves(i) \/ MovesTo(i, "failing")
    BY <1>1, <1>2, <2>1, RunLeaves, RunGoesOn
  <2>2. CASE ~(Leaves(i) \/ MovesTo(i, "failing"))
    <3> DEFINE s == [indexer[i] EXCEPT !.pc = "insert", !.seen = chunks]
    <3>1. indexer' = [indexer EXCEPT ![i] = s] /\ job[j].status # "deleted"
      BY <2>2 DEF Store
    <3>2. s \in Indexer /\ s.pc = "insert" /\ s.job = j /\ s.attempt = indexer[i].attempt
      BY <1>1 DEF Indexer, Working, TypeOK
    <3> HIDE DEF s
    <3> QED  BY <1>1, <1>2, <3>1, <3>2, RunMoves DEF TypeOK
  <2> QED  BY <2>1, <2>2
<1> QED  BY <1>1, <1>2, <1>3 DEF TypeOK

\* The runs that write how they ended: completed, or failed.
LEMMA EndKeeps ==
  ASSUME TypeOK, Runs, NEW i \in Indexers, Commit(i) \/ Fail(i) \/ FailStoring(i)
  PROVE  TypeOK' /\ Runs'
<1> DEFINE j == indexer[i].job
<1>1. /\ InFlight(i) /\ j \in Jobs /\ Placed(i) /\ indexer[i].attempt \in 1 .. MaxAttempts
      /\ UNCHANGED <<owner, cleaner, cancelling, disturbed>>
  BY RunIs DEF Commit, Fail, FailStoring, InFlight, Runs
<1>2. JobsKeep /\ job' \in [Jobs -> Job]
  <2>1. {"completed", "failed"} \subseteq JobStatus \ {"absent", "checked", "deleted"}
    BY DEF JobStatus
  <2>2. CASE UNCHANGED job
    BY <2>2, JobsStay DEF TypeOK
  <2>3. CASE ~UNCHANGED job
    <3>1. job[j].status # "deleted"
      BY <1>1, <2>3 DEF Commit, Fail, FailStoring, Placed
    <3>2. \E s \in {"completed", "failed"} : job' = [job EXCEPT ![j] = Beating(job[j], s)]
      BY <2>3 DEF Commit, Fail, FailStoring
    <3> QED  BY <1>1, <2>1, <3>1, <3>2, JobWritten DEF TypeOK
  <2> QED  BY <2>2, <2>3
<1>3. chunks' \in SUBSET Chunks
  <2>1. \A whole \in BOOLEAN : Made(i, whole) \in Chunks
    BY <1>1 DEF Made, Chunks
  <2> QED  BY <2>1 DEF Commit, Fail, FailStoring, TypeOK
<1>4. doc' \in Doc
  BY DocWritten DEF Commit, Fail, FailStoring, TypeOK
<1>5. indexer' \in [Indexers -> Indexer] /\ Runs'
  <2>1. CASE Commit(i)
    <3> DEFINE s == [indexer[i] EXCEPT !.pc = "answering", !.seen = {}]
    <3>1. s \in Indexer /\ s.pc = "answering"
          /\ s.job = indexer[i].job /\ s.attempt = indexer[i].attempt
      BY RunIs DEF Indexer
    <3>2. indexer' = [indexer EXCEPT ![i] = s]
      BY <2>1 DEF Commit
    <3> HIDE DEF s
    <3> QED  BY <1>1, <1>2, <3>1, <3>2, RunMoves DEF TypeOK
  <2>2. CASE Fail(i) \/ FailStoring(i)
    BY <1>1, <1>2, <2>2, RunLeaves, RunGoesOn DEF Fail, FailStoring
  <2> QED  BY <2>1, <2>2
<1> QED  BY <1>1, <1>2, <1>3, <1>4, <1>5 DEF TypeOK
-----------------------------------------------------------------------------
(* The steps around the runs                                               *)

\* A message is delivered.
LEMMA DeliverKeeps ==
  ASSUME TypeOK, Runs, NEW i \in Indexers, NEW j \in Jobs, Deliver(i, j)
  PROVE  TypeOK' /\ Runs'
<1> DEFINE s == [indexer[i] EXCEPT !.pc = "found", !.job = j]
<1>1. UNCHANGED <<doc, job, chunks, owner, cleaner, cancelling, disturbed>>
  BY DEF Deliver
<1>2. s \in Indexer /\ s.pc = "found" /\ s.job = j /\ indexer' = [indexer EXCEPT ![i] = s]
  BY DEF TypeOK, Indexer, Deliver
<1>3. job'[j].status \notin {"absent", "checked"}
  BY <1>1 DEF Deliver
<1>4. JobsKeep /\ job' \in [Jobs -> Job]
  BY <1>1, JobsStay DEF TypeOK
<1> HIDE DEF s
<1>5. indexer' \in [Indexers -> Indexer] /\ Runs'
  BY <1>2, <1>3, <1>4, RunMoves DEF TypeOK
<1> QED  BY <1>1, <1>4, <1>5 DEF TypeOK

\* Jobs that are enqueued or pass their deadline, and time that passes.
LEMMA JobsGoOn ==
  ASSUME TypeOK, Runs, Tick \/ \E j \in Jobs : CheckEnqueue(j) \/ InsertJob(j) \/ Expire(j)
  PROVE  TypeOK' /\ Runs'
<1>1. UNCHANGED <<doc, chunks, indexer, owner, cleaner, cancelling>> /\ disturbed' \in BOOLEAN
  BY DEF Tick, CheckEnqueue, InsertJob, Expire, TypeOK
<1>2. JobsKeep /\ job' \in [Jobs -> Job]
  <2>1. CASE Tick
    <3>1. ASSUME NEW j \in Jobs
          PROVE  job'[j] \in Job /\ job'[j].status = job[j].status
                                 /\ job'[j].attempts = job[j].attempts
      <4> DEFINE t == IF job[j].left = 0 THEN 0 ELSE job[j].left - 1
      <4>1. job[j] \in Job /\ t \in 0 .. Lease
        BY Numbers DEF TypeOK, Job
      <4>2. job'[j] = [job[j] EXCEPT !.left = t]
        BY <2>1 DEF Tick
      <4> HIDE DEF t
      <4> QED  BY <4>1, <4>2 DEF Job
    <3>2. job' \in [Jobs -> Job]
      BY <2>1, <3>1 DEF Tick
    <3> QED  BY <3>1, <3>2, JobsStay DEF TypeOK
  <2>2. ASSUME NEW j \in Jobs, Expire(j) PROVE JobsKeep /\ job' \in [Jobs -> Job]
    <3> DEFINE e == [job[j] EXCEPT !.expired = TRUE]
    <3>1. job' = [job EXCEPT ![j] = e]
      BY <2>2 DEF Expire
    <3>2. e \in Job /\ e.status = job[j].status /\ e.attempts = job[j].attempts
      BY DEF TypeOK, Job
    <3> HIDE DEF e
    <3>3. \A k \in Jobs : job'[k].status = job[k].status /\ job'[k].attempts = job[k].attempts
      BY <3>1, <3>2 DEF TypeOK
    <3> QED  BY <3>1, <3>2, <3>3, JobsStay DEF TypeOK
  <2>3. ASSUME NEW j \in Jobs, CheckEnqueue(j) \/ InsertJob(j)
        PROVE  JobsKeep /\ job' \in [Jobs -> Job]
    <3>1. ~Given(j) /\ job[j].status # "deleted"
      BY <2>3 DEF CheckEnqueue, InsertJob, Given
    <3>2. \A k \in Jobs \ {j} : job'[k] = job[k] /\ job[k].attempts \in Nat
      BY <2>3 DEF CheckEnqueue, InsertJob, TypeOK, Job
    <3>3. job'[j] \in Job /\ job'[j].status # "deleted" /\ job' = [job EXCEPT ![j] = job'[j]]
      BY <2>3, NewJobIs DEF CheckEnqueue, InsertJob, TypeOK, Job, JobStatus
    <3> QED  BY <3>1, <3>2, <3>3 DEF JobsKeep, Given, TypeOK
  <2> QED  BY <2>1, <2>2, <2>3
<1> QED  BY <1>1, <1>2, RunsStay DEF TypeOK

\* What an operator or the outbox does to a job: at most a row that is there is written.
LEMMA OutsideWrites ==
  ASSUME TypeOK, NEW j \in Jobs, CheckCancel(j) \/ WriteCancel(j) \/ DeadLetter(j)
  PROVE  /\ UNCHANGED <<doc, chunks, indexer, owner, cleaner>>
         /\ cancelling' \in SUBSET Jobs /\ disturbed' \in BOOLEAN
         /\ \/ UNCHANGED job
            \/ /\ job[j].status # "deleted"
               /\ \E s \in JobStatus \ {"absent", "checked", "deleted"} :
                    /\ s # "running" \/ s = job[j].status
                    /\ job' = [job EXCEPT ![j] = Beating(job[j], s)]
<1>1. UNCHANGED <<doc, chunks, indexer, owner, cleaner>>
  BY DEF CheckCancel, WriteCancel, DeadLetter
<1>2. cancelling' \in SUBSET Jobs /\ disturbed' \in BOOLEAN
  BY DEF CheckCancel, WriteCancel, DeadLetter, TypeOK
<1>3. CASE CheckCancel(j)
  BY <1>1, <1>2, <1>3 DEF CheckCancel
<1>4. CASE WriteCancel(j)
  <2>1. "cancelled" \in JobStatus \ {"absent", "checked", "deleted"}
    BY DEF JobStatus
  <2> QED  BY <1>1, <1>2, <1>4, <2>1 DEF WriteCancel
<1>5. CASE DeadLetter(j)
  <2>1. "failed" \in JobStatus \ {"absent", "checked", "deleted"}
    BY DEF JobStatus
  <2>2. job[j].status \in JobStatus \ {"absent", "checked", "deleted"}
    BY <1>5 DEF DeadLetter, Stored, TypeOK, Job
  <2>3. \/ job' = [job EXCEPT ![j] = Beating(job[j], "failed")]
        \/ job' = [job EXCEPT ![j] = Beating(job[j], job[j].status)]
    BY <1>5 DEF DeadLetter, Touched, TypeOK
  <2> QED  BY <1>1, <1>2, <2>1, <2>2, <2>3
<1> QED  BY <1>3, <1>4, <1>5

\* An operator cancels a job, or the outbox gives it up.
LEMMA OutsideKeeps ==
  ASSUME TypeOK, Runs, NEW j \in Jobs, CheckCancel(j) \/ WriteCancel(j) \/ DeadLetter(j)
  PROVE  TypeOK' /\ Runs'
<1>1. /\ UNCHANGED <<doc, chunks, indexer, owner, cleaner>>
      /\ cancelling' \in SUBSET Jobs /\ disturbed' \in BOOLEAN
  BY OutsideWrites
<1>2. JobsKeep /\ job' \in [Jobs -> Job]
  <2>1. CASE UNCHANGED job
    BY <2>1, JobsStay DEF TypeOK
  <2>2. CASE ~UNCHANGED job
    <3>1. PICK s \in JobStatus \ {"absent", "checked", "deleted"} :
            job[j].status # "deleted" /\ job' = [job EXCEPT ![j] = Beating(job[j], s)]
      BY <2>2, OutsideWrites
    <3> QED  BY <3>1, JobWritten DEF TypeOK
  <2> QED  BY <2>1, <2>2
<1> QED  BY <1>1, <1>2, RunsStay DEF TypeOK

\* The owner and the cleanup.
LEMMA DeleteKeeps == ASSUME TypeOK, Runs, Delete PROVE TypeOK' /\ Runs'
<1>1. UNCHANGED <<indexer, cancelling, disturbed>>
  BY DEF Delete, FindDocument, HideDocument, SweepJobs, CommitDelete, AbortDelete, QueueCleanup,
         SweepChunks, SweepJobsAgain, CommitCleanup, RetryCleanup
<1>2. JobsKeep /\ job' \in [Jobs -> Job]
  <2>1. CASE UNCHANGED job
    BY <2>1, JobsStay DEF TypeOK
  <2>2. CASE CommitDelete
    BY <2>2, JobsDeleted DEF CommitDelete, TypeOK, Sweeper
  <2>3. CASE CommitCleanup
    BY <2>3, JobsDeleted DEF CommitCleanup, TypeOK, Sweeper
  <2> QED  BY <2>1, <2>2, <2>3
           DEF Delete, FindDocument, HideDocument, SweepJobs, AbortDelete, QueueCleanup,
               SweepChunks, SweepJobsAgain, RetryCleanup
<1>3. doc' \in Doc
  <2>1. UNCHANGED doc \/ doc' = [status |-> "deleted", deleted |-> TRUE]
    BY DEF Delete, FindDocument, HideDocument, SweepJobs, CommitDelete, AbortDelete,
           QueueCleanup, SweepChunks, SweepJobsAgain, CommitCleanup, RetryCleanup
  <2>2. [status |-> "deleted", deleted |-> TRUE] \in Doc
    BY DEF Doc
  <2> QED  BY <2>1, <2>2 DEF TypeOK
<1>4. chunks' \in SUBSET Chunks
  <2>1. UNCHANGED chunks \/ chunks' = chunks \ cleaner.seen
    BY DEF Delete, FindDocument, HideDocument, SweepJobs, CommitDelete, AbortDelete,
           QueueCleanup, SweepChunks, SweepJobsAgain, CommitCleanup, RetryCleanup
  <2> QED  BY <2>1 DEF TypeOK
<1>5. owner' \in Sweeper /\ cleaner' \in Sweeper
  <2>1. Stored \in SUBSET Jobs /\ chunks \in SUBSET Chunks
    BY DEF Stored, TypeOK
  <2> DEFINE PCs == {"idle", "found", "hidden", "sweeping", "committed", "queued", "chunks", "done"}
  <2>2. IdleSweeper \in Sweeper /\ \A p \in PCs : [IdleSweeper EXCEPT !.pc = p] \in Sweeper
    BY DEF IdleSweeper, Sweeper
  <2>3. ASSUME NEW w \in Sweeper
        PROVE  /\ \A p \in PCs : [w EXCEPT !.pc = p] \in Sweeper
               /\ [w EXCEPT !.pc = "sweeping", !.jobs = Stored] \in Sweeper
               /\ [w EXCEPT !.pc = "chunks", !.seen = chunks] \in Sweeper
    BY <2>1 DEF Sweeper
  <2>4. owner \in Sweeper /\ cleaner \in Sweeper
    BY DEF TypeOK
  <2>5. CASE FindDocument \/ HideDocument \/ SweepJobs \/ CommitDelete \/ AbortDelete \/ QueueCleanup
    BY <2>2, <2>3, <2>4, <2>5
       DEF FindDocument, HideDocument, SweepJobs, CommitDelete, AbortDelete, QueueCleanup
  <2>6. CASE SweepChunks \/ SweepJobsAgain \/ CommitCleanup \/ RetryCleanup
    BY <2>2, <2>3, <2>4, <2>6 DEF SweepChunks, SweepJobsAgain, CommitCleanup, RetryCleanup
  <2> QED  BY <2>5, <2>6 DEF Delete
<1> QED  BY <1>1, <1>2, <1>3, <1>4, <1>5, RunsStay DEF TypeOK
-----------------------------------------------------------------------------
(* The document                                                            *)

\* No step brings a deleted document back, and none that is searched loses the
\* chunks of the run that made it so.
LEMMA WholeStep ==
  ASSUME IInv, Next PROVE Deletion' /\ IndexedIsWhole'
<1>1. doc \in Doc /\ owner \in Sweeper /\ cleaner \in Sweeper
  BY DEF IInv, TypeOK
<1>2. ASSUME NEW i \in Indexers, Run(i) PROVE Deletion' /\ IndexedIsWhole'
  <2>1. doc'.deleted = doc.deleted /\ UNCHANGED <<owner, cleaner>>
    BY <1>1, <1>2, DocWritten
       DEF IInv, Run, Decline, GiveUp, Claim, Stage, Embed, Store, Commit, Answer, Raise, Fail,
           FailStoring, Abort
  <2>2. CASE Commit(i)
    <3>1. chunks' = {Made(i, TRUE)} /\ Made(i, TRUE).whole
      BY <2>2 DEF Commit, Conflict, Made
    <3> QED  BY <2>1, <3>1 DEF IInv, Deletion, IndexedIsWhole
  <2>3. CASE ~Commit(i)
    <3>1. \/ UNCHANGED <<doc, chunks>>
          \/ \E s \in {"working", "failed"} : doc' = [doc EXCEPT !.status = s]
      BY <1>2, <2>3
         DEF Run, Decline, GiveUp, Claim, Stage, Embed, Store, Answer, Raise, Fail, FailStoring,
             Abort
    <3>2. CASE UNCHANGED <<doc, chunks>>
      BY <2>1, <3>2 DEF IInv, Deletion, IndexedIsWhole
    <3>3. CASE \E s \in {"working", "failed"} : doc' = [doc EXCEPT !.status = s]
      <4>1. doc'.status \in {"working", "failed"}
        BY <1>1, <3>3 DEF Doc
      <4> QED  BY <2>1, <4>1 DEF IInv, Deletion, IndexedIsWhole
    <3> QED  BY <3>1, <3>2, <3>3
  <2> QED  BY <2>2, <2>3
<1>3. CASE Delete
  <2>1. CASE CommitDelete
    <3>1. doc'.deleted
      BY <2>1 DEF CommitDelete
    <3> QED  BY <3>1 DEF Deletion, IndexedIsWhole
  <2>2. CASE CommitCleanup
    <3>1. doc.deleted /\ UNCHANGED doc
      BY <2>2 DEF CommitCleanup, IInv, Deletion
    <3> QED  BY <3>1 DEF Deletion, IndexedIsWhole
  <2>3. CASE ~CommitDelete /\ ~CommitCleanup
    <3>1. UNCHANGED <<doc, chunks>>
      BY <1>3, <2>3
         DEF Delete, FindDocument, HideDocument, SweepJobs, AbortDelete, QueueCleanup,
             SweepChunks, SweepJobsAgain, RetryCleanup
    <3>2. doc.deleted => Deletion'
      BY <3>1 DEF Deletion
    <3>3. ASSUME ~doc.deleted PROVE Deletion'
      <4>1. cleaner.pc = "idle" /\ owner.pc \notin {"committed", "done"}
        BY <3>3 DEF IInv, Deletion
      <4>2. UNCHANGED cleaner /\ (FindDocument \/ HideDocument \/ SweepJobs \/ AbortDelete)
        BY <1>3, <2>3, <4>1
           DEF Delete, FindDocument, HideDocument, SweepJobs, AbortDelete, QueueCleanup,
               SweepChunks, SweepJobsAgain, RetryCleanup
      <4>3. owner'.pc \in {"found", "hidden", "sweeping", "idle"}
        <5>1. \A p \in {"found", "hidden"} : [owner EXCEPT !.pc = p].pc = p
          BY <1>1 DEF Sweeper
        <5>2. [owner EXCEPT !.pc = "sweeping", !.jobs = Stored].pc = "sweeping"
          BY <1>1 DEF Sweeper
        <5>3. IdleSweeper.pc = "idle"
          BY DEF IdleSweeper
        <5> QED  BY <4>2, <5>1, <5>2, <5>3 DEF FindDocument, HideDocument, SweepJobs, AbortDelete
      <4> QED  BY <4>1, <4>2, <4>3 DEF Deletion
    <3> QED  BY <3>1, <3>2, <3>3 DEF IInv, IndexedIsWhole
  <2> QED  BY <2>1, <2>2, <2>3
<1>4. CASE UNCHANGED <<doc, chunks, owner, cleaner>>
  BY <1>4 DEF IInv, Deletion, IndexedIsWhole
<1> QED  BY <1>2, <1>3, <1>4
         DEF Next, Deliver, CheckEnqueue, InsertJob, Expire, CheckCancel, WriteCancel,
             DeadLetter, Tick
-----------------------------------------------------------------------------
(* One live run at a time                                                  *)

\* What the row k of a run in flight says: it is gone, or running with a fresh
\* heartbeat, or the run has completed it.
Held(pc, k) ==
  \/ k.status = "deleted"
  \/ pc \in Working \cup {"failing"} /\ Fresh(k)
  \/ pc \in {"answering", "failing"} /\ Repeats(k)

\* Whoever is in flight has its job to itself.
Alone(i) ==
  InFlight(i) =>
    /\ \A k \in Indexers : InFlight(k) /\ indexer[k].job = indexer[i].job => k = i
    /\ Held(indexer[i].pc, job[indexer[i].job])

AllAlone == \A i \in Indexers : Alone(i)

Undisturbed == ~disturbed => AllAlone

\* A row that was written.
LEMMA BeatingFresh ==
  ASSUME NEW k \in Job
  PROVE  /\ Fresh(Beating(k, "running")) /\ Repeats(Beating(k, "completed"))
         /\ \A n \in 0 .. MaxAttempts : Fresh([Beating(k, "running") EXCEPT !.attempts = n])
<1>1. "running" \in JobStatus /\ "completed" \in JobStatus
  BY DEF JobStatus
<1>2. Beating(k, "running").left = Lease
  BY DEF Beating, Job
<1>3. Beating(k, "running") \in Job
  BY <1>1, BeatingIs
<1> QED  BY <1>1, <1>2, <1>3, BeatingIs, Numbers DEF Fresh, Repeats, Job

\* A run in flight moves, and writes no job but its own.
LEMMA RunAlone ==
  ASSUME TypeOK, AllAlone, NEW i \in Indexers, InFlight(i), NEW s,
         indexer' = [indexer EXCEPT ![i] = s],
         \A j \in Jobs \ {indexer[i].job} : job'[j] = job[j],
         Runs,
         \/ s.pc = "idle"
         \/ s.job = indexer[i].job /\ Held(s.pc, job'[indexer[i].job])
  PROVE  AllAlone'
<1>1. \A k \in Indexers : indexer'[k] = IF k = i THEN s ELSE indexer[k]
  BY DEF TypeOK
<1>2. \A k \in Indexers : InFlight(k)' => InFlight(k) /\ indexer'[k].job = indexer[k].job
  BY <1>1 DEF InFlight
<1>3. \A k \in Indexers : InFlight(k) => indexer[k].job \in Jobs
  BY DEF Runs, Placed, InFlight
<1>4. ASSUME NEW k \in Indexers, InFlight(k)' PROVE Held(indexer'[k].pc, job'[indexer'[k].job])
  <2>1. CASE k = i
    BY <1>1, <1>4, <2>1 DEF InFlight
  <2>2. CASE k # i
    <3>1. InFlight(k) /\ indexer'[k] = indexer[k] /\ indexer[k].job \in Jobs
      BY <1>1, <1>2, <1>3, <1>4, <2>2
    <3>2. indexer[k].job # indexer[i].job
      BY <2>2, <3>1 DEF AllAlone, Alone
    <3> QED  BY <3>1, <3>2 DEF AllAlone, Alone
  <2> QED  BY <2>1, <2>2
<1>5. ASSUME NEW k \in Indexers, InFlight(k)', NEW l \in Indexers, InFlight(l)',
             indexer'[l].job = indexer'[k].job
      PROVE  l = k
  BY <1>2, <1>5 DEF AllAlone, Alone
<1> QED  BY <1>4, <1>5 DEF AllAlone, Alone, Held, Fresh, Repeats, InFlight

\* Nobody in flight moves, nobody joins them, and their jobs stay or are deleted.
LEMMA OthersAlone ==
  ASSUME TypeOK, AllAlone, Runs,
         \A k \in Indexers : InFlight(k)' => InFlight(k) /\ indexer'[k] = indexer[k],
         \A k \in Indexers : InFlight(k) =>
           \/ job'[indexer[k].job] = job[indexer[k].job]
           \/ job'[indexer[k].job].status = "deleted"
           \/ Fresh(job[indexer[k].job]) /\ Fresh(job'[indexer[k].job])
           \/ Repeats(job[indexer[k].job]) /\ Repeats(job'[indexer[k].job])
  PROVE  AllAlone'
<1>1. ASSUME NEW k \in Indexers, InFlight(k)' PROVE Held(indexer'[k].pc, job'[indexer'[k].job])
  <2>1. InFlight(k) /\ indexer'[k] = indexer[k] /\ Held(indexer[k].pc, job[indexer[k].job])
    BY <1>1 DEF AllAlone, Alone
  <2>2. Fresh(job[indexer[k].job]) => ~Repeats(job[indexer[k].job])
    BY DEF Fresh, Repeats
  <2>3. job[indexer[k].job].status = "deleted" =>
          ~Fresh(job[indexer[k].job]) /\ ~Repeats(job[indexer[k].job])
    BY DEF Fresh, Repeats
  <2> QED  BY <2>1, <2>2, <2>3 DEF Held
<1>2. ASSUME NEW k \in Indexers, InFlight(k)', NEW l \in Indexers, InFlight(l)',
             indexer'[l].job = indexer'[k].job
      PROVE  l = k
  BY <1>2 DEF AllAlone, Alone
<1> QED  BY <1>1, <1>2 DEF AllAlone, Alone, Held, Fresh, Repeats, InFlight

\* The steps of a run.
LEMMA RunKeepsAlone ==
  ASSUME TypeOK, Runs, AllAlone, NEW i \in Indexers, Run(i)
  PROVE  AllAlone'
<1> DEFINE j == indexer[i].job
<1>1. indexer[i] \in Indexer /\ indexer[i].pc # "idle" /\ j \in Jobs /\ job[j] \in Job
  BY RunIs
     DEF Run, Decline, GiveUp, Claim, Stage, Embed, Store, Commit, Answer, Raise, Fail,
         FailStoring, Abort, Working
<1>2. IdleIndexer.pc = "idle"
  BY DEF IdleIndexer
<1>3. \A p \in {"failing", "answering"} \cup Working :
        [indexer[i] EXCEPT !.pc = p].pc = p /\ [indexer[i] EXCEPT !.pc = p].job = j
  BY <1>1 DEF Indexer
<1>4. /\ "failing" \notin Working /\ "answering" \notin Working /\ "found" \notin Working
      /\ {"extract", "chunk", "embed", "store", "insert"} \subseteq Working
  BY DEF Working
<1>5. InFlight(i) => Held(indexer[i].pc, job[j])
  BY DEF AllAlone, Alone
<1>6. \A k \in Indexers \ {i} : indexer'[k] = indexer[k]
  BY DEF Run, Decline, GiveUp, Claim, Stage, Embed, Store, Commit, Answer, Raise, Fail,
         FailStoring, Abort, Leaves, MovesTo, TypeOK
<1>7. CASE ~InFlight(i) /\ ~Claim(i)
  <2>1. indexer[i].pc = "found" /\ (Decline(i) \/ GiveUp(i) \/ Abort(i))
    BY <1>1, <1>7
       DEF Run, Stage, Embed, Store, Commit, Answer, Raise, Fail, FailStoring, InFlight
  <2>2. Leaves(i) /\ (UNCHANGED job \/ GiveUp(i))
    BY <2>1 DEF Decline, GiveUp, Abort
  <2>3. ~InFlight(i)'
    BY <1>2, <2>2 DEF Leaves, InFlight, TypeOK
  <2>4. \A k \in Indexers : InFlight(k)' => InFlight(k) /\ indexer'[k] = indexer[k]
    BY <1>6, <2>3 DEF InFlight
  <2>5. ASSUME NEW k \in Indexers, InFlight(k) PROVE job'[indexer[k].job] = job[indexer[k].job]
    <3>1. Held(indexer[k].pc, job[indexer[k].job])
      BY <2>5 DEF AllAlone, Alone
    <3>2. GiveUp(i) => job[j].status # "deleted" /\ ~Repeats(job[j]) /\ ~Fresh(job[j])
      BY DEF GiveUp
    <3>3. GiveUp(i) => indexer[k].job # j
      BY <3>1, <3>2 DEF Held
    <3>4. \A l \in Jobs \ {j} : job'[l] = job[l]
      BY <2>2 DEF GiveUp, TypeOK
    <3>5. indexer[k].job \in Jobs
      BY <2>5 DEF Runs, Placed, InFlight
    <3> QED  BY <2>2, <3>3, <3>4, <3>5
  <2> QED  BY <2>4, <2>5, OthersAlone
<1>8. CASE Claim(i)
  <2> DEFINE n == NextAttempt(job[j])
             s == [indexer[i] EXCEPT !.pc = "extract", !.attempt = n]
  <2>1. n \in 0 .. MaxAttempts
    BY <1>1, <1>8, Numbers DEF Claim, Exhausted, NextAttempt, Job
  <2>2. Fresh(job'[j]) /\ \A l \in Jobs \ {j} : job'[l] = job[l]
    <3>1. job' = [job EXCEPT ![j] = [Beating(job[j], "running") EXCEPT !.attempts = n]]
      BY <1>8 DEF Claim
    <3> HIDE DEF n
    <3> QED  BY <1>1, <2>1, <3>1, BeatingFresh DEF TypeOK
  <2>3. indexer'[i] = s /\ s.pc = "extract" /\ s.job = j
    BY <1>1, <1>8 DEF Claim, TypeOK, Indexer
  <2>4. \A k \in Indexers : InFlight(k) => indexer[k].job # j /\ indexer[k].job \in Jobs
    BY <1>8 DEF AllAlone, Alone, Held, Claim, Runs, Placed, InFlight
  <2>5. \A k \in Indexers \ {i} : InFlight(k)' => InFlight(k) /\ indexer'[k] = indexer[k]
    BY <1>6 DEF InFlight
  <2> HIDE DEF s
  <2>6. ASSUME NEW k \in Indexers, InFlight(k)'
        PROVE  Held(indexer'[k].pc, job'[indexer'[k].job])
    <3>1. CASE k = i
      BY <1>4, <2>2, <2>3, <3>1 DEF Held
    <3>2. CASE k # i
      BY <2>2, <2>4, <2>5, <2>6, <3>2 DEF AllAlone, Alone
    <3> QED  BY <3>1, <3>2
  <2>7. ASSUME NEW k \in Indexers, InFlight(k)', NEW l \in Indexers, InFlight(l)',
               indexer'[l].job = indexer'[k].job
        PROVE  l = k
    BY <2>3, <2>4, <2>5, <2>7 DEF AllAlone, Alone
  <2> QED  BY <2>6, <2>7 DEF AllAlone, Alone, Held, Fresh, Repeats, InFlight
<1>9. CASE InFlight(i) /\ ~Claim(i)
  <2>1. \A l \in Jobs \ {j} : job'[l] = job[l]
    BY <1>9
       DEF Run, Decline, GiveUp, Stage, Touched, Embed, Store, Commit, Answer, Raise, Fail,
           FailStoring, Abort, InFlight, TypeOK
  <2>2. CASE Leaves(i)
    BY <1>2, <1>9, <2>1, <2>2, RunAlone DEF Leaves
  <2>3. ASSUME NEW p \in {"failing", "answering"} \cup Working, MovesTo(i, p),
               Held(p, job'[j])
        PROVE  AllAlone'
    BY <1>3, <1>9, <2>1, <2>3, RunAlone DEF MovesTo
  <2>4. CASE (Stage(i) \/ Embed(i)) /\ ~Leaves(i)
    <3>1. PICK p \in {"chunk", "embed", "store", "failing"} : MovesTo(i, p)
      BY <2>4 DEF Stage, Embed
    <3>2. job[j].status # "deleted" => Fresh(job[j])
      BY <1>4, <1>5, <1>9, <2>4 DEF Held, Stage, Embed
    <3>3. \/ job'[j] = job[j]
          \/ job[j].status # "deleted" /\ job'[j] = Beating(job[j], job[j].status)
      <4>1. CASE UNCHANGED job
        BY <4>1
      <4>2. CASE ~UNCHANGED job
        <5>1. Touched(j) /\ job[j].status # "deleted"
          BY <2>4, <4>2 DEF Stage, Embed
        <5> QED  BY <1>1, <5>1 DEF Touched, TypeOK
      <4> QED  BY <4>1, <4>2
    <3>4. job[j].status = "deleted" \/ Fresh(job'[j])
      BY <1>1, <3>2, <3>3, BeatingFresh DEF Fresh
    <3>5. Held(p, job'[j])
      BY <1>4, <3>3, <3>4 DEF Held
    <3> QED  BY <1>4, <2>3, <3>1, <3>5
  <2>5. CASE Store(i) /\ ~Leaves(i)
    <3>1. job' = job /\ job[j].status # "deleted" /\ Fresh(job[j])
      BY <1>4, <1>5, <1>9, <2>5 DEF Held, Store
    <3>2. CASE MovesTo(i, "failing")
      BY <2>3, <3>1, <3>2 DEF Held
    <3>3. CASE indexer' = [indexer EXCEPT ![i].pc = "insert", ![i].seen = chunks]
      <4> DEFINE s == [indexer[i] EXCEPT !.pc = "insert", !.seen = chunks]
      <4>1. s.pc = "insert" /\ s.job = j /\ indexer' = [indexer EXCEPT ![i] = s]
        BY <1>1, <3>3 DEF Indexer
      <4> HIDE DEF s
      <4> QED  BY <1>4, <1>9, <2>1, <3>1, <4>1, RunAlone DEF Held
    <3> QED  BY <2>5, <3>2, <3>3 DEF Store
  <2>6. CASE Commit(i)
    <3> DEFINE s == [indexer[i] EXCEPT !.pc = "answering", !.seen = {}]
    <3>1. job'[j] = Beating(job[j], "completed")
      BY <1>1, <2>6 DEF Commit, TypeOK
    <3>2. s.pc = "answering" /\ s.job = j /\ indexer' = [indexer EXCEPT ![i] = s]
      BY <1>1, <2>6 DEF Indexer, Commit
    <3> HIDE DEF s
    <3>3. Held(s.pc, job'[j])
      BY <1>1, <3>1, <3>2, BeatingFresh DEF Held
    <3> QED  BY <1>9, <2>1, <3>2, <3>3, RunAlone
  <2>7. CASE Raise(i)
    <3>1. job' = job /\ MovesTo(i, "failing") /\ Held("failing", job[j])
      BY <1>4, <1>5, <1>9, <2>7 DEF Raise, Held
    <3> QED  BY <2>3, <3>1
  <2> QED
    BY <1>9, <2>2, <2>4, <2>5, <2>6, <2>7
       DEF Run, Decline, GiveUp, Answer, Fail, FailStoring, Abort
<1> QED  BY <1>7, <1>8, <1>9

\* An undisturbed step leaves whoever is in flight alone.
LEMMA UndisturbedStep ==
  ASSUME TypeOK, Runs, Undisturbed, [Next]_vars
  PROVE  Undisturbed'
<1> SUFFICES ASSUME ~disturbed' PROVE AllAlone'
  BY DEF Undisturbed
<1>1. ~disturbed
  <2>1. CASE Tick
    <3> DEFINE late == \E i \in Indexers : Live(i) /\ job[indexer[i].job].left = 1
    <3>1. disturbed' = (disturbed \/ late)
      BY <2>1, Zenon DEF Tick
    <3> HIDE DEF late
    <3> QED  BY <3>1, Zenon
  <2>2. ASSUME NEW j \in Jobs, WriteCancel(j) \/ DeadLetter(j) PROVE ~disturbed
    <3> DEFINE struck == UnderRun(j)
    <3>1. disturbed' = disturbed \/ disturbed' = (disturbed \/ struck)
      BY <2>2, Zenon DEF WriteCancel, DeadLetter
    <3> HIDE DEF struck
    <3> QED  BY <3>1, Zenon
  <2>3. ASSUME ~Tick, \A j \in Jobs : ~WriteCancel(j) /\ ~DeadLetter(j)
        PROVE  disturbed' = disturbed
    <3>1. ASSUME NEW i \in Indexers, Run(i) PROVE disturbed' = disturbed
      BY <3>1
         DEF Run, Decline, GiveUp, Claim, Stage, Embed, Store, Commit, Answer, Raise, Fail,
             FailStoring, Abort
    <3>2. CASE Delete
      BY <3>2
         DEF Delete, FindDocument, HideDocument, SweepJobs, CommitDelete, AbortDelete,
             QueueCleanup, SweepChunks, SweepJobsAgain, CommitCleanup, RetryCleanup
    <3>3. ASSUME NEW j \in Jobs,
                 CheckEnqueue(j) \/ InsertJob(j) \/ Expire(j) \/ CheckCancel(j)
                 \/ \E i \in Indexers : Deliver(i, j)
          PROVE  disturbed' = disturbed
      BY <3>3 DEF CheckEnqueue, InsertJob, Expire, CheckCancel, Deliver
    <3> QED  BY <2>3, <3>1, <3>2, <3>3 DEF Next, vars
  <2> QED  BY <2>1, <2>2, <2>3
<1>2. AllAlone
  BY <1>1 DEF Undisturbed
<1>3. \A k \in Indexers : InFlight(k) => indexer[k].job \in Jobs /\ Given(indexer[k].job)
  BY DEF Runs, Placed, InFlight
<1>4. ASSUME NEW i \in Indexers, Run(i) PROVE AllAlone'
  BY <1>2, <1>4, RunKeepsAlone
<1>5. ASSUME NEW i \in Indexers, NEW j \in Jobs, Deliver(i, j)
      PROVE  AllAlone'
  <2>1. indexer'[i].pc = "found" /\ \A k \in Indexers \ {i} : indexer'[k] = indexer[k]
    BY <1>5 DEF Deliver, TypeOK, Indexer
  <2>2. \A k \in Indexers : InFlight(k)' => InFlight(k) /\ indexer'[k] = indexer[k]
    BY <2>1 DEF InFlight
  <2> QED  BY <1>2, <1>5, <2>2, OthersAlone DEF Deliver
<1>6. ASSUME NEW j \in Jobs, CheckEnqueue(j) \/ InsertJob(j) \/ Expire(j)
      PROVE  AllAlone'
  <2>1. UNCHANGED indexer
    BY <1>6 DEF CheckEnqueue, InsertJob, Expire
  <2>2. ASSUME NEW k \in Indexers, InFlight(k)
        PROVE  \/ job'[indexer[k].job] = job[indexer[k].job]
               \/ job'[indexer[k].job].status = "deleted"
               \/ Fresh(job[indexer[k].job]) /\ Fresh(job'[indexer[k].job])
               \/ Repeats(job[indexer[k].job]) /\ Repeats(job'[indexer[k].job])
    <3>1. CASE indexer[k].job # j
      BY <1>3, <1>6, <2>2, <3>1 DEF CheckEnqueue, InsertJob, Expire, TypeOK
    <3>2. CASE indexer[k].job = j
      <4>1. Expire(j)
        BY <1>3, <1>6, <2>2, <3>2 DEF CheckEnqueue, InsertJob, Given
      <4>2. job'[j] = [job[j] EXCEPT !.expired = TRUE] /\ job[j] \in Job
        BY <4>1 DEF Expire, TypeOK
      <4>3. job'[j].status = job[j].status /\ job'[j].left = job[j].left
        BY <4>2 DEF Job
      <4>4. Held(indexer[k].pc, job[j])
        BY <1>2, <2>2, <3>2 DEF AllAlone, Alone
      <4> QED  BY <3>2, <4>3, <4>4 DEF Held, Fresh, Repeats
    <3> QED  BY <3>1, <3>2
  <2> QED  BY <1>2, <2>1, <2>2, OthersAlone DEF InFlight
<1>7. CASE Tick
  <2>1. UNCHANGED indexer
    BY <1>7 DEF Tick
  <2>2. ASSUME NEW k \in Indexers, InFlight(k)
        PROVE  \/ job'[indexer[k].job].status = "deleted"
               \/ Fresh(job[indexer[k].job]) /\ Fresh(job'[indexer[k].job])
               \/ Repeats(job[indexer[k].job]) /\ Repeats(job'[indexer[k].job])
    <3> DEFINE j == indexer[k].job
               t == IF job[j].left = 0 THEN 0 ELSE job[j].left - 1
    <3>0. j \in Jobs
      BY <1>3, <2>2
    <3>1. job'[j] = [job[j] EXCEPT !.left = t] /\ job[j] \in Job /\ job[j].left \in Nat
      <4>1. job' = [l \in Jobs |-> [job[l] EXCEPT !.left = IF @ = 0 THEN 0 ELSE @ - 1]]
        BY <1>7, Zenon DEF Tick
      <4> QED  BY <3>0, <4>1, Numbers DEF TypeOK, Job
    <3>2. job'[j].status = job[j].status /\ job'[j].left = t
      BY <3>1 DEF Job
    <3>3. Held(indexer[k].pc, job[j])
      BY <1>2, <2>2 DEF AllAlone, Alone
    <3>4. Live(k) => job[j].left # 1
      BY <1>7 DEF Tick
    <3>5. indexer[k].pc \in Working \cup {"failing"} => Live(k)
      BY DEF Live
    <3> QED  BY <3>1, <3>2, <3>3, <3>4, <3>5 DEF Held, Fresh, Repeats
  <2> QED  BY <1>2, <2>1, <2>2, OthersAlone DEF InFlight
<1>8. CASE Delete
  <2>1. UNCHANGED indexer
    BY <1>8
       DEF Delete, FindDocument, HideDocument, SweepJobs, CommitDelete, AbortDelete,
           QueueCleanup, SweepChunks, SweepJobsAgain, CommitCleanup, RetryCleanup
  <2>2. UNCHANGED job \/ \E S \in SUBSET Jobs : job' = Without(S)
    BY <1>8
       DEF Delete, FindDocument, HideDocument, SweepJobs, CommitDelete, AbortDelete,
           QueueCleanup, SweepChunks, SweepJobsAgain, CommitCleanup, RetryCleanup,
           TypeOK, Sweeper
  <2>3. \A k \in Jobs : job'[k] = job[k] \/ job'[k].status = "deleted"
    BY <2>2, NewJobIs DEF Without
  <2> QED  BY <1>2, <1>3, <2>1, <2>3, OthersAlone DEF InFlight
<1>9. ASSUME NEW j \in Jobs, CheckCancel(j) \/ WriteCancel(j) \/ DeadLetter(j)
      PROVE  AllAlone'
  <2>1. UNCHANGED indexer
    BY <1>9, OutsideWrites
  <2>2. ASSUME NEW k \in Indexers, InFlight(k)
        PROVE  \/ job'[indexer[k].job] = job[indexer[k].job]
               \/ Fresh(job[indexer[k].job]) /\ Fresh(job'[indexer[k].job])
               \/ Repeats(job[indexer[k].job]) /\ Repeats(job'[indexer[k].job])
    <3>1. CASE indexer[k].job # j \/ UNCHANGED job
      BY <1>3, <1>9, <2>2, <3>1, OutsideWrites DEF TypeOK
    <3>2. CASE indexer[k].job = j /\ job' # job
      <4>1. UnderRun(j)
        BY <2>2, <3>2 DEF UnderRun, InFlight
      <4>2. DeadLetter(j) /\ Touched(j)
        <5> DEFINE struck == UnderRun(j)
        <5>1. CheckCancel(j) => UNCHANGED job
          BY DEF CheckCancel
        <5>2. WriteCancel(j) => disturbed' = (disturbed \/ struck)
          BY DEF WriteCancel
        <5>3. DeadLetter(j) => Touched(j) \/ disturbed' = (disturbed \/ struck)
          BY DEF DeadLetter
        <5>4. struck
          BY <4>1
        <5> HIDE DEF struck
        <5>5. disturbed' # (disturbed \/ struck)
          BY <5>4, Zenon
        <5> QED  BY <1>9, <3>2, <5>1, <5>2, <5>3, <5>5
      <4>3. job'[j] = Beating(job[j], job[j].status) /\ job[j] \in Job
        BY <4>2 DEF Touched, TypeOK
      <4>4. Held(indexer[k].pc, job[j]) /\ job[j].status # "deleted"
        BY <1>2, <2>2, <3>2, <4>2 DEF AllAlone, Alone, DeadLetter, Stored
      <4>5. CASE Fresh(job[j])
        BY <3>2, <4>3, <4>5, BeatingFresh DEF Fresh
      <4>6. CASE Repeats(job[j])
        BY <3>2, <4>3, <4>6, BeatingFresh DEF Repeats
      <4> QED  BY <4>4, <4>5, <4>6 DEF Held
    <3> QED  BY <3>1, <3>2
  <2> QED  BY <1>2, <2>1, <2>2, OthersAlone DEF InFlight
<1>10. CASE UNCHANGED vars
  BY <1>2, <1>10, OthersAlone DEF vars, InFlight
<1> QED  BY <1>4, <1>5, <1>6, <1>7, <1>8, <1>9, <1>10 DEF Next

\* A step never sets a completed job running, nor brings a deleted one back.
LEMMA ConsumerStep ==
  ASSUME IInv, [Next]_vars, NEW j \in Jobs
  PROVE  /\ job[j].status = "completed" => job'[j].status # "running"
         /\ job[j].status = "deleted" => job'[j].status = "deleted"
<1>1. job \in [Jobs -> Job] /\ job[j] \in Job
  BY DEF IInv, TypeOK
<1>2. CASE UNCHANGED job
  BY <1>2
<1>3. ASSUME NEW k \in Jobs, NEW s \in JobStatus, job' = [job EXCEPT ![k] = Beating(job[k], s)],
             job[k].status # "deleted", s # "running" \/ s = job[k].status
      PROVE  /\ job[j].status = "completed" => job'[j].status # "running"
             /\ job[j].status = "deleted" => job'[j].status = "deleted"
  <2>1. Beating(job[k], s).status = s
    BY <1>1, BeatingIs
  <2>2. job'[j] = IF j = k THEN Beating(job[k], s) ELSE job[j]
    BY <1>1, <1>3
  <2> QED  BY <1>3, <2>1, <2>2
<1>4. ASSUME NEW i \in Indexers, Run(i), job' # job
      PROVE  /\ job[j].status = "completed" => job'[j].status # "running"
             /\ job[j].status = "deleted" => job'[j].status = "deleted"
  <2> DEFINE k == indexer[i].job
  <2>1. k \in Jobs /\ job[k] \in Job
    BY <1>4, RunIs
       DEF IInv, Run, Decline, GiveUp, Claim, Stage, Embed, Store, Commit, Answer, Raise, Fail,
           FailStoring, Abort
  <2>2. CASE Claim(i)
    <3>1. job[k].status \notin {"completed", "deleted"} /\ \A l \in Jobs \ {k} : job'[l] = job[l]
      BY <1>1, <2>2 DEF Claim, Repeats
    <3> QED  BY <3>1
  <2>3. CASE ~Claim(i)
    <3>1. job[k].status # "deleted"
      BY <1>4, <2>3
         DEF IInv, Runs, Placed, Run, Decline, GiveUp, Stage, Embed, Store, Commit, Answer,
             Raise, Fail, FailStoring, Abort
    <3>2. \E s \in {"failed", "completed", job[k].status} :
            job' = [job EXCEPT ![k] = Beating(job[k], s)]
      BY <1>4, <2>3
         DEF Run, Decline, GiveUp, Stage, Touched, Embed, Store, Commit, Answer, Raise, Fail,
             FailStoring, Abort
    <3>3. \A s \in {"failed", "completed", job[k].status} :
            s \in JobStatus /\ (s # "running" \/ s = job[k].status)
      BY <2>1 DEF Job, JobStatus
    <3> QED  BY <1>3, <2>1, <3>1, <3>2, <3>3
  <2> QED  BY <2>2, <2>3
<1>5. CASE Tick \/ \E k \in Jobs : CheckEnqueue(k) \/ InsertJob(k) \/ Expire(k)
  BY <1>1, <1>5, NewJobIs DEF Tick, CheckEnqueue, InsertJob, Expire, Job
<1>6. ASSUME NEW k \in Jobs, CheckCancel(k) \/ WriteCancel(k) \/ DeadLetter(k), job' # job
      PROVE  /\ job[j].status = "completed" => job'[j].status # "running"
             /\ job[j].status = "deleted" => job'[j].status = "deleted"
  BY <1>3, <1>6, OutsideWrites DEF IInv
<1>7. CASE Delete
  <2>1. UNCHANGED job \/ \E S \in SUBSET Jobs : job' = Without(S)
    BY <1>7
       DEF Delete, FindDocument, HideDocument, SweepJobs, CommitDelete, AbortDelete,
           QueueCleanup, SweepChunks, SweepJobsAgain, CommitCleanup, RetryCleanup,
           IInv, TypeOK, Sweeper
  <2>2. ASSUME NEW S \in SUBSET Jobs, job' = Without(S)
        PROVE  job'[j] = job[j] \/ job'[j].status = "deleted"
    <3>1. [NewJob EXCEPT !.status = "deleted"].status = "deleted"
      BY NewJobIs
    <3> QED  BY <2>2, <3>1 DEF Without
  <2> QED  BY <2>1, <2>2
<1> QED  BY <1>2, <1>4, <1>5, <1>6, <1>7 DEF Next, Deliver, vars

-----------------------------------------------------------------------------
(* The cleanup after a deletion                                            *)

\* The jobs the deletion found are gone once it has committed, the cleanup runs only
\* then, and what it has not seen when it deletes chunks was made by other jobs.
Swept ==
  /\ owner.pc \in {"committed", "done"} => \A j \in owner.jobs : job[j].status = "deleted"
  /\ cleaner.pc # "idle" => owner.pc = "done"
  /\ cleaner.pc \in {"chunks", "sweeping"} =>
       \A c \in chunks : c.job \in owner.jobs => c \in cleaner.seen
  /\ CleanupLeavesNothing

\* Deleting jobs and chunks leaves nothing of the jobs the deletion found.
LEMMA SweptDelete ==
  ASSUME TypeOK, Swept, Delete
  PROVE  Swept'
<1>1. owner \in Sweeper /\ cleaner \in Sweeper /\ IdleSweeper.pc = "idle"
  BY DEF TypeOK, IdleSweeper
<1>2. \A p \in {"found", "hidden", "queued", "done", "committed"}, w \in Sweeper :
        [w EXCEPT !.pc = p].pc = p /\ [w EXCEPT !.pc = p].jobs = w.jobs
  BY DEF Sweeper
<1>3. CASE FindDocument \/ HideDocument \/ SweepJobs \/ AbortDelete
  <2>1. owner.pc \notin {"committed", "done"} /\ owner'.pc \notin {"committed", "done"}
    <3>1. [owner EXCEPT !.pc = "sweeping", !.jobs = Stored].pc = "sweeping"
      BY <1>1 DEF Sweeper
    <3> QED  BY <1>1, <1>2, <1>3, <3>1 DEF FindDocument, HideDocument, SweepJobs, AbortDelete
  <2>2. cleaner.pc = "idle" /\ UNCHANGED cleaner
    BY <1>3, <2>1 DEF Swept, FindDocument, HideDocument, SweepJobs, AbortDelete
  <2> QED  BY <2>1, <2>2 DEF Swept, CleanupLeavesNothing
<1>4. CASE CommitDelete
  <2>1. owner'.pc = "committed" /\ owner'.jobs = owner.jobs /\ cleaner.pc = "idle"
    BY <1>1, <1>2, <1>4 DEF CommitDelete, Swept
  <2>2. \A j \in owner.jobs : job'[j].status = "deleted"
    BY <1>1, <1>4, NewJobIs DEF CommitDelete, Without, Sweeper
  <2> QED  BY <1>4, <2>1, <2>2 DEF CommitDelete, Swept, CleanupLeavesNothing
<1>5. CASE QueueCleanup
  <2>1. owner'.pc = "done" /\ owner'.jobs = owner.jobs /\ cleaner.pc = "idle"
    BY <1>1, <1>2, <1>5 DEF QueueCleanup, Swept
  <2>2. cleaner'.pc \in {"queued", "idle"}
    <3>1. cleaner' = [cleaner EXCEPT !.pc = "queued"] \/ cleaner' = cleaner
      BY <1>5 DEF QueueCleanup
    <3>2. [cleaner EXCEPT !.pc = "queued"].pc = "queued"
      BY <1>1, <1>2
    <3> QED  BY <2>1, <3>1, <3>2
  <2> QED  BY <1>5, <2>1, <2>2 DEF QueueCleanup, Swept, CleanupLeavesNothing
<1>6. CASE SweepChunks
  <2>1. cleaner'.pc = "chunks" /\ cleaner'.seen = chunks
    BY <1>1, <1>6 DEF SweepChunks, Sweeper
  <2> QED  BY <1>6, <2>1 DEF SweepChunks, Swept, CleanupLeavesNothing
<1>7. CASE SweepJobsAgain
  <2>1. cleaner'.pc = "sweeping" /\ cleaner'.seen = cleaner.seen
    BY <1>1, <1>7 DEF SweepJobsAgain, Sweeper
  <2> QED  BY <1>7, <2>1 DEF SweepJobsAgain, Swept, CleanupLeavesNothing
<1>8. CASE CommitCleanup
  <2>1. cleaner'.pc = "done"
    BY <1>8 DEF CommitCleanup, IdleSweeper
  <2>2. owner.pc = "done" /\ UNCHANGED owner /\ chunks' = chunks \ cleaner.seen
    BY <1>8 DEF CommitCleanup, Swept
  <2>3. \A j \in owner.jobs : job'[j].status = "deleted"
    <3>1. owner.jobs \subseteq Jobs
      BY <1>1 DEF Sweeper
    <3>2. \A j \in Jobs : job'[j] = job[j] \/ job'[j].status = "deleted"
      BY <1>8, NewJobIs DEF CommitCleanup, Without
    <3> QED  BY <2>2, <3>1, <3>2 DEF Swept
  <2>4. \A c \in chunks' : c.job \notin owner.jobs
    BY <1>8, <2>2 DEF Swept, CommitCleanup
  <2> QED  BY <2>1, <2>2, <2>3, <2>4 DEF Swept, CleanupLeavesNothing
<1>9. CASE RetryCleanup
  <2>1. cleaner'.pc = "queued" /\ owner.pc = "done"
    BY <1>9 DEF RetryCleanup, IdleSweeper, Swept
  <2> QED  BY <1>9, <2>1 DEF RetryCleanup, Swept, CleanupLeavesNothing
<1> QED  BY <1>3, <1>4, <1>5, <1>6, <1>7, <1>8, <1>9 DEF Delete

\* A run stores chunks only while it holds the lock of a job that is there, so none of
\* the jobs the deletion found.
LEMMA SweptStep ==
  ASSUME IInv, Swept, [Next]_vars
  PROVE  Swept'
<1>0. TypeOK /\ Runs
  BY DEF IInv
<1>1. CASE Delete
  BY <1>0, <1>1, SweptDelete
<1>2. CASE ~Delete
  <2>1. UNCHANGED <<owner, cleaner>>
    BY <1>2
       DEF Next, Run, Decline, GiveUp, Claim, Stage, Embed, Store, Commit, Answer, Raise, Fail,
           FailStoring, Abort, Deliver, CheckEnqueue, InsertJob, Expire, CheckCancel,
           WriteCancel, DeadLetter, Tick, vars
  <2>2. owner.jobs \subseteq Jobs
    BY <1>0 DEF TypeOK, Sweeper
  <2>3. \A j \in Jobs : job[j].status = "deleted" => job'[j].status = "deleted"
    BY ConsumerStep
  <2>4. ASSUME NEW c \in chunks', owner.pc \in {"committed", "done"}, c.job \in owner.jobs
        PROVE  c \in chunks
    <3>1. CASE chunks' = chunks
      BY <3>1
    <3>2. ASSUME NEW i \in Indexers, Commit(i) \/ FailStoring(i) PROVE c \in chunks
      <4>1. job[indexer[i].job].status # "deleted"
        BY <1>0, <3>2 DEF Runs, Placed, Commit, FailStoring
      <4>2. c \in chunks \/ c.job = indexer[i].job
        BY <3>2 DEF Commit, FailStoring, Made
      <4> QED  BY <2>4, <4>1, <4>2 DEF Swept
    <3> QED
      BY <1>2, <3>1, <3>2
         DEF Next, Run, Decline, GiveUp, Claim, Stage, Embed, Store, Answer, Raise, Fail, Abort,
             Deliver, CheckEnqueue, InsertJob, Expire, CheckCancel, WriteCancel,
             DeadLetter, Tick, vars
  <2> QED  BY <2>1, <2>2, <2>3, <2>4 DEF Swept, CleanupLeavesNothing
<1> QED  BY <1>1, <1>2
-----------------------------------------------------------------------------
(* The document implements Publication                                     *)

\* A job that was not inserted has not begun an attempt.
Unbegun == \A j \in Jobs : ~Given(j) => job[j].attempts = 0

\* Jobs that are neither claimed nor deleted have the attempts they had, and those
\* that were inserted stay so.
CountsStay ==
  \A j \in Jobs : /\ job'[j].attempts = job[j].attempts
                  /\ job'[j].status = "deleted" <=> job[j].status = "deleted"
                  /\ Given(j) => job'[j].status \notin {"absent", "checked"}

\* A row that is there is written.
LEMMA WritingCounts ==
  ASSUME job \in [Jobs -> Job], NEW j \in Jobs, job[j].status # "deleted",
         NEW s \in JobStatus \ {"absent", "checked", "deleted"},
         job' = [job EXCEPT ![j] = Beating(job[j], s)]
  PROVE  CountsStay
<1>1. Beating(job[j], s).status = s /\ Beating(job[j], s).attempts = job[j].attempts
  BY BeatingIs
<1>2. \A k \in Jobs : job'[k] = IF k = j THEN Beating(job[j], s) ELSE job[k]
  OBVIOUS
<1> QED  BY <1>1, <1>2 DEF CountsStay, Given

\* A run's writes to its job, the claim apart.
LEMMA RunCounts ==
  ASSUME TypeOK, Runs, NEW i \in Indexers, Run(i), ~Claim(i)
  PROVE  CountsStay
<1> DEFINE j == indexer[i].job
<1>1. CASE UNCHANGED job
  BY <1>1 DEF CountsStay, Given
<1>2. CASE job' # job
  <2>1. j \in Jobs /\ job[j] \in Job /\ Given(j) /\ job \in [Jobs -> Job]
    BY <1>2, RunIs
       DEF TypeOK, Run, Decline, GiveUp, Claim, Stage, Embed, Store, Commit, Answer, Raise, Fail,
           FailStoring, Abort
  <2>2. job[j].status # "deleted"
    BY <1>2
       DEF Runs, Placed, Run, Decline, GiveUp, Stage, Embed, Store, Commit, Answer, Raise, Fail,
           FailStoring, Abort
  <2>3. \E s \in {"failed", "completed", job[j].status} :
          job' = [job EXCEPT ![j] = Beating(job[j], s)]
    BY <1>2
       DEF Run, Decline, GiveUp, Stage, Touched, Embed, Store, Commit, Answer, Raise, Fail,
           FailStoring, Abort
  <2>4. \A s \in {"failed", "completed", job[j].status} : s \in JobStatus \ {"absent", "checked", "deleted"}
    BY <2>1, <2>2 DEF Job, JobStatus, Given
  <2> QED  BY <2>1, <2>2, <2>3, <2>4, WritingCounts
<1> QED  BY <1>1, <1>2

\* The requests, the clock, the operator and the outbox.
LEMMA OthersCount ==
  ASSUME TypeOK, Unbegun,
         \/ \E j \in Jobs : \/ CheckEnqueue(j) \/ InsertJob(j) \/ Expire(j)
                            \/ CheckCancel(j) \/ WriteCancel(j) \/ DeadLetter(j)
         \/ Tick
  PROVE  CountsStay
<1>1. job \in [Jobs -> Job]
  BY DEF TypeOK
<1>2. ASSUME NEW j \in Jobs, CheckEnqueue(j) \/ Expire(j) PROVE CountsStay
  BY <1>1, <1>2 DEF CheckEnqueue, Expire, CountsStay, Given, Job
<1>3. ASSUME NEW j \in Jobs, InsertJob(j) PROVE CountsStay
  <2>1. job[j].attempts = 0 /\ job[j].status = "checked"
    BY <1>3 DEF InsertJob, Unbegun, Given
  <2>2. NewJob.attempts = 0 /\ NewJob.status = "pending"
    BY DEF NewJob
  <2>3. \A k \in Jobs : job'[k] = IF k = j THEN NewJob ELSE job[k]
    BY <1>1, <1>3 DEF InsertJob
  <2> QED  BY <2>1, <2>2, <2>3 DEF CountsStay, Given
<1>4. ASSUME NEW j \in Jobs, CheckCancel(j) \/ WriteCancel(j) \/ DeadLetter(j) PROVE CountsStay
  <2>1. CASE UNCHANGED job
    BY <2>1 DEF CountsStay, Given
  <2>2. CASE job' # job
    <3>1. PICK s \in JobStatus \ {"absent", "checked", "deleted"} :
            job[j].status # "deleted" /\ job' = [job EXCEPT ![j] = Beating(job[j], s)]
      BY <1>4, <2>2, OutsideWrites
    <3> QED  BY <1>1, <3>1, WritingCounts
  <2> QED  BY <2>1, <2>2
<1>5. CASE Tick
  <2>1. job' = [l \in Jobs |-> [job[l] EXCEPT !.left = IF @ = 0 THEN 0 ELSE @ - 1]]
    BY <1>5, Zenon DEF Tick
  <2>2. \A j \in Jobs : job'[j].attempts = job[j].attempts /\ job'[j].status = job[j].status
    BY <1>1, <2>1 DEF Job
  <2> QED  BY <2>2 DEF CountsStay, Given
<1> QED  BY <1>2, <1>3, <1>4, <1>5
-----------------------------------------------------------------------------
\* The runs at work when one of them moves: the same ones, one fewer, or one more.
LEMMA AtWork ==
  ASSUME indexer \in [Indexers -> Indexer], Distinct, NEW i \in Indexers, NEW s \in Indexer,
         indexer' = [indexer EXCEPT ![i] = s]
  PROVE  LET n == <<indexer[i].job, indexer[i].attempt>>
         IN /\ /\ indexer[i].pc \in Working <=> s.pc \in Working
               /\ s.pc \in Working => s.job = indexer[i].job /\ s.attempt = indexer[i].attempt
               => atWork' = atWork
            /\ indexer[i].pc \in Working => n \in atWork
            /\ indexer[i].pc \in Working /\ s.pc \notin Working => atWork' = atWork \ {n}
            /\ indexer[i].pc \notin Working /\ s.pc \in Working
                 => atWork' = atWork \cup {<<s.job, s.attempt>>}
<1> DEFINE n == <<indexer[i].job, indexer[i].attempt>>
<1>1. \A k \in Indexers : indexer'[k] = IF k = i THEN s ELSE indexer[k]
  OBVIOUS
<1>2. \A x : x \in atWork <=> \E k \in Indexers : /\ indexer[k].pc \in Working
                                                 /\ x = <<indexer[k].job, indexer[k].attempt>>
  BY DEF atWork
<1>3. \A x : x \in atWork' <=> \E k \in Indexers : /\ indexer'[k].pc \in Working
                                                  /\ x = <<indexer'[k].job, indexer'[k].attempt>>
  BY DEF atWork
<1>4. \A k \in Indexers \ {i} : indexer[i].pc \in Working /\ indexer[k].pc \in Working
        => n # <<indexer[k].job, indexer[k].attempt>>
  BY DEF Distinct, InFlight, Working
<1>5. indexer[i].pc \in Working => n \in atWork
  BY <1>2
<1>6. ASSUME indexer[i].pc \in Working <=> s.pc \in Working,
             s.pc \in Working => s.job = indexer[i].job /\ s.attempt = indexer[i].attempt
      PROVE  atWork' = atWork
  <2>1. \A x : x \in atWork' <=> x \in atWork
    BY <1>1, <1>2, <1>3, <1>6
  <2> QED  BY <2>1
<1>7. ASSUME indexer[i].pc \in Working, s.pc \notin Working
      PROVE  atWork' = atWork \ {n}
  <2>1. \A x : x \in atWork' <=> x \in atWork \ {n}
    BY <1>1, <1>2, <1>3, <1>4, <1>7
  <2> QED  BY <2>1
<1>8. ASSUME indexer[i].pc \notin Working, s.pc \in Working
      PROVE  atWork' = atWork \cup {<<s.job, s.attempt>>}
  <2>1. \A x : x \in atWork' <=> x \in atWork \cup {<<s.job, s.attempt>>}
    BY <1>1, <1>2, <1>3, <1>8
  <2> QED  BY <2>1
<1> QED  BY <1>5, <1>6, <1>7, <1>8

\* The jobs count as they did.
LEMMA BegunStays == ASSUME CountsStay PROVE begun' = begun
  BY DEF CountsStay, begun

\* The runs of the document as the abstract specification has them.
Moves == [Search!Next]_<<shown, atWork, begun, doc.deleted>>

\* A step in which no run begins or publishes, nor anything is deleted.
LEMMA RunsDwindle ==
  ASSUME begun' = begun, doc'.deleted = doc.deleted, shown' = shown \/ shown' = {},
         atWork' = atWork \/ \E n \in atWork : atWork' = atWork \ {n}
  PROVE  Moves
<1>1. CASE atWork' = atWork /\ shown' = shown
  BY <1>1 DEF Moves
<1>2. CASE atWork' = atWork /\ shown' = {}
  <2>1. Search!Hide
    BY <1>2 DEF Search!Hide
  <2> QED  BY <2>1 DEF Moves, Search!Next
<1>3. CASE \E n \in atWork : atWork' = atWork \ {n}
  <2>1. PICK n \in atWork : atWork' = atWork \ {n}
    BY <1>3
  <2>2. Search!Lose(n)
    BY <2>1 DEF Search!Lose
  <2> QED  BY <2>2 DEF Moves, Search!Next
<1> QED  BY <1>1, <1>2, <1>3

\* What the document shows is settled by its row and its chunks.
LEMMA ShownIs ==
  /\ UNCHANGED <<doc, chunks>> => shown' = shown
  /\ doc'.status # "indexed" \/ doc'.deleted => shown' = {}
  BY DEF shown

\* A run's steps, the claim and the commit apart.
LEMMA RunDwindles ==
  ASSUME TypeOK, Runs, NEW i \in Indexers, Run(i), ~Claim(i), ~Commit(i)
  PROVE  Moves
<1> DEFINE r == indexer[i]
<1>1. begun' = begun
  BY RunCounts, BegunStays
<1>2. doc'.deleted = doc.deleted /\ (shown' = shown \/ shown' = {})
  <2>1. UNCHANGED <<doc, chunks>> \/ \E s \in {"working", "failed"} : doc' = [doc EXCEPT !.status = s]
    BY DEF Run, Decline, GiveUp, Stage, Embed, Store, Answer, Raise, Fail, FailStoring, Abort
  <2>2. \A s \in {"working", "failed"} :
          [doc EXCEPT !.status = s].status = s /\ [doc EXCEPT !.status = s].deleted = doc.deleted
    BY DocWritten
  <2> QED  BY <2>1, <2>2, ShownIs
<1>3. \E s \in Indexer :
        /\ indexer' = [indexer EXCEPT ![i] = s]
        /\ s.pc \in Working => /\ indexer[i].pc \in Working
                               /\ s.job = indexer[i].job /\ s.attempt = indexer[i].attempt
  <2>1. CASE Leaves(i)
    <3>1. IdleIndexer \in Indexer /\ IdleIndexer.pc \notin Working
      BY Numbers DEF IdleIndexer, Indexer, Working
    <3> QED  BY <2>1, <3>1 DEF Leaves
  <2>2. CASE Stage(i) /\ ~Leaves(i)
    <3>1. PICK p \in {"chunk", "embed", "failing"} : MovesTo(i, p)
      BY <2>2 DEF Stage
    <3> DEFINE s == [indexer[i] EXCEPT !.pc = p]
    <3>2. s \in Indexer /\ s.job = indexer[i].job /\ s.attempt = indexer[i].attempt
      BY RunIs DEF Working
    <3>3. indexer[i].pc \in Working
      BY <2>2 DEF Stage, Working
    <3>4. indexer' = [indexer EXCEPT ![i] = s]
      BY <3>1 DEF MovesTo
    <3> HIDE DEF s
    <3> QED  BY <3>2, <3>3, <3>4
  <2>3. CASE Embed(i)
    <3> DEFINE s == [indexer[i] EXCEPT !.pc = "store"]
    <3>1. s \in Indexer /\ s.job = indexer[i].job /\ s.attempt = indexer[i].attempt
      BY RunIs DEF Working
    <3>2. indexer[i].pc \in Working /\ indexer' = [indexer EXCEPT ![i] = s]
      BY <2>3 DEF Embed, MovesTo, Working
    <3> HIDE DEF s
    <3> QED  BY <3>1, <3>2
  <2>4. CASE Store(i) /\ ~Leaves(i)
    <3>1. CASE MovesTo(i, "failing")
      <4> DEFINE s == [indexer[i] EXCEPT !.pc = "failing"]
      <4>1. s \in Indexer /\ s.pc \notin Working
        <5>1. s \in Indexer /\ s.pc = "failing"
          BY RunIs
        <5>2. "failing" \notin Working
          BY DEF Working
        <5> HIDE DEF s
        <5> QED  BY <5>1, <5>2
      <4>2. indexer' = [indexer EXCEPT ![i] = s]
        BY <3>1 DEF MovesTo
      <4> HIDE DEF s
      <4> QED  BY <4>1, <4>2
    <3>2. CASE ~MovesTo(i, "failing")
      <4> DEFINE s == [indexer[i] EXCEPT !.pc = "insert", !.seen = chunks]
      <4>1. indexer[i] \in Indexer /\ chunks \in SUBSET Chunks
        BY RunIs DEF TypeOK
      <4>2. s \in Indexer /\ s.job = indexer[i].job /\ s.attempt = indexer[i].attempt
        BY <4>1 DEF Indexer, Working
      <4>3. indexer[i].pc \in Working /\ indexer' = [indexer EXCEPT ![i] = s]
        BY <2>4, <3>2 DEF Store, Working
      <4> HIDE DEF s
      <4> QED  BY <4>2, <4>3
    <3> QED  BY <3>1, <3>2
  <2>5. CASE Raise(i)
    <3> DEFINE s == [indexer[i] EXCEPT !.pc = "failing"]
    <3>1. s \in Indexer /\ s.pc \notin Working
      <4>1. s \in Indexer /\ s.pc = "failing"
        BY RunIs
      <4>2. "failing" \notin Working
        BY DEF Working
      <4> HIDE DEF s
      <4> QED  BY <4>1, <4>2
    <3>2. indexer' = [indexer EXCEPT ![i] = s]
      BY <2>5 DEF Raise, MovesTo
    <3> HIDE DEF s
    <3> QED  BY <3>1, <3>2
  <2> QED
    BY <2>1, <2>2, <2>3, <2>4, <2>5
       DEF Run, Decline, GiveUp, Answer, Fail, FailStoring, Abort
<1>4. PICK s \in Indexer :
        /\ indexer' = [indexer EXCEPT ![i] = s]
        /\ s.pc \in Working => /\ indexer[i].pc \in Working
                               /\ s.job = indexer[i].job /\ s.attempt = indexer[i].attempt
  BY <1>3
<1>5. atWork' = atWork \/ \E n \in atWork : atWork' = atWork \ {n}
  BY <1>4, AtWork DEF TypeOK, Runs
<1> QED  BY <1>1, <1>2, <1>5, RunsDwindle

\* A claim begins the job's next attempt.
LEMMA ClaimBegins ==
  ASSUME TypeOK, Runs, NEW i \in Indexers, Claim(i)
  PROVE  Moves
<1> DEFINE j == indexer[i].job
           n == NextAttempt(job[j])
           k == [Beating(job[j], "running") EXCEPT !.attempts = n]
           s == [indexer[i] EXCEPT !.pc = "extract", !.attempt = n]
<1>1. j \in Jobs /\ job[j] \in Job /\ indexer[i] \in Indexer
  BY RunIs DEF Claim
<1>2. n \in 0 .. MaxAttempts /\ n = job[j].attempts + 1 /\ job[j].attempts < MaxAttempts
  BY <1>1, Numbers DEF Claim, Exhausted, NextAttempt, Job
<1>3. k.status = "running" /\ k.attempts = n
  <2>1. Beating(job[j], "running") \in Job /\ Beating(job[j], "running").status = "running"
    BY <1>1, BeatingIs DEF JobStatus
  <2> HIDE DEF n
  <2> QED  BY <2>1 DEF Job
<1>4. s \in Indexer /\ s.pc \in Working /\ s.job = j /\ s.attempt = n
  <2>1. "extract" \in Working
    BY DEF Working
  <2> HIDE DEF n
  <2> QED  BY <1>1, <1>2, <2>1 DEF Indexer
<1>5. /\ job' = [job EXCEPT ![j] = k] /\ indexer' = [indexer EXCEPT ![i] = s]
      /\ doc' = [doc EXCEPT !.status = "working"]
      /\ job[j].status # "deleted" /\ indexer[i].pc \notin Working
  BY DEF Claim, Working
<1> HIDE DEF k, s, n
<1>6. doc'.deleted = doc.deleted /\ shown' = {}
  BY <1>5, DocWritten, ShownIs
<1>7. atWork' = atWork \cup {<<j, n>>}
  BY <1>4, <1>5, AtWork DEF TypeOK, Runs
<1>8. begun[j] = job[j].attempts
  BY <1>1, <1>5 DEF begun
<1>9. begun' = [begun EXCEPT ![j] = n]
  <2>1. \A l \in Jobs : job'[l] = IF l = j THEN k ELSE job[l]
    BY <1>5 DEF TypeOK
  <2> QED  BY <1>3, <2>1 DEF begun
<1>10. PICK m \in Jobs : m = j
  BY <1>1
<1>11. Search!Begin(m)
  BY <1>2, <1>6, <1>7, <1>8, <1>9, <1>10 DEF Search!Begin
<1> QED  BY <1>11 DEF Moves, Search!Next

\* The commit of a run publishes what it made in the place of what was there, or
\* nothing if the document is deleted.
LEMMA CommitPublishes ==
  ASSUME TypeOK, Runs, NEW i \in Indexers, Commit(i)
  PROVE  Moves
<1> DEFINE s == [indexer[i] EXCEPT !.pc = "answering", !.seen = {}]
<1>1. begun' = begun
  BY RunCounts, BegunStays DEF Run, Commit, Claim
<1>2. doc'.deleted = doc.deleted /\ doc'.status = "indexed"
  BY DocWritten DEF Commit
<1>3. s \in Indexer /\ s.pc \notin Working /\ indexer[i].pc \in Working
      /\ indexer' = [indexer EXCEPT ![i] = s]
  <2>1. s \in Indexer /\ s.pc = "answering"
    BY RunIs DEF Indexer
  <2>2. indexer[i].pc \in Working /\ "answering" \notin Working
    BY DEF Commit, Working
  <2>3. indexer' = [indexer EXCEPT ![i] = s]
    BY DEF Commit
  <2> HIDE DEF s
  <2> QED  BY <2>1, <2>2, <2>3
<1> HIDE DEF s
<1>4. PICK n \in atWork : n = <<indexer[i].job, indexer[i].attempt>> /\ atWork' = atWork \ {n}
  BY <1>3, AtWork DEF TypeOK, Runs
<1>5. CASE doc.deleted
  BY <1>1, <1>2, <1>4, <1>5, ShownIs, RunsDwindle
<1>6. CASE ~doc.deleted
  <2>1. chunks' = {Made(i, TRUE)}
    BY DEF Commit, Conflict
  <2>2. shown' = {<<Made(i, TRUE).job, Made(i, TRUE).attempt>>}
    BY <1>2, <1>6, <2>1 DEF shown
  <2>3. shown' = {n}
    BY <1>4, <2>2 DEF Made
  <2>4. Search!Publish(n)
    BY <1>1, <1>2, <1>4, <1>6, <2>3 DEF Search!Publish
  <2> QED  BY <2>4 DEF Moves, Search!Next
<1> QED  BY <1>5, <1>6

\* Jobs are deleted with the document, or after it.
LEMMA DeleteCloses ==
  ASSUME TypeOK, Deletion, Delete
  PROVE  Moves
<1>1. ASSUME NEW S \in SUBSET Jobs, job' = Without(S), UNCHANGED indexer, doc'.deleted
      PROVE  Moves
  <2>1. \A j \in Jobs : job'[j] = IF j \in S THEN [NewJob EXCEPT !.status = "deleted"] ELSE job[j]
    BY <1>1 DEF Without
  <2>2. begun' = [j \in Jobs |-> IF j \in S THEN MaxAttempts ELSE begun[j]]
    BY <2>1, NewJobIs DEF begun
  <2>3. shown' = {} /\ doc'.deleted = TRUE /\ atWork' = atWork
    BY <1>1, ShownIs DEF atWork, TypeOK, Doc
  <2>4. Search!Delete(S)
    BY <2>2, <2>3 DEF Search!Delete
  <2> QED  BY <2>4 DEF Moves, Search!Next
<1>2. CASE CommitDelete
  <2>1. owner.jobs \in SUBSET Jobs /\ doc'.deleted
    BY <1>2 DEF CommitDelete, TypeOK, Sweeper
  <2> QED  BY <1>1, <1>2, <2>1 DEF CommitDelete
<1>3. CASE CommitCleanup
  <2>1. cleaner.jobs \in SUBSET Jobs /\ doc'.deleted
    BY <1>3 DEF CommitCleanup, TypeOK, Sweeper, Deletion
  <2> QED  BY <1>1, <1>3, <2>1 DEF CommitCleanup
<1>4. CASE ~CommitDelete /\ ~CommitCleanup
  <2>1. UNCHANGED <<doc, job, chunks, indexer>>
    BY <1>4
       DEF Delete, FindDocument, HideDocument, SweepJobs, AbortDelete, QueueCleanup, SweepChunks,
           SweepJobsAgain, RetryCleanup
  <2> QED  BY <2>1 DEF Moves, shown, atWork, begun
<1> QED  BY <1>2, <1>3, <1>4

\* A row that is not inserted keeps its count of none.
LEMMA UnbegunStep ==
  ASSUME IInv, Unbegun, [Next]_vars
  PROVE  Unbegun'
<1>0. TypeOK /\ Runs
  BY DEF IInv
<1>1. CASE CountsStay
  BY <1>1 DEF CountsStay, Unbegun, Given
<1>2. ASSUME NEW i \in Indexers, Claim(i) PROVE Unbegun'
  <2> DEFINE j == indexer[i].job
             n == NextAttempt(job[j])
             k == [Beating(job[j], "running") EXCEPT !.attempts = n]
  <2>1. j \in Jobs /\ job[j] \in Job
    BY <1>0, <1>2, RunIs DEF Claim
  <2>2. Beating(job[j], "running") \in Job /\ Beating(job[j], "running").status = "running"
    BY <2>1, BeatingIs DEF JobStatus
  <2>3. k.status = "running"
    <3> HIDE DEF n
    <3> QED  BY <2>2 DEF Job
  <2>4. job' = [job EXCEPT ![j] = k]
    BY <1>2 DEF Claim
  <2> HIDE DEF k
  <2>5. \A l \in Jobs : job'[l] = IF l = j THEN k ELSE job[l]
    BY <1>0, <2>4 DEF TypeOK
  <2> QED  BY <2>3, <2>5 DEF Unbegun, Given
<1>3. CASE Delete
  <2>1. \A j \in Jobs : job'[j] = job[j] \/ job'[j].status = "deleted"
    BY <1>3, NewJobIs
       DEF Delete, FindDocument, HideDocument, SweepJobs, CommitDelete, AbortDelete,
           QueueCleanup, SweepChunks, SweepJobsAgain, CommitCleanup, RetryCleanup, Without
  <2> QED  BY <2>1 DEF Unbegun, Given
<1>4. CASE UNCHANGED job
  BY <1>4 DEF Unbegun, Given
<1> QED  BY <1>0, <1>1, <1>2, <1>3, <1>4, RunCounts, OthersCount DEF Next, Deliver, vars

\* Every step is one of Publication, or none.
LEMMA StepPublishes ==
  ASSUME IInv, Unbegun, [Next]_vars
  PROVE  Moves
<1>0. TypeOK /\ Runs /\ Deletion
  BY DEF IInv
<1>1. ASSUME NEW i \in Indexers, Run(i) PROVE Moves
  BY <1>0, <1>1, RunDwindles, ClaimBegins, CommitPublishes
<1>2. CASE Delete
  BY <1>0, <1>2, DeleteCloses
<1>3. ASSUME CountsStay, UNCHANGED <<doc, chunks, indexer>> PROVE Moves
  <2>1. begun' = begun /\ shown' = shown /\ atWork' = atWork
    BY <1>3, BegunStays, ShownIs DEF atWork
  <2> QED  BY <1>3, <2>1 DEF Moves
<1>4. CASE \/ \E j \in Jobs : \/ CheckEnqueue(j) \/ InsertJob(j) \/ Expire(j)
                              \/ CheckCancel(j) \/ WriteCancel(j) \/ DeadLetter(j)
           \/ Tick
  BY <1>0, <1>3, <1>4, OthersCount
     DEF CheckEnqueue, InsertJob, Expire, CheckCancel, WriteCancel, DeadLetter, Tick
<1>5. ASSUME NEW i \in Indexers, NEW j \in Jobs, Deliver(i, j) PROVE Moves
  <2> DEFINE s == [indexer[i] EXCEPT !.pc = "found", !.job = j]
  <2>1. s \in Indexer /\ s.pc \notin Working /\ indexer[i].pc \notin Working
    BY <1>0, <1>5 DEF TypeOK, Deliver, Indexer, Working
  <2>2. indexer' = [indexer EXCEPT ![i] = s]
    BY <1>5 DEF Deliver
  <2> HIDE DEF s
  <2>3. atWork' = atWork
    BY <1>0, <2>1, <2>2, AtWork DEF TypeOK, Runs
  <2>4. begun' = begun /\ shown' = shown /\ doc' = doc
    BY <1>5, ShownIs DEF Deliver, begun
  <2> QED  BY <2>3, <2>4 DEF Moves
<1>6. CASE UNCHANGED vars
  BY <1>6 DEF vars, Moves, shown, atWork, begun
<1> QED  BY <1>1, <1>2, <1>4, <1>5, <1>6 DEF Next

-----------------------------------------------------------------------------
(* The specification                                                       *)

\* The invariant holds when the upload has committed.
LEMMA IInvInit == Init => IInv
<1> SUFFICES ASSUME Init PROVE IInv
  OBVIOUS
<1>1. job \in [Jobs -> Job]
  BY NewJobIs DEF Init
<1>2. IdleIndexer \in Indexer /\ IdleIndexer.pc = "idle"
  BY Numbers DEF IdleIndexer, Indexer
<1>3. indexer \in [Indexers -> Indexer] /\ \A i \in Indexers : indexer[i].pc = "idle"
  BY <1>2 DEF Init
<1>4. IdleSweeper \in Sweeper /\ IdleSweeper.pc = "idle"
  BY DEF IdleSweeper, Sweeper
<1>5. TypeOK
  BY <1>1, <1>3, <1>4 DEF Init, TypeOK, Doc
<1>6. Runs
  BY <1>3 DEF Runs, Distinct, Placed, InFlight
<1> QED  BY <1>4, <1>5, <1>6 DEF Init, IInv, Deletion, IndexedIsWhole

\* Every step keeps the invariant.
LEMMA IInvStep == IInv /\ [Next]_vars => IInv'
<1> SUFFICES ASSUME IInv, [Next]_vars PROVE IInv'
  OBVIOUS
<1>1. CASE UNCHANGED vars
  <2>1. JobsKeep /\ TypeOK'
    BY <1>1, JobsStay DEF vars, IInv, TypeOK
  <2>2. Runs'
    BY <1>1, <2>1, RunsStay DEF vars, IInv, TypeOK
  <2> QED  BY <1>1, <2>1, <2>2 DEF vars, IInv, Deletion, IndexedIsWhole
<1>2. CASE Next
  <2>1. TypeOK /\ Runs
    BY DEF IInv
  <2>2. ASSUME NEW i \in Indexers, Run(i) PROVE TypeOK' /\ Runs'
    BY <2>1, <2>2, QuietSteps, GiveUpKeeps, ClaimKeeps, StageKeeps, StoreKeeps, EndKeeps DEF Run
  <2>3. TypeOK' /\ Runs'
    BY <1>2, <2>1, <2>2, DeliverKeeps, JobsGoOn, OutsideKeeps, DeleteKeeps DEF Next
  <2> QED  BY <1>2, <2>3, WholeStep DEF IInv
<1> QED  BY <1>1, <1>2

\* The rows and the local states stay well formed: attempts stay within
\* RAG_INGESTION_MAX_ATTEMPTS although they are counted by runs that overlap.
THEOREM TypeCorrect == Spec => []TypeOK
<1>1. IInv => TypeOK
  BY DEF IInv
<1> QED  BY <1>1, IInvInit, IInvStep, PTL DEF Spec

\* replace_chunks and the unique index on rag_chunks: a document that retrieval
\* searches holds the complete chunks of exactly one run, however many runs of
\* however many jobs overlap, fail while storing, or lose their transaction.
THEOREM SearchedIsWhole == Spec => []IndexedIsWhole
<1>1. IInv => IndexedIsWhole
  BY DEF IInv
<1> QED  BY <1>1, IInvInit, IInvStep, PTL DEF Spec

\* index_document counts an attempt under the job's row lock: runs of one job that
\* overlap because a heartbeat went stale never share their attempt.
THEOREM NoSharedAttempt == Spec => []AttemptsDistinct
<1>1. IInv => AttemptsDistinct
  BY DEF IInv, Runs, Distinct, AttemptsDistinct, InFlight, Live, Working
<1> QED  BY <1>1, IInvInit, IInvStep, PTL DEF Spec

\* index_document claims under the job's row lock and its heartbeat keeps the claim:
\* until a run is silent for the length of the lease, or its job is given another status
\* by an operator or by the outbox, a job has at most one live run, however often its
\* message is delivered, however its runs are lost, and whatever is cancelled or
\* dead-lettered while no run works on it.
THEOREM RunsAlone == Spec => []OneLiveRun
<1>1. Init => Undisturbed
  BY Numbers DEF Init, Undisturbed, AllAlone, Alone, InFlight, IdleIndexer
<1>2. IInv /\ Undisturbed /\ [Next]_vars => Undisturbed'
  BY UndisturbedStep DEF IInv
<1>3. Undisturbed => OneLiveRun
  BY DEF Undisturbed, AllAlone, Alone, InFlight, OneLiveRun, Live, Working
<1> QED  BY <1>1, <1>2, <1>3, IInvInit, IInvStep, PTL DEF Spec

\* cleanup_deleted_document leaves no chunk of a job that delete_document found,
\* whatever runs were storing chunks while the document was deleted.
THEOREM CleanupCompletes == Spec => []CleanupLeavesNothing
<1>1. Init => Swept
  BY DEF Init, Swept, CleanupLeavesNothing, IdleSweeper
<1>2. IInv /\ Swept /\ [Next]_vars => Swept'
  BY SweptStep
<1>3. Swept => CleanupLeavesNothing
  BY DEF Swept
<1> QED  BY <1>1, <1>2, <1>3, IInvInit, IInvStep, PTL DEF Spec

\* The queue's consumer is what Outbox takes it to be.
THEOREM ConsumerKeepsItsSide == Spec => ConsumerAsAssumed
<1>1. IInv /\ [Next]_vars =>
        [\A j \in Jobs : /\ job[j].status = "completed" => job'[j].status # "running"
                         /\ job[j].status = "deleted" => job'[j].status = "deleted"]_vars
  BY ConsumerStep
<1> QED  BY <1>1, IInvInit, IInvStep, PTL DEF Spec, ConsumerAsAssumed

\* The indexing of a document, with runs that overlap, fail and outlive their lease,
\* cancellations and a deletion, implements what a search is promised of it.
THEOREM IndexingImplementsPublication == Spec => PublishesRuns
<1>1. Init => Search!Init /\ Unbegun
  <2> SUFFICES ASSUME Init PROVE Search!Init /\ Unbegun
    OBVIOUS
  <2>1. \A j \in Jobs : job[j].attempts = 0 /\ job[j].status \in {"pending", "absent"}
    BY NewJobIs DEF Init, NewJob
  <2>2. \A i \in Indexers : indexer[i].pc \notin Working
    BY DEF Init, IdleIndexer, Working
  <2>3. begun = [j \in Jobs |-> 0]
    BY <2>1 DEF begun
  <2>4. atWork = {} /\ shown = {} /\ doc.deleted = FALSE
    BY <2>2 DEF atWork, shown, Init
  <2> QED  BY <2>1, <2>3, <2>4 DEF Search!Init, Unbegun
<1>2. IInv /\ Unbegun /\ [Next]_vars => Unbegun'
  BY UnbegunStep
<1>3. IInv /\ Unbegun /\ [Next]_vars => [Search!Next]_<<shown, atWork, begun, doc.deleted>>
  BY StepPublishes DEF Moves
<1> QED  BY <1>1, <1>2, <1>3, IInvInit, IInvStep, PTL DEF Spec, PublishesRuns, Search!Spec
=============================================================================
