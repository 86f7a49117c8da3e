-------------------------- MODULE OutboxImplements --------------------------
(* The outbox implements Delivery for any number of jobs and dispatchers.  *)
EXTENDS OutboxProofs

\* A row nobody enqueued has no attempt, and nobody can name its job.
Unwritten ==
  \A j \in Jobs : row[j].status = "absent" =>
    row[j].attempts = 0 /\ job[j] = "absent" /\ j \notin operator

\* Only Enqueue ends this, for the row it writes.
LEMMA UnwrittenStep ==
  ASSUME IInv, Unwritten, [Next]_vars
  PROVE  Unwritten'
<1>0. TypeOK /\ \A j \in Jobs : row[j] \in Row
  BY DEF IInv, TypeOK
<1>1. ASSUME NEW j \in Jobs, \/ Enqueue(j) \/ DeleteJob(j) \/ CancelCheck(j)
                             \/ CancelWrite(j) \/ ConsumerStep(j)
      PROVE  Unwritten'
  <2> SUFFICES ASSUME NEW i \in Jobs, row'[i].status = "absent"
               PROVE  row'[i].attempts = 0 /\ job'[i] = "absent" /\ i \notin operator'
    BY DEF Unwritten
  <2>1. row[i].status = "absent" /\ row'[i].attempts = row[i].attempts /\ i # j
    BY <1>0, <1>1 DEF Enqueue, DeleteJob, CancelCheck, CancelWrite, ConsumerStep,
                      Unwritten, TypeOK, Row
  <2> QED
    BY <1>0, <1>1, <2>1 DEF Enqueue, DeleteJob, CancelCheck, CancelWrite, ConsumerStep,
                            Unwritten, TypeOK
<1>2. ASSUME NEW d \in Dispatchers, ClaimCommit(d)
      PROVE  Unwritten'
  <2> DEFINE picked == {p.job : p \in dispatcher[d].picks}
  <2>1. \A j \in Jobs \ picked : row'[j] = row[j] /\ job'[j] = job[j]
    BY <1>2 DEF ClaimCommit
  <2>2. \A j \in picked : row'[j].status # "absent"
    <3> SUFFICES ASSUME NEW j \in picked PROVE row'[j].status # "absent"
      OBVIOUS
    <3> PICK p \in dispatcher[d].picks : p \in Pick /\ p.job = j /\ j \in Jobs
           /\ row'[j] = ClaimedRow(p, lastToken + 1)
      <4>1. dispatcher[d].picks \in SUBSET Pick
        BY <1>0 DEF TypeOK, Dispatcher
      <4>2. j \in Jobs
        BY <4>1 DEF Pick
      <4> QED  BY <1>2, <4>1, <4>2, PickChosen DEF ClaimCommit
    <3> QED  BY <1>0 DEF ClaimedRow, Row
  <2> QED  BY <1>2, <2>1, <2>2 DEF Unwritten, ClaimCommit
<1>3. ASSUME NEW d \in Dispatchers, ClaimSelect(d) \/ Publish(d) \/ Abandon(d)
      PROVE  Unwritten'
  BY <1>3 DEF ClaimSelect, Publish, Abandon, Unwritten
<1>4. ASSUME NEW d \in Dispatchers, Ack(d)
      PROVE  Unwritten'
  <2> DEFINE c == dispatcher[d].current
  <2>1. CASE OwnsLease(c)
    <3>1. PICK delay : row' = [row EXCEPT ![c.job] =
                                 AckedRow(c, dispatcher[d].pc = "accepted", delay)]
      BY <1>4, <2>1 DEF Ack
    <3>2. c.job \in Jobs => row'[c.job].status # "absent"
      BY <1>0, <3>1 DEF AckedRow, TypeOK, Row
    <3> QED  BY <1>0, <1>4, <3>1, <3>2 DEF Ack, Unwritten, TypeOK
  <2>2. CASE ~OwnsLease(c)
    BY <1>4, <2>2 DEF Ack, Unwritten
  <2> QED  BY <2>1, <2>2
<1>5. ASSUME Tick PROVE Unwritten'
  BY <1>0, <1>5 DEF Tick, Unwritten, Row
<1>6. ASSUME UNCHANGED vars PROVE Unwritten'
  BY <1>6 DEF vars, Unwritten
<1> QED  BY <1>1, <1>2, <1>3, <1>4, <1>5, <1>6 DEF Next

\* Nobody writes a row before its transaction does, in every reachable state.
LEMMA UnwrittenAlways == Spec => []Unwritten
<1>1. Init => Unwritten
  BY DEF Init, Unwritten
<1>2. IInv /\ Unwritten /\ [Next]_vars => Unwritten'
  BY UnwrittenStep
<1> QED  BY <1>1, <1>2, Invariant, PTL DEF Spec

-----------------------------------------------------------------------------
(* Steps of the outbox as steps of Delivery.                               *)

promised == [j \in Jobs |-> PromiseOf(row[j].status)]

\* A step after which every promise and every message is as before.
LEMMA NoPromiseMoves ==
  ASSUME UNCHANGED broker, \A j \in Jobs : PromiseOf(row'[j].status) = PromiseOf(row[j].status)
  PROVE  UNCHANGED <<promised, broker>>
BY DEF promised

\* A step that changes one promise, and no message.
LEMMA OnePromiseMoves ==
  ASSUME NEW j \in Jobs, NEW p, PromiseOf(row'[j].status) = p,
         \A i \in Jobs \ {j} : row'[i] = row[i]
  PROVE  promised' = [promised EXCEPT ![j] = p]
BY DEF promised

\* Every step of the outbox is a step of Delivery or changes nothing it sees.
LEMMA StepImplements ==
  ASSUME IInv, Unwritten, Next
  PROVE  Promises!Next \/ UNCHANGED <<promised, broker>>
<1>0. /\ TypeOK /\ (\A j \in Jobs : row[j] \in Row) /\ MessagesOK
      /\ \A d \in Dispatchers : LocalOK(dispatcher[d])
      /\ \A d \in Dispatchers : \A c \in Held(d) : ClaimOK(c)
      /\ \A d \in Dispatchers : Held(d) \in SUBSET Claim
  BY HeldType DEF IInv, TypeOK
<1>1. ASSUME NEW j \in Jobs, Enqueue(j) PROVE Promises!Next
  <2>1. promised' = [promised EXCEPT ![j] = "owed"]
    BY <1>0, <1>1, OnePromiseMoves DEF Enqueue, PromiseOf, TypeOK, Row
  <2>2. promised[j] = "none"
    BY <1>1 DEF Enqueue, promised, PromiseOf
  <2>3. Promises!Owe(j)
    BY <1>1, <2>1, <2>2 DEF Promises!Owe, Enqueue, promised
  <2> QED  BY <2>3 DEF Promises!Next
<1>2. ASSUME NEW j \in Jobs, DeleteJob(j) PROVE Promises!Next
  <2>1. promised' = [promised EXCEPT ![j] = "withdrawn"]
    BY <1>0, <1>2, OnePromiseMoves DEF DeleteJob, PromiseOf, TypeOK, Row
  <2>2. promised[j] # "none"
    BY <1>0, <1>2 DEF DeleteJob, Unwritten, promised, PromiseOf, Row, RowStatus, Settled
  <2>3. Promises!Withdraw(j)
    BY <1>2, <2>1, <2>2 DEF Promises!Withdraw, DeleteJob, promised
  <2> QED  BY <2>3 DEF Promises!Next
<1>3. ASSUME NEW j \in Jobs, CancelWrite(j)
      PROVE  Promises!Next \/ UNCHANGED <<promised, broker>>
  <2>1. CASE job[j] # "deleted" /\ row[j].status \in {"pending", "dispatching"}
    <3>1. promised' = [promised EXCEPT ![j] = "withdrawn"]
      BY <1>0, <1>3, <2>1, OnePromiseMoves DEF CancelWrite, PromiseOf, TypeOK, Row
    <3>2. promised[j] # "none"
      BY <2>1 DEF promised, PromiseOf
    <3>3. Promises!Withdraw(j)
      BY <1>3, <3>1, <3>2 DEF Promises!Withdraw, CancelWrite, promised
    <3> QED  BY <3>3 DEF Promises!Next
  <2>2. CASE ~ (job[j] # "deleted" /\ row[j].status \in {"pending", "dispatching"})
    <3>1. \A i \in Jobs : row'[i].status = row[i].status
      BY <1>0, <1>3, <2>2 DEF CancelWrite, TypeOK, Row
    <3> QED  BY <1>3, <3>1, NoPromiseMoves DEF CancelWrite
  <2> QED  BY <2>1, <2>2
<1>4. ASSUME NEW j \in Jobs, CancelCheck(j) \/ ConsumerStep(j)
      PROVE  UNCHANGED <<promised, broker>>
  BY <1>4, NoPromiseMoves DEF CancelCheck, ConsumerStep
<1>5. ASSUME NEW d \in Dispatchers, ClaimSelect(d) \/ Abandon(d)
      PROVE  UNCHANGED <<promised, broker>>
  BY <1>5, NoPromiseMoves DEF ClaimSelect, Abandon
<1>6. ASSUME NEW d \in Dispatchers, ClaimCommit(d) PROVE Promises!Next
  <2> DEFINE picks   == dispatcher[d].picks
             picked  == {p.job : p \in picks}
             pick(j) == CHOOSE p \in picks : p.job = j
             dead    == {j \in picked : pick(j).dead}
  <2>1. picks \in SUBSET Pick /\ picked \in SUBSET Jobs
    BY <1>0 DEF TypeOK, Dispatcher, Pick
  <2>2. \A j \in picked : /\ pick(j) \in picks /\ pick(j) \in Pick /\ pick(j).job = j
                          /\ PromiseOf(row[j].status) = "owed"
    BY <2>1, PickChosen DEF IInv, PickOK, PromiseOf
  <2>3. \A j \in Jobs \ picked : row'[j] = row[j]
    BY <1>6 DEF ClaimCommit
  <2>4. \A j \in picked : row'[j] = ClaimedRow(pick(j), lastToken + 1)
    BY <1>6, <2>1 DEF ClaimCommit
  <2>5. \A j \in picked : row'[j].status = IF j \in dead THEN "dead_letter" ELSE "dispatching"
    <3> SUFFICES ASSUME NEW j \in picked
                 PROVE  row'[j].status = IF j \in dead THEN "dead_letter" ELSE "dispatching"
      OBVIOUS
    <3> DEFINE p == pick(j)
    <3>1. row[j] \in Row /\ p.job = j /\ row'[j] = ClaimedRow(p, lastToken + 1)
          /\ (j \in dead <=> p.dead)
      BY <1>0, <2>1, <2>2, <2>4
    <3> HIDE DEF p, dead
    <3>2. CASE p.dead
      BY <3>1, <3>2 DEF ClaimedRow, Row
    <3>3. CASE ~p.dead
      BY <3>1, <3>3 DEF ClaimedRow, Row
    <3> QED  BY <3>2, <3>3
  <2>6. promised' = [j \in Jobs |-> IF j \in dead THEN "broken" ELSE promised[j]]
    BY <2>1, <2>2, <2>3, <2>5 DEF promised, PromiseOf
  <2>7. dead \in SUBSET {j \in Jobs : promised[j] = "owed"}
    BY <2>1, <2>2 DEF promised
  <2>8. Promises!Break
    BY <1>6, <2>6, <2>7 DEF Promises!Break, ClaimCommit, promised
  <2> QED  BY <2>8 DEF Promises!Next
<1>7. ASSUME NEW d \in Dispatchers, Publish(d)
      PROVE  Promises!Next \/ UNCHANGED <<promised, broker>>
  <2> PICK c \in dispatcher[d].claims, accepted \in BOOLEAN :
         broker' = IF accepted THEN broker \cup {<<c.job, c.attempts>>} ELSE broker
    BY <1>7 DEF Publish
  <2>1. /\ c \in Claim /\ ClaimOK(c) /\ c.job \in Jobs
        /\ <<c.job, c.attempts>> \notin broker
        /\ UNCHANGED row
    BY <1>0, <1>7 DEF Held, Unsent, MessagesOK, Claim, Publish
  <2>2. UNCHANGED promised
    BY <2>1 DEF promised
  <2>3. CASE accepted
    <3>1. promised[c.job] # "none"
      BY <1>0, <2>1 DEF promised, PromiseOf, Unwritten, ClaimOK, Row, RowStatus, Settled
    <3>2. Promises!HandOver(c.job)
      BY <2>1, <2>2, <2>3, <3>1 DEF Promises!HandOver, ClaimOK, promised
    <3> QED  BY <2>1, <3>2 DEF Promises!Next
  <2>4. CASE ~accepted
    BY <2>2, <2>4
  <2> QED  BY <2>3, <2>4
<1>8. ASSUME NEW d \in Dispatchers, Ack(d)
      PROVE  Promises!Next \/ UNCHANGED <<promised, broker>>
  <2> DEFINE c == dispatcher[d].current
  <2>1. c \in Claim /\ c \in Held(d) /\ ClaimOK(c) /\ c.job \in Jobs
    BY <1>0, <1>8 DEF Ack, Held, LocalOK, Claim
  <2>2. CASE OwnsLease(c)
    <3>1. PICK delay : row' = [row EXCEPT ![c.job] =
                                 AckedRow(c, dispatcher[d].pc = "accepted", delay)]
      BY <1>8, <2>2 DEF Ack
    <3>2. row'[c.job].status = IF dispatcher[d].pc = "accepted" THEN "dispatched" ELSE "pending"
      BY <1>0, <2>1, <3>1 DEF AckedRow, TypeOK, Row
    <3>3. \A i \in Jobs \ {c.job} : row'[i] = row[i]
      BY <3>1
    <3>4. promised[c.job] = "owed"
      BY <2>1, <2>2 DEF OwnsLease, promised, PromiseOf
    <3>5. CASE dispatcher[d].pc = "accepted"
      <4>1. promised' = [promised EXCEPT ![c.job] = "kept"]
        BY <2>1, <3>2, <3>3, <3>5, OnePromiseMoves DEF PromiseOf
      <4>2. \E n \in 1 .. MaxAttempts : <<c.job, n>> \in broker
        BY <1>0, <2>1, <3>5 DEF MessagesOK, ClaimOK
      <4>3. Promises!Keep(c.job)
        BY <1>8, <3>4, <4>1, <4>2 DEF Promises!Keep, Ack, promised
      <4> QED  BY <2>1, <4>3 DEF Promises!Next
    <3>6. CASE dispatcher[d].pc # "accepted"
      <4>1. \A i \in Jobs : PromiseOf(row'[i].status) = PromiseOf(row[i].status)
        BY <2>1, <2>2, <3>2, <3>3, <3>6 DEF OwnsLease, PromiseOf
      <4> QED  BY <1>8, <4>1, NoPromiseMoves DEF Ack
    <3> QED  BY <3>5, <3>6
  <2>3. CASE ~OwnsLease(c)
    BY <1>8, <2>3, NoPromiseMoves DEF Ack
  <2> QED  BY <2>2, <2>3
<1>9. ASSUME Tick PROVE UNCHANGED <<promised, broker>>
  <2>1. \A i \in Jobs : row'[i].status = row[i].status
    BY <1>0, <1>9 DEF Tick, Row
  <2> QED  BY <1>9, <2>1, NoPromiseMoves DEF Tick
<1> QED  BY <1>1, <1>2, <1>3, <1>4, <1>5, <1>6, <1>7, <1>8, <1>9 DEF Next

\* Whatever dispatchers, operators and crashes do, the outbox makes and keeps
\* only the promises Delivery allows: at most MaxAttempts messages per job, none
\* before the job was enqueued, and delivery recorded only after a message.
THEOREM Implements == Spec => KeepsPromises
<1>1. Init => Promises!Init
  BY DEF Init, Promises!Init, PromiseOf
<1>2. IInv /\ Unwritten /\ [Next]_vars => [Promises!Next]_<<promised, broker>>
  <2>1. ASSUME UNCHANGED vars PROVE UNCHANGED <<promised, broker>>
    BY <2>1 DEF vars, promised
  <2> QED  BY <2>1, StepImplements
<1> QED  BY <1>1, <1>2, Invariant, UnwrittenAlways, PTL
            DEF Spec, KeepsPromises, Promises!Spec, promised
=============================================================================
