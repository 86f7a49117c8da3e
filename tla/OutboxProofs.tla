---------------------------- MODULE OutboxProofs ----------------------------
(* What Outbox guarantees for any number of jobs and dispatchers and any   *)
(* value of its settings.                                                  *)
EXTENDS Outbox, TLAPS

USE OutboxAssumption

\* Timers count down within the naturals.
LEMMA LessType == ASSUME NEW t \in Nat PROVE Less(t) \in Nat
  BY DEF Less

\* The retry delay is a natural number.
LEMMA BackoffType == ASSUME NEW n \in Nat PROVE \A t \in 0 .. Backoff(n) : t \in Nat
  OBVIOUS

\* The rows and jobs a committing claim writes: each picked row by the one pick
\* that names it, every other row not at all.
LEMMA PickChosen ==
  ASSUME NEW picks \in SUBSET Pick, NEW j \in {p.job : p \in picks}
  PROVE  LET p == CHOOSE p \in picks : p.job = j IN p \in picks /\ p \in Pick /\ p.job = j
  OBVIOUS

\* The row a claim leaves is a row.
LEMMA ClaimedRowType ==
  ASSUME TypeOK, NEW p \in Pick, NEW token \in Nat
  PROVE  ClaimedRow(p, token) \in Row
<1>1. row[p.job] \in Row /\ p.attempts \in Nat /\ Lease \in Nat
  BY DEF TypeOK, Pick, OutboxAssumption
<1>2. CASE p.dead
  BY <1>1, <1>2 DEF ClaimedRow, Row, RowStatus, Settled, NoToken
<1>3. CASE ~p.dead
  BY <1>1, <1>3 DEF ClaimedRow, Row, RowStatus
<1> QED  BY <1>2, <1>3

\* An acknowledgement leaves a well-formed row.
LEMMA AckedRowType ==
  ASSUME TypeOK, NEW c \in Claim, NEW dispatched \in BOOLEAN, NEW delay \in Nat
  PROVE  AckedRow(c, dispatched, delay) \in Row
<1>1. row[c.job] \in Row
  BY DEF TypeOK, Claim
<1>2. CASE dispatched
  BY <1>1, <1>2 DEF AckedRow, Row, RowStatus, Settled, NoToken
<1>3. CASE ~dispatched
  BY <1>1, <1>3 DEF AckedRow, Row, RowStatus, NoToken
<1> QED  BY <1>2, <1>3

\* A claim of a dispatcher is a claim.
LEMMA HeldType ==
  ASSUME TypeOK, NEW d \in Dispatchers, LocalOK(dispatcher[d])
  PROVE  Held(d) \in SUBSET Claim
  BY DEF TypeOK, LocalOK, Held, Unsent, Dispatcher

\* The type invariant holds in the empty outbox.
LEMMA TypeInit == Init => TypeOK
  BY DEF Init, TypeOK, Row, RowStatus, Settled, JobStatus, Dispatcher, IdleDispatcher,
         DispatcherPC, NoToken

\* Every step keeps the state well formed. Ack needs to know that a dispatcher
\* about to acknowledge has a current claim.
LEMMA TypeStep ==
  ASSUME TypeOK, [Next]_vars, \A d \in Dispatchers : LocalOK(dispatcher[d])
  PROVE  TypeOK'
<1> USE DEF TypeOK
<1>1. ASSUME NEW j \in Jobs, Enqueue(j) PROVE TypeOK'
  <2>1. row' \in [Jobs -> Row]
    BY <1>1 DEF Enqueue, Row, RowStatus
  <2>2. job' \in [Jobs -> JobStatus]
    BY <1>1 DEF Enqueue, JobStatus
  <2> QED  BY <1>1, <2>1, <2>2 DEF Enqueue
<1>2. ASSUME NEW j \in Jobs, DeleteJob(j) PROVE TypeOK'
  <2>1. row' \in [Jobs -> Row]
    BY <1>2 DEF DeleteJob, Row, RowStatus, NoToken
  <2>2. job' \in [Jobs -> JobStatus]
    BY <1>2 DEF DeleteJob, JobStatus
  <2> QED  BY <1>2, <2>1, <2>2 DEF DeleteJob
<1>3. ASSUME NEW j \in Jobs, CancelCheck(j) PROVE TypeOK'
  BY <1>3 DEF CancelCheck
<1>4. ASSUME NEW j \in Jobs, CancelWrite(j) PROVE TypeOK'
  <2>1. row' \in [Jobs -> Row]
    BY <1>4 DEF CancelWrite, Row, RowStatus, Settled
  <2>2. job' \in [Jobs -> JobStatus]
    BY <1>4 DEF CancelWrite, JobStatus
  <2> QED  BY <1>4, <2>1, <2>2 DEF CancelWrite
<1>5. ASSUME NEW j \in Jobs, ConsumerStep(j) PROVE TypeOK'
  BY <1>5 DEF ConsumerStep, JobStatus
<1>6. ASSUME NEW d \in Dispatchers, ClaimSelect(d) PROVE TypeOK'
  <2>1. \A j \in Jobs : PickOf(j) \in Pick
    BY DEF PickOf, Pick, Row
  <2>2. PICK S \in SUBSET Jobs : dispatcher' =
           [dispatcher EXCEPT ![d].pc = "claiming", ![d].picks = {PickOf(j) : j \in S}]
    <3> HIDE DEF TypeOK
    <3> QED  BY <1>6 DEF ClaimSelect
  <2>3. {PickOf(j) : j \in S} \in SUBSET Pick
    BY <2>1
  <2> DEFINE picks == {PickOf(j) : j \in S}
  <2> HIDE DEF picks
  <2>4. dispatcher' = [dispatcher EXCEPT ![d].pc = "claiming", ![d].picks = picks]
    BY <2>2 DEF picks
  <2>5. picks \in SUBSET Pick
    BY <2>3 DEF picks
  <2>6. dispatcher' \in [Dispatchers -> Dispatcher]
    BY <2>4, <2>5 DEF Dispatcher, DispatcherPC
  <2> QED  BY <1>6, <2>6 DEF ClaimSelect
<1>7. ASSUME NEW d \in Dispatchers, ClaimCommit(d) PROVE TypeOK'
  <2> DEFINE picks   == dispatcher[d].picks
             pick(j) == CHOOSE p \in picks : p.job = j
             claims  == {[job |-> p.job, attempts |-> p.attempts, token |-> lastToken + 1]
                           : p \in {q \in picks : ~q.dead}}
             row1(j) == IF j \in {p.job : p \in picks}
                        THEN ClaimedRow(pick(j), lastToken + 1) ELSE row[j]
  <2>1. picks \in SUBSET Pick
    BY DEF Dispatcher
  <2>2. \A j \in {p.job : p \in picks} : pick(j) \in Pick /\ pick(j).job = j
    BY <2>1, PickChosen
  <2>3. row' \in [Jobs -> Row]
    <3>1. row' = [j \in Jobs |-> row1(j)]
      BY <1>7 DEF ClaimCommit
    <3>2. ASSUME NEW j \in Jobs PROVE row1(j) \in Row
      <4>1. CASE j \in {p.job : p \in picks}
        <5>1. pick(j) \in Pick /\ pick(j).job = j
          BY <2>2, <4>1
        <5> HIDE DEF pick
        <5> QED  BY <4>1, <5>1, ClaimedRowType
      <4>2. CASE j \notin {p.job : p \in picks}
        BY <4>2
      <4> QED  BY <4>1, <4>2
    <3> QED  BY <3>1, <3>2
  <2>4. job' \in [Jobs -> JobStatus]
    BY <1>7 DEF ClaimCommit, JobStatus
  <2>5. claims \in SUBSET Claim
    BY <2>1 DEF Claim, Pick
  <2>6. dispatcher' \in [Dispatchers -> Dispatcher]
    BY <1>7, <2>5 DEF ClaimCommit, Dispatcher, DispatcherPC, IdleDispatcher
  <2> QED  BY <1>7, <2>3, <2>4, <2>6 DEF ClaimCommit
<1>8. ASSUME NEW d \in Dispatchers, Publish(d) PROVE TypeOK'
  <2> PICK c \in dispatcher[d].claims, accepted, raised \in BOOLEAN :
         /\ broker' = IF accepted THEN broker \cup {<<c.job, c.attempts>>} ELSE broker
         /\ dispatcher' = [dispatcher EXCEPT
              ![d].pc = IF raised THEN "refused" ELSE "accepted",
              ![d].claims = @ \ {c},
              ![d].current = c]
    BY <1>8 DEF Publish
  <2>1. c \in Claim
    BY DEF Dispatcher
  <2> QED  BY <1>8, <2>1 DEF Publish, Dispatcher, DispatcherPC, Claim
<1>9. ASSUME NEW d \in Dispatchers, Ack(d) PROVE TypeOK'
  <2> DEFINE c == dispatcher[d].current
  <2>1. c \in Claim
    BY <1>9 DEF Ack, LocalOK
  <2>2. row' \in [Jobs -> Row]
    <3>1. CASE OwnsLease(c)
      <4> PICK delay \in 0 .. Backoff(c.attempts) :
             row' = [row EXCEPT ![c.job] = AckedRow(c, dispatcher[d].pc = "accepted", delay)]
        BY <1>9, <3>1 DEF Ack
      <4>1. delay \in Nat
        OBVIOUS
      <4>2. (dispatcher[d].pc = "accepted") \in BOOLEAN
        OBVIOUS
      <4>3. AckedRow(c, dispatcher[d].pc = "accepted", delay) \in Row
        BY <2>1, <4>1, <4>2, AckedRowType
      <4> QED  BY <2>1, <4>3 DEF Claim
    <3>2. CASE ~OwnsLease(c)
      BY <1>9, <3>2 DEF Ack
    <3> QED  BY <3>1, <3>2
  <2>3. dispatcher' \in [Dispatchers -> Dispatcher]
    <3> PICK pc \in DispatcherPC :
           dispatcher' = [dispatcher EXCEPT ![d].pc = pc, ![d].current = NoClaim]
      BY <1>9 DEF Ack, DispatcherPC
    <3> QED  BY DEF Dispatcher
  <2> QED  BY <1>9, <2>2, <2>3 DEF Ack
<1>10. ASSUME NEW d \in Dispatchers, Abandon(d) PROVE TypeOK'
  BY <1>10 DEF Abandon, Dispatcher, DispatcherPC, IdleDispatcher
<1>11. ASSUME Tick PROVE TypeOK'
  BY <1>11, LessType DEF Tick, Row
<1>12. ASSUME UNCHANGED vars PROVE TypeOK'
  BY <1>12 DEF vars
<1> QED
  BY <1>1, <1>2, <1>3, <1>4, <1>5, <1>6, <1>7, <1>8, <1>9, <1>10, <1>11, <1>12 DEF Next

\* Every step keeps a dispatcher's local state consistent with its pc.
LEMMA LocalStep ==
  ASSUME TypeOK, [Next]_vars, \A d \in Dispatchers : LocalOK(dispatcher[d])
  PROVE  \A d \in Dispatchers : LocalOK(dispatcher[d])'
<1> USE DEF TypeOK
<1>1. ASSUME UNCHANGED dispatcher PROVE \A d \in Dispatchers : LocalOK(dispatcher[d])'
  BY <1>1 DEF LocalOK
<1>2. ASSUME NEW d \in Dispatchers, NEW s, dispatcher' = [dispatcher EXCEPT ![d] = s], LocalOK(s)
      PROVE  \A e \in Dispatchers : LocalOK(dispatcher[e])'
  <2> SUFFICES ASSUME NEW e \in Dispatchers PROVE LocalOK(dispatcher'[e])
    BY DEF LocalOK
  <2>1. CASE e = d
    BY <1>2, <2>1
  <2>2. CASE e # d
    BY <1>2, <2>2
  <2> QED  BY <2>1, <2>2
<1>3. ASSUME NEW d \in Dispatchers, ClaimSelect(d) PROVE \A e \in Dispatchers : LocalOK(dispatcher[e])'
  <2>1. PICK picks : dispatcher' =
           [dispatcher EXCEPT ![d] = [dispatcher[d] EXCEPT !.pc = "claiming", !.picks = picks]]
    BY <1>3 DEF ClaimSelect
  <2>2. LocalOK([dispatcher[d] EXCEPT !.pc = "claiming", !.picks = picks])
    BY <1>3 DEF ClaimSelect, LocalOK, Dispatcher
  <2> QED  BY <2>1, <2>2, <1>2
<1>4. ASSUME NEW d \in Dispatchers, ClaimCommit(d) PROVE \A e \in Dispatchers : LocalOK(dispatcher[e])'
  <2>1. PICK claims : dispatcher' =
           [dispatcher EXCEPT ![d] = [IdleDispatcher EXCEPT
              !.pc = IF claims = {} THEN "idle" ELSE "sending", !.claims = claims]]
    BY <1>4 DEF ClaimCommit
  <2>2. LocalOK([IdleDispatcher EXCEPT
              !.pc = IF claims = {} THEN "idle" ELSE "sending", !.claims = claims])
    BY DEF LocalOK, IdleDispatcher
  <2> QED  BY <2>1, <2>2, <1>2
<1>5. ASSUME NEW d \in Dispatchers, Publish(d) PROVE \A e \in Dispatchers : LocalOK(dispatcher[e])'
  <2> PICK c \in dispatcher[d].claims, accepted, raised \in BOOLEAN : dispatcher' =
         [dispatcher EXCEPT ![d].pc = IF raised THEN "refused" ELSE "accepted",
                            ![d].claims = @ \ {c}, ![d].current = c]
    BY <1>5 DEF Publish
  <2> DEFINE pc == IF raised THEN "refused" ELSE "accepted"
  <2>1. /\ pc \in {"refused", "accepted"}
        /\ dispatcher' = [dispatcher EXCEPT
             ![d] = [dispatcher[d] EXCEPT !.pc = pc, !.claims = @ \ {c}, !.current = c]]
    OBVIOUS
  <2>2. c \in Claim /\ dispatcher[d].picks = {}
    BY <1>5 DEF Publish, Dispatcher, LocalOK
  <2> HIDE DEF pc
  <2>3. LocalOK([dispatcher[d] EXCEPT !.pc = pc, !.claims = @ \ {c}, !.current = c])
    BY <2>1, <2>2 DEF LocalOK, Dispatcher
  <2> QED  BY <2>1, <2>3, <1>2
<1>6. ASSUME NEW d \in Dispatchers, Ack(d) PROVE \A e \in Dispatchers : LocalOK(dispatcher[e])'
  <2> DEFINE pc == IF dispatcher[d].claims = {} THEN "idle" ELSE "sending"
  <2>1. dispatcher' = [dispatcher EXCEPT ![d] = [dispatcher[d] EXCEPT !.pc = pc, !.current = NoClaim]]
    BY <1>6 DEF Ack
  <2>2. LocalOK([dispatcher[d] EXCEPT !.pc = pc, !.current = NoClaim])
    BY <1>6 DEF Ack, LocalOK, Dispatcher
  <2> QED  BY <2>1, <2>2, <1>2
<1>7. ASSUME NEW d \in Dispatchers, Abandon(d) PROVE \A e \in Dispatchers : LocalOK(dispatcher[e])'
  <2>1. LocalOK(IdleDispatcher)
    BY DEF LocalOK, IdleDispatcher
  <2> QED  BY <1>7, <2>1, <1>2 DEF Abandon
<1> QED
  BY <1>1, <1>3, <1>4, <1>5, <1>6, <1>7
     DEF Next, vars, Enqueue, DeleteJob, CancelCheck, CancelWrite, ConsumerStep, Tick

-----------------------------------------------------------------------------
(* The parts of IInv beyond types. A step that claims and publishes        *)
(* nothing keeps them if it respects what claims and picks rely on.        *)

Exclusion ==
  /\ \A d \in Dispatchers : \A p \in dispatcher[d].picks : PickOK(p)
  /\ PicksExclusive
  /\ \A d \in Dispatchers : \A c \in Held(d) : ClaimOK(c)
  /\ ClaimsExclusive
  /\ MessagesOK
  /\ \A j \in Jobs : row[j].token <= lastToken
  /\ DispatchedWasAccepted

\* What such a step may do to the rows: no attempt is added, a token is kept or
\* dropped, a row some open claim holds keeps its status, and a row is marked
\* dispatched only once a message for it is there.
RowsRespected ==
  \A j \in Jobs :
    /\ row'[j].attempts = row[j].attempts
    /\ row'[j].token \in {row[j].token, NoToken}
    /\ Locked(j) => row'[j].status = row[j].status
    /\ row'[j].status = "dispatched" =>
         row[j].status = "dispatched" \/ \E n \in 1 .. MaxAttempts : <<j, n>> \in broker

\* What it may do to the dispatchers: picks and claims are only given up.
NothingTaken ==
  \A d \in Dispatchers :
    /\ dispatcher'[d].picks \subseteq dispatcher[d].picks
    /\ Unsent(d)' \subseteq Unsent(d)
    /\ Held(d)' \subseteq Held(d)
    /\ dispatcher'[d].pc = "accepted" =>
         dispatcher[d].pc = "accepted" /\ dispatcher'[d].current = dispatcher[d].current

\* Steps that leave dispatchers, broker and tokens alone keep what is said of claims.
LEMMA QuietStep ==
  ASSUME IInv, RowsRespected, NothingTaken, UNCHANGED <<broker, lastToken>>
  PROVE  Exclusion'
<1> USE DEF NoToken
<1>0. /\ TypeOK /\ Exclusion
      /\ \A d \in Dispatchers : Held(d) \in SUBSET Claim /\ dispatcher[d].picks \in SUBSET Pick
  BY HeldType DEF IInv, Exclusion, TypeOK, Dispatcher
<1>1. ASSUME NEW d \in Dispatchers, NEW p \in dispatcher'[d].picks PROVE PickOK(p)'
  <2>1. p \in dispatcher[d].picks /\ PickOK(p) /\ Locked(p.job) /\ p.job \in Jobs
    BY <1>0, <1>1 DEF NothingTaken, Exclusion, Locked, Pick
  <2> QED  BY <2>1 DEF PickOK, RowsRespected
<1>2. PicksExclusive'
  BY <1>0 DEF Exclusion, PicksExclusive, NothingTaken
<1>3. ASSUME NEW d \in Dispatchers, NEW c \in Held(d)' PROVE ClaimOK(c)'
  <2>1. c \in Claim /\ ClaimOK(c) /\ c.job \in Jobs
    BY <1>0, <1>3 DEF NothingTaken, Exclusion, Claim
  <2>2. /\ row'[c.job].attempts = row[c.job].attempts
        /\ row'[c.job].token \in {row[c.job].token, 0}
        /\ lastToken' = lastToken
    BY <2>1 DEF RowsRespected
  <2>3. c.token # 0
    BY <1>0, <2>1 DEF ClaimOK, Claim, TypeOK
  <2> QED  BY <2>1, <2>2, <2>3 DEF ClaimOK
<1>4. ClaimsExclusive'
  <2> SUFFICES ASSUME NEW d \in Dispatchers, NEW e \in Dispatchers,
                      NEW c \in Held(d)', NEW b \in Held(e)',
                      c.job = b.job, c.attempts = b.attempts
               PROVE  d = e /\ c = b
    BY DEF ClaimsExclusive
  <2>1. c \in Held(d) /\ b \in Held(e)
    BY DEF NothingTaken
  <2> QED  BY <1>0, <2>1 DEF Exclusion, ClaimsExclusive
<1>5. MessagesOK'
  <2>1. \A m \in broker' : m[2] \in 1 .. MaxAttempts /\ m[2] <= row'[m[1]].attempts
    BY <1>0 DEF Exclusion, MessagesOK, RowsRespected, TypeOK
  <2>2. \A d \in Dispatchers : \A c \in Unsent(d)' : <<c.job, c.attempts>> \notin broker'
    BY <1>0 DEF Exclusion, MessagesOK, NothingTaken
  <2>3. \A d \in Dispatchers : dispatcher'[d].pc = "accepted" =>
          <<dispatcher'[d].current.job, dispatcher'[d].current.attempts>> \in broker'
    BY <1>0 DEF Exclusion, MessagesOK, NothingTaken
  <2> QED  BY <2>1, <2>2, <2>3 DEF MessagesOK
<1>6. \A j \in Jobs : row'[j].token <= lastToken'
  BY <1>0 DEF Exclusion, RowsRespected, TypeOK
<1>7. DispatchedWasAccepted'
  BY <1>0 DEF Exclusion, DispatchedWasAccepted, RowsRespected
<1> QED  BY <1>1, <1>2, <1>3, <1>4, <1>5, <1>6, <1>7 DEF Exclusion

\* Selecting rows takes none that another open claim holds.
LEMMA SelectStep ==
  ASSUME IInv, NEW d \in Dispatchers, ClaimSelect(d)
  PROVE  Exclusion'
<1>0. /\ TypeOK /\ Exclusion /\ LocalOK(dispatcher[d])
      /\ \A e \in Dispatchers : dispatcher[e].picks \in SUBSET Pick
      /\ UNCHANGED <<row, broker, lastToken>>
      /\ dispatcher[d].pc = "idle"
  BY DEF IInv, Exclusion, ClaimSelect, TypeOK, Dispatcher
<1>1. PICK S \in SUBSET {j \in Jobs : Claimable(j) /\ ~Locked(j)} :
         dispatcher' = [dispatcher EXCEPT ![d].pc = "claiming",
                                          ![d].picks = {PickOf(j) : j \in S}]
  BY DEF ClaimSelect
<1>2. /\ dispatcher'[d].picks = {PickOf(j) : j \in S}
      /\ dispatcher'[d].pc = "claiming"
      /\ \A e \in Dispatchers \ {d} : dispatcher'[e] = dispatcher[e]
      /\ \A e \in Dispatchers : Unsent(e)' = Unsent(e) /\ Held(e)' = Held(e)
  BY <1>0, <1>1 DEF TypeOK, Dispatcher, Unsent, Held
<1>3. ASSUME NEW e \in Dispatchers, NEW p \in dispatcher'[e].picks PROVE PickOK(p)'
  <2>1. CASE e = d
    <3>1. PICK j \in S : p = PickOf(j)
      BY <1>2, <2>1, <1>3
    <3>2. Claimable(j) /\ j \in Jobs /\ row[j] \in Row
      BY <1>0 DEF TypeOK
    <3>3. /\ p.job = j
          /\ p.attempts = row[j].attempts + 1
          /\ p.dead = (row[j].deadlineLeft = 0 \/ row[j].attempts + 1 > MaxAttempts)
      BY <3>1 DEF PickOf
    <3>4. row[j].attempts \in Nat /\ row' = row
      BY <1>0, <3>2 DEF Row
    <3>5. p.dead \/ p.attempts <= MaxAttempts
      <4>1. CASE row[j].attempts + 1 > MaxAttempts
        BY <3>3, <4>1, Zenon
      <4>2. CASE ~ (row[j].attempts + 1 > MaxAttempts)
        BY <3>3, <3>4, <4>2
      <4> QED  BY <4>1, <4>2
    <3> QED  BY <3>2, <3>3, <3>4, <3>5 DEF PickOK, Claimable
  <2>2. CASE e # d
    BY <1>0, <1>2, <1>3, <2>2 DEF Exclusion, PickOK
  <2> QED  BY <2>1, <2>2
<1>4. PicksExclusive'
  <2> SUFFICES ASSUME NEW e \in Dispatchers, NEW f \in Dispatchers,
                      NEW p \in dispatcher'[e].picks, NEW q \in dispatcher'[f].picks,
                      p.job = q.job
               PROVE  e = f /\ p = q
    BY DEF PicksExclusive
  <2>1. \A j \in S : PickOf(j).job = j /\ j \in Jobs /\ ~Locked(j)
    BY DEF PickOf
  <2>2. CASE e = d /\ f = d
    BY <1>2, <2>1, <2>2
  <2>3. CASE e # d /\ f # d
    BY <1>0, <1>2, <2>3 DEF Exclusion, PicksExclusive
  <2>4. CASE e = d /\ f # d
    BY <1>2, <2>1, <2>4 DEF Locked
  <2>5. CASE e # d /\ f = d
    BY <1>2, <2>1, <2>5 DEF Locked
  <2> QED  BY <2>2, <2>3, <2>4, <2>5
<1>5. \A e \in Dispatchers : \A c \in Held(e)' : ClaimOK(c)'
  BY <1>0, <1>2 DEF Exclusion, ClaimOK
<1>6. ClaimsExclusive'
  BY <1>0, <1>2 DEF Exclusion, ClaimsExclusive
<1>7. MessagesOK'
  <2>1. \A e \in Dispatchers : dispatcher'[e].pc = "accepted" => dispatcher'[e] = dispatcher[e]
    BY <1>2
  <2> QED  BY <1>0, <1>2, <2>1 DEF Exclusion, MessagesOK
<1>8. (\A j \in Jobs : row[j].token <= lastToken)' /\ DispatchedWasAccepted'
  BY <1>0 DEF Exclusion, DispatchedWasAccepted
<1> QED  BY <1>3, <1>4, <1>5, <1>6, <1>7, <1>8 DEF Exclusion

\* Publishing moves a claim out of Unsent together with its message.
LEMMA PublishStep ==
  ASSUME IInv, NEW d \in Dispatchers, Publish(d)
  PROVE  Exclusion'
<1>0. /\ TypeOK /\ Exclusion /\ LocalOK(dispatcher[d])
      /\ UNCHANGED <<row, lastToken>>
      /\ dispatcher[d].pc = "sending"
      /\ \A e \in Dispatchers : Held(e) \in SUBSET Claim
  BY HeldType DEF IInv, Exclusion, Publish
<1>1. PICK c \in dispatcher[d].claims, accepted \in BOOLEAN, raised \in BOOLEAN :
         /\ accepted \/ raised
         /\ broker' = IF accepted THEN broker \cup {<<c.job, c.attempts>>} ELSE broker
         /\ dispatcher' = [dispatcher EXCEPT
              ![d].pc = IF raised THEN "refused" ELSE "accepted",
              ![d].claims = @ \ {c},
              ![d].current = c]
  BY DEF Publish
<1>2. /\ dispatcher'[d].claims = dispatcher[d].claims \ {c}
      /\ dispatcher'[d].current = c
      /\ dispatcher'[d].pc \in {"accepted", "refused"}
      /\ \A e \in Dispatchers : dispatcher'[e].picks = dispatcher[e].picks
      /\ \A e \in Dispatchers \ {d} : dispatcher'[e] = dispatcher[e]
  BY <1>1 DEF TypeOK, Dispatcher, IInv
<1>2a. dispatcher'[d].pc = "accepted" => broker' = broker \cup {<<c.job, c.attempts>>}
  <2>1. dispatcher'[d].pc = IF raised THEN "refused" ELSE "accepted"
    BY <1>0, <1>1 DEF TypeOK, Dispatcher
  <2>2. CASE raised
    BY <2>1, <2>2
  <2>3. CASE ~raised
    BY <1>1, <2>3
  <2> QED  BY <2>2, <2>3
<1>2b. broker \subseteq broker' /\ broker' \subseteq broker \cup {<<c.job, c.attempts>>}
  BY <1>1
<1>3. \A e \in Dispatchers : Held(e)' = Held(e) /\ Unsent(e)' \subseteq Unsent(e)
  <2>1. Held(d) = dispatcher[d].claims
    BY <1>0 DEF Held, Unsent
  <2>2. Held(d)' = (dispatcher[d].claims \ {c}) \cup {c}
    BY <1>2 DEF Held, Unsent
  <2>3. \A e \in Dispatchers \ {d} : Held(e)' = Held(e) /\ Unsent(e)' = Unsent(e)
    BY <1>2 DEF Held, Unsent
  <2>4. Unsent(d)' \subseteq Unsent(d)
    BY <1>2 DEF Unsent
  <2> QED  BY <2>1, <2>2, <2>3, <2>4
<1>4. c \in Held(d) /\ c \in Unsent(d) /\ c \in Claim /\ ClaimOK(c)
  BY <1>0 DEF Held, Unsent, Exclusion
<1>5. \A e \in Dispatchers : \A p \in dispatcher'[e].picks : PickOK(p)'
  BY <1>0, <1>2 DEF Exclusion, PickOK
<1>6. PicksExclusive'
  BY <1>0, <1>2 DEF Exclusion, PicksExclusive
<1>7. \A e \in Dispatchers : \A b \in Held(e)' : ClaimOK(b)'
  BY <1>0, <1>3 DEF Exclusion, ClaimOK
<1>8. ClaimsExclusive'
  BY <1>0, <1>3 DEF Exclusion, ClaimsExclusive
<1>9. MessagesOK'
  <2>1. \A m \in broker' : m[2] \in 1 .. MaxAttempts /\ m[2] <= row'[m[1]].attempts
    BY <1>0, <1>2b, <1>4 DEF Exclusion, MessagesOK, ClaimOK
  <2>2. ASSUME NEW e \in Dispatchers, NEW b \in Unsent(e)'
        PROVE  <<b.job, b.attempts>> \notin broker'
    <3>1. b \in Unsent(e) /\ b \in Held(e) /\ <<b.job, b.attempts>> \notin broker
      BY <1>0, <1>3, <2>2 DEF Exclusion, MessagesOK, Held
    <3>2. ~ (b.job = c.job /\ b.attempts = c.attempts)
      <4>1. CASE e = d
        <5>1. b # c
          BY <1>2, <2>2, <4>1 DEF Unsent
        <5> QED  BY <1>0, <1>4, <3>1, <5>1 DEF Exclusion, ClaimsExclusive
      <4>2. CASE e # d
        BY <1>0, <1>4, <3>1, <4>2 DEF Exclusion, ClaimsExclusive
      <4> QED  BY <4>1, <4>2
    <3> QED  BY <1>2b, <3>1, <3>2
  <2>3. ASSUME NEW e \in Dispatchers, dispatcher'[e].pc = "accepted"
        PROVE  <<dispatcher'[e].current.job, dispatcher'[e].current.attempts>> \in broker'
    <3>1. CASE e = d
      BY <1>2, <1>2a, <2>3, <3>1
    <3>2. CASE e # d
      <4>1. dispatcher'[e] = dispatcher[e]
        BY <1>2, <3>2
      <4> QED  BY <1>0, <1>2b, <2>3, <4>1 DEF Exclusion, MessagesOK
    <3> QED  BY <3>1, <3>2
  <2> QED  BY <2>1, <2>2, <2>3 DEF MessagesOK
<1>10. (\A j \in Jobs : row[j].token <= lastToken)' /\ DispatchedWasAccepted'
  BY <1>0, <1>2b DEF Exclusion, DispatchedWasAccepted
<1> QED  BY <1>5, <1>6, <1>7, <1>8, <1>9, <1>10 DEF Exclusion
\* A committing claim counts a new attempt of every row it holds, so its claims
\* are new, and older claims and messages of those rows are of earlier attempts.
LEMMA CommitStep ==
  ASSUME IInv, NEW d \in Dispatchers, ClaimCommit(d)
  PROVE  Exclusion'
<1> DEFINE picks   == dispatcher[d].picks
           picked  == {p.job : p \in picks}
           pick(j) == CHOOSE p \in picks : p.job = j
           token   == lastToken + 1
           claims  == {[job |-> p.job, attempts |-> p.attempts, token |-> token]
                         : p \in {q \in picks : ~q.dead}}
<1>0. /\ TypeOK /\ Exclusion /\ LocalOK(dispatcher[d])
      /\ dispatcher[d].pc = "claiming"
      /\ lastToken' = token /\ broker' = broker
      /\ \A e \in Dispatchers : Held(e) \in SUBSET Claim
      /\ \A e \in Dispatchers : dispatcher[e].picks \in SUBSET Pick
  BY HeldType DEF IInv, Exclusion, ClaimCommit, TypeOK, Dispatcher
<1>1. /\ dispatcher'[d].picks = {}
      /\ Unsent(d)' = claims /\ Held(d)' = claims
      /\ dispatcher'[d].pc # "accepted"
      /\ \A e \in Dispatchers \ {d} : dispatcher'[e] = dispatcher[e]
  BY <1>0 DEF ClaimCommit, IdleDispatcher, TypeOK, Dispatcher, Unsent, Held
<1>2. \A e \in Dispatchers \ {d} : Unsent(e)' = Unsent(e) /\ Held(e)' = Held(e)
  BY <1>1 DEF Unsent, Held
<1>3. \A j \in Jobs \ picked : row'[j] = row[j]
  BY DEF ClaimCommit
<1>4. ASSUME NEW p \in picks
      PROVE  /\ p.job \in Jobs /\ p.attempts \in Nat /\ PickOK(p)
             /\ row'[p.job] = ClaimedRow(p, token)
  <2>1. p \in Pick /\ PickOK(p) /\ p.job \in Jobs /\ p.job \in picked
    BY <1>0 DEF Exclusion, Pick
  <2>2. pick(p.job) \in picks /\ pick(p.job).job = p.job
    BY <1>0, <2>1, PickChosen
  <2>3. pick(p.job) = p
    BY <1>0, <2>2 DEF Exclusion, PicksExclusive
  <2>4. row'[p.job] = ClaimedRow(pick(p.job), token)
    BY <2>1 DEF ClaimCommit
  <2> QED  BY <2>1, <2>3, <2>4 DEF Pick
<1>5. ASSUME NEW p \in picks
      PROVE  /\ row'[p.job].attempts = p.attempts
             /\ row'[p.job].attempts = row[p.job].attempts + 1
             /\ row'[p.job].token = IF p.dead THEN NoToken ELSE token
             /\ row'[p.job].status \in {"dead_letter", "dispatching"}
  <2>1. row[p.job] \in Row /\ row'[p.job] = ClaimedRow(p, token)
        /\ p.attempts = row[p.job].attempts + 1
    BY <1>0, <1>4 DEF PickOK, TypeOK
  <2>2. CASE p.dead
    BY <2>1, <2>2 DEF ClaimedRow, Row
  <2>3. CASE ~p.dead
    BY <2>1, <2>3 DEF ClaimedRow, Row
  <2> QED  BY <2>2, <2>3
<1>6. ASSUME NEW c \in claims
      PROVE  \E p \in picks : ~p.dead /\ c = [job |-> p.job, attempts |-> p.attempts, token |-> token]
  OBVIOUS
<1>7. \A j \in Jobs : row[j].attempts \in Nat /\ row[j].attempts <= row'[j].attempts
  BY <1>0, <1>3, <1>5 DEF TypeOK, Row
<1>8. \A e \in Dispatchers : \A p \in dispatcher'[e].picks : PickOK(p)'
  <2> SUFFICES ASSUME NEW e \in Dispatchers \ {d}, NEW p \in dispatcher[e].picks
               PROVE  PickOK(p)'
    BY <1>1
  <2>1. p.job \in Jobs /\ p.job \notin picked /\ PickOK(p)
    BY <1>0 DEF Exclusion, PicksExclusive, Pick
  <2> QED  BY <1>3, <2>1 DEF PickOK
<1>9. PicksExclusive'
  BY <1>0, <1>1 DEF Exclusion, PicksExclusive
<1>10. ASSUME NEW e \in Dispatchers, NEW c \in Held(e)' PROVE ClaimOK(c)'
  <2>1. CASE e = d
    <3> PICK p \in picks : ~p.dead /\ c = [job |-> p.job, attempts |-> p.attempts, token |-> token]
      BY <1>1, <1>6, <1>10, <2>1
    <3>1. p.attempts \in 1 .. MaxAttempts /\ token \in 1 .. lastToken'
      BY <1>0, <1>4, <1>7 DEF PickOK, TypeOK
    <3> QED  BY <1>4, <1>5, <3>1 DEF ClaimOK
  <2>2. CASE e # d
    <3>1. c \in Claim /\ ClaimOK(c) /\ c.job \in Jobs
      BY <1>0, <1>2, <1>10, <2>2 DEF Exclusion, Claim
    <3>2. /\ c.attempts <= row'[c.job].attempts
          /\ c.token \in 1 .. lastToken' /\ c.token # token /\ c.token # 0
      <4>1. c.token \in 1 .. lastToken /\ lastToken \in Nat
        BY <1>0, <3>1 DEF ClaimOK, TypeOK
      <4>2. c.attempts \in Nat /\ c.attempts <= row[c.job].attempts
        BY <3>1 DEF ClaimOK, Claim
      <4>3. row[c.job].attempts <= row'[c.job].attempts
            /\ row[c.job].attempts \in Nat /\ row'[c.job].attempts \in Nat
        BY <1>0, <1>3, <1>4, <1>5, <1>7, <3>1 DEF TypeOK
      <4> QED  BY <1>0, <4>1, <4>2, <4>3
    <3>3. c.token = row'[c.job].token => c.job \notin picked
      BY <1>5, <3>2 DEF NoToken
    <3> QED  BY <1>3, <3>1, <3>2, <3>3 DEF ClaimOK
  <2> QED  BY <2>1, <2>2
<1>11. ASSUME NEW c \in claims, NEW n \in Nat, n <= row[c.job].attempts
       PROVE  n # c.attempts /\ c.job \in Jobs
  BY <1>4, <1>5, <1>6, <1>7, <1>11
<1>12. ClaimsExclusive'
  <2> SUFFICES ASSUME NEW e \in Dispatchers, NEW f \in Dispatchers,
                      NEW c \in Held(e)', NEW b \in Held(f)',
                      c.job = b.job, c.attempts = b.attempts
               PROVE  e = f /\ c = b
    BY DEF ClaimsExclusive
  <2>1. \A g \in Dispatchers \ {d} : \A a \in Held(g)' :
          a \in Held(g) /\ a.attempts \in Nat /\ a.attempts <= row[a.job].attempts
    BY <1>0, <1>2 DEF Exclusion, ClaimOK, Claim
  <2>2. CASE e = d /\ f = d
    BY <1>1, <1>6, <2>2
  <2>3. CASE e # d /\ f # d
    BY <1>0, <2>1, <2>3 DEF Exclusion, ClaimsExclusive
  <2>4. CASE e = d /\ f # d
    BY <1>1, <1>11, <2>1, <2>4
  <2>5. CASE e # d /\ f = d
    BY <1>1, <1>11, <2>1, <2>5
  <2> QED  BY <2>2, <2>3, <2>4, <2>5
<1>13. MessagesOK'
  <2>1. \A m \in broker : /\ m[1] \in Jobs /\ m[2] \in Nat
                          /\ m[2] \in 1 .. MaxAttempts /\ m[2] <= row[m[1]].attempts
    BY <1>0 DEF TypeOK, Exclusion, MessagesOK
  <2>2. \A m \in broker : m[2] <= row'[m[1]].attempts
    <3> SUFFICES ASSUME NEW m \in broker PROVE m[2] <= row'[m[1]].attempts
      OBVIOUS
    <3>1. m[1] \in Jobs \ picked => row'[m[1]] = row[m[1]]
      BY <1>3
    <3>2. m[1] \in picked => row'[m[1]].attempts = row[m[1]].attempts + 1
      BY <1>5
    <3> QED  BY <1>7, <2>1, <3>1, <3>2
  <2>3. \A e \in Dispatchers : \A c \in Unsent(e)' : <<c.job, c.attempts>> \notin broker
    <3> SUFFICES ASSUME NEW e \in Dispatchers, NEW c \in Unsent(e)',
                        <<c.job, c.attempts>> \in broker
                 PROVE  FALSE
      OBVIOUS
    <3>1. CASE e = d
      <4>1. c.attempts \in Nat /\ c.attempts <= row[c.job].attempts
        BY <2>1
      <4> QED  BY <1>1, <1>11, <3>1, <4>1
    <3>2. CASE e # d
      BY <1>0, <1>2, <3>2 DEF Exclusion, MessagesOK
    <3> QED  BY <3>1, <3>2
  <2>4. \A e \in Dispatchers : dispatcher'[e].pc = "accepted" => dispatcher'[e] = dispatcher[e]
    BY <1>1
  <2> QED  BY <1>0, <2>1, <2>2, <2>3, <2>4 DEF Exclusion, MessagesOK
<1>14. \A j \in Jobs : row'[j].token <= lastToken'
  <2> SUFFICES ASSUME NEW j \in Jobs PROVE row'[j].token <= lastToken + 1
    BY <1>0
  <2>1. CASE j \in picked
    BY <1>0, <1>5, <2>1 DEF NoToken, TypeOK
  <2>2. CASE j \notin picked
    BY <1>0, <1>3, <2>2 DEF Exclusion, TypeOK, Row
  <2> QED  BY <2>1, <2>2
<1>15. DispatchedWasAccepted'
  <2> SUFFICES ASSUME NEW j \in Jobs, row'[j].status = "dispatched"
               PROVE  row[j].status = "dispatched"
    BY <1>0 DEF Exclusion, DispatchedWasAccepted
  <2> QED  BY <1>3, <1>5
<1> QED  BY <1>8, <1>9, <1>10, <1>12, <1>13, <1>14, <1>15 DEF Exclusion

\* The steps that claim and publish nothing, one by one.
LEMMA OtherStep ==
  ASSUME IInv, [Next]_vars,
         \A d \in Dispatchers : ~ClaimSelect(d) /\ ~ClaimCommit(d) /\ ~Publish(d)
  PROVE  RowsRespected /\ NothingTaken /\ UNCHANGED <<broker, lastToken>>
<1>0. /\ TypeOK /\ MessagesOK /\ DispatchedWasAccepted
      /\ \A d \in Dispatchers : LocalOK(dispatcher[d])
      /\ \A d \in Dispatchers : \A c \in Held(d) : ClaimOK(c)
      /\ \A d \in Dispatchers : Held(d) \in SUBSET Claim
      /\ \A j \in Jobs : row[j] \in Row
  BY HeldType DEF IInv, TypeOK
<1>1. \A j \in Jobs : Locked(j) => row[j].status \in {"pending", "dispatching"}
  BY DEF IInv, Locked, PickOK
<1>2. ASSUME UNCHANGED dispatcher PROVE NothingTaken
  BY <1>2 DEF NothingTaken, Unsent, Held
<1>3. ASSUME UNCHANGED row PROVE RowsRespected
  BY <1>3 DEF RowsRespected
<1>4. ASSUME NEW j \in Jobs, Enqueue(j)
      PROVE  RowsRespected /\ NothingTaken /\ UNCHANGED <<broker, lastToken>>
  <2>1. ~Locked(j)
    BY <1>1, <1>4 DEF Enqueue
  <2>2. RowsRespected
    BY <1>0, <1>4, <2>1 DEF Enqueue, RowsRespected, TypeOK, Row
  <2> QED  BY <1>2, <1>4, <2>2 DEF Enqueue
<1>5. ASSUME NEW j \in Jobs, DeleteJob(j)
      PROVE  RowsRespected /\ NothingTaken /\ UNCHANGED <<broker, lastToken>>
  <2>1. RowsRespected
    BY <1>0, <1>5 DEF DeleteJob, RowsRespected, TypeOK, Row
  <2> QED  BY <1>2, <1>5, <2>1 DEF DeleteJob
<1>6. ASSUME NEW j \in Jobs, CancelCheck(j) \/ ConsumerStep(j)
      PROVE  RowsRespected /\ NothingTaken /\ UNCHANGED <<broker, lastToken>>
  BY <1>2, <1>3, <1>6 DEF CancelCheck, ConsumerStep
<1>7. ASSUME NEW j \in Jobs, CancelWrite(j)
      PROVE  RowsRespected /\ NothingTaken /\ UNCHANGED <<broker, lastToken>>
  <2>1. RowsRespected
    <3>1. CASE UNCHANGED row
      BY <1>3, <3>1
    <3>2. CASE row' = [row EXCEPT ![j].status =
                         IF @ \in {"pending", "dispatching"} THEN "cancelled" ELSE @]
      BY <1>0, <1>7, <3>2 DEF CancelWrite, RowsRespected, TypeOK, Row
    <3> QED  BY <1>7, <3>1, <3>2 DEF CancelWrite
  <2> QED  BY <1>2, <1>7, <2>1 DEF CancelWrite
<1>8. ASSUME NEW d \in Dispatchers, Ack(d)
      PROVE  RowsRespected /\ NothingTaken /\ UNCHANGED <<broker, lastToken>>
  <2> DEFINE c == dispatcher[d].current
  <2>1. c \in Claim /\ c \in Held(d) /\ ClaimOK(c) /\ c.job \in Jobs
    BY <1>0, <1>8 DEF Ack, Held, LocalOK, Claim
  <2>2. RowsRespected
    <3>1. CASE OwnsLease(c)
      <4>1. PICK delay : row' = [row EXCEPT ![c.job] =
                                   AckedRow(c, dispatcher[d].pc = "accepted", delay)]
        BY <1>8, <3>1 DEF Ack
      <4>2. ~Locked(c.job)
        BY <1>8, <3>1 DEF Ack
      <4>3. \A j \in Jobs \ {c.job} : row'[j] = row[j]
        BY <4>1
      <4>4. /\ row'[c.job].attempts = row[c.job].attempts
            /\ row'[c.job].token = NoToken
        BY <1>0, <2>1, <4>1 DEF AckedRow, TypeOK, Row
      <4>5. row'[c.job].status = "dispatched" => dispatcher[d].pc = "accepted"
        BY <1>0, <2>1, <4>1 DEF AckedRow, TypeOK, Row
      <4>6. dispatcher[d].pc = "accepted" => \E n \in 1 .. MaxAttempts : <<c.job, n>> \in broker
        BY <1>0, <2>1 DEF MessagesOK, ClaimOK
      <4> QED  BY <4>2, <4>3, <4>4, <4>5, <4>6 DEF RowsRespected
    <3>2. CASE ~OwnsLease(c)
      BY <1>3, <1>8, <3>2 DEF Ack
    <3> QED  BY <3>1, <3>2
  <2>3. /\ dispatcher'[d].pc \notin {"accepted", "refused"}
        /\ dispatcher'[d].picks = dispatcher[d].picks
        /\ dispatcher'[d].claims = dispatcher[d].claims
        /\ \A e \in Dispatchers \ {d} : dispatcher'[e] = dispatcher[e]
    BY <1>0, <1>8 DEF Ack, TypeOK, Dispatcher
  <2>4. NothingTaken
    BY <2>3 DEF NothingTaken, Unsent, Held
  <2> QED  BY <1>8, <2>2, <2>4 DEF Ack
<1>9. ASSUME NEW d \in Dispatchers, Abandon(d)
      PROVE  RowsRespected /\ NothingTaken /\ UNCHANGED <<broker, lastToken>>
  <2>1. /\ dispatcher'[d] = IdleDispatcher
        /\ \A e \in Dispatchers \ {d} : dispatcher'[e] = dispatcher[e]
    BY <1>0, <1>9 DEF Abandon, TypeOK
  <2>2. NothingTaken
    BY <2>1 DEF NothingTaken, Unsent, Held, IdleDispatcher
  <2> QED  BY <1>3, <1>9, <2>2 DEF Abandon
<1>10. ASSUME Tick
       PROVE  RowsRespected /\ NothingTaken /\ UNCHANGED <<broker, lastToken>>
  <2>1. RowsRespected
    BY <1>0, <1>10 DEF Tick, RowsRespected, DispatchedWasAccepted, Row
  <2> QED  BY <1>2, <1>10, <2>1 DEF Tick
<1>11. ASSUME UNCHANGED vars
       PROVE  RowsRespected /\ NothingTaken /\ UNCHANGED <<broker, lastToken>>
  BY <1>2, <1>3, <1>11 DEF vars
<1> QED
  BY <1>4, <1>5, <1>6, <1>7, <1>8, <1>9, <1>10, <1>11 DEF Next

\* The invariant holds before anything was enqueued.
LEMMA InvInit == Init => IInv
<1> SUFFICES ASSUME Init PROVE IInv
  OBVIOUS
<1>1. TypeOK
  BY TypeInit
<1>2. \A d \in Dispatchers : /\ LocalOK(dispatcher[d])
                             /\ Held(d) = {} /\ Unsent(d) = {} /\ dispatcher[d].picks = {}
                             /\ dispatcher[d].pc = "idle"
  BY DEF Init, LocalOK, Held, Unsent, IdleDispatcher
<1>3. PicksExclusive /\ ClaimsExclusive
  BY <1>2 DEF PicksExclusive, ClaimsExclusive
<1>4. MessagesOK
  BY <1>2 DEF Init, MessagesOK
<1>5. (\A j \in Jobs : row[j].token <= lastToken) /\ DispatchedWasAccepted
  BY DEF Init, DispatchedWasAccepted, NoToken
<1> QED
  BY <1>1, <1>2, <1>3, <1>4, <1>5 DEF IInv

\* Every step keeps the invariant.
LEMMA InvStep == IInv /\ [Next]_vars => IInv'
<1> SUFFICES ASSUME IInv, [Next]_vars PROVE IInv'
  OBVIOUS
<1>1. TypeOK' /\ \A d \in Dispatchers : LocalOK(dispatcher[d])'
  BY TypeStep, LocalStep DEF IInv
<1>2. Exclusion'
  <2>1. CASE \E d \in Dispatchers : ClaimSelect(d)
    BY <2>1, SelectStep
  <2>2. CASE \E d \in Dispatchers : ClaimCommit(d)
    BY <2>2, CommitStep
  <2>3. CASE \E d \in Dispatchers : Publish(d)
    BY <2>3, PublishStep
  <2>4. CASE \A d \in Dispatchers : ~ClaimSelect(d) /\ ~ClaimCommit(d) /\ ~Publish(d)
    BY <2>4, OtherStep, QuietStep
  <2> QED  BY <2>1, <2>2, <2>3, <2>4
<1> QED  BY <1>1, <1>2 DEF IInv, Exclusion

\* The inductive invariant of the outbox.
THEOREM Invariant == Spec => []IInv
BY InvInit, InvStep, PTL DEF Spec

\* The rows, jobs, dispatchers and messages are always well formed.
THEOREM TypeCorrect == Spec => []TypeOK
<1>1. IInv => TypeOK
  BY DEF IInv
<1> QED  BY <1>1, Invariant, PTL

\* For any number of overlapping dispatchers, crashes and reclaims, each of at
\* most MaxAttempts attempts of a job is published at most once.
THEOREM PublishBounded == Spec => []PublishBound
<1>1. IInv => PublishBound
  <2> SUFFICES ASSUME IInv PROVE PublishBound
    OBVIOUS
  <2>1. ASSUME NEW d \in Dispatchers, NEW c \in Unsent(d)
        PROVE  c \in Held(d) /\ ClaimOK(c) /\ <<c.job, c.attempts>> \notin broker
    BY <2>1 DEF IInv, Held, MessagesOK
  <2>2. ASSUME NEW d \in Dispatchers, NEW c \in Unsent(d),
               NEW e \in Dispatchers \ {d}, NEW b \in Held(e), b.job = c.job
        PROVE  b.attempts # c.attempts
    BY <2>1, <2>2 DEF IInv, ClaimsExclusive
  <2>3. \A m \in broker : m[2] \in 1 .. MaxAttempts
    BY DEF IInv, MessagesOK
  <2> QED  BY <2>1, <2>2, <2>3 DEF PublishBound, ClaimOK
<1> QED  BY <1>1, Invariant, PTL

\* A dispatcher that was overtaken cannot settle the row with its old lease.
THEOREM StaleClaimsPowerless == Spec => []StaleClaimHasNoLease
<1>1. IInv => StaleClaimHasNoLease
  BY DEF IInv, StaleClaimHasNoLease, OwnsLease, ClaimOK
<1> QED  BY <1>1, Invariant, PTL

\* Nothing is marked dispatched that the broker has not accepted.
THEOREM DispatchedAccepted == Spec => []DispatchedWasAccepted
<1>1. IInv => DispatchedWasAccepted
  BY DEF IInv
<1> QED  BY <1>1, Invariant, PTL

\* A settled row changes only by being deleted with its job.
THEOREM SettledStay == Spec => SettledRowsStay
<1> DEFINE Stays == \A j \in Jobs : row[j].status \in Settled =>
                      row'[j].status \in {row[j].status, "deleted"}
<1>1. IInv /\ [Next]_vars => [Stays]_vars
  <2> SUFFICES ASSUME IInv, Next, NEW j \in Jobs, row[j].status \in Settled
               PROVE  row'[j].status \in {row[j].status, "deleted"}
    OBVIOUS
  <2>0. TypeOK /\ row[j] \in Row /\ \A d \in Dispatchers : LocalOK(dispatcher[d])
    BY DEF IInv, TypeOK
  <2>1. \A d \in Dispatchers : \A p \in dispatcher[d].picks : p.job # j
    BY DEF IInv, PickOK, Settled
  <2>2. ASSUME NEW i \in Jobs, Enqueue(i) \/ DeleteJob(i)
        PROVE  row'[j].status \in {row[j].status, "deleted"}
    BY <2>0, <2>2 DEF Enqueue, DeleteJob, TypeOK, Row, Settled
  <2>3. ASSUME NEW i \in Jobs, CancelWrite(i)
        PROVE  row'[j].status \in {row[j].status, "deleted"}
    BY <2>0, <2>3 DEF CancelWrite, TypeOK, Row, Settled
  <2>4. ASSUME NEW d \in Dispatchers, ClaimCommit(d)
        PROVE  row'[j].status \in {row[j].status, "deleted"}
    BY <2>1, <2>4 DEF ClaimCommit
  <2>5. ASSUME NEW d \in Dispatchers, Ack(d)
        PROVE  row'[j].status \in {row[j].status, "deleted"}
    <3>1. OwnsLease(dispatcher[d].current) => dispatcher[d].current.job # j
      BY DEF OwnsLease, Settled
    <3> QED  BY <2>0, <2>5, <3>1 DEF Ack, TypeOK
  <2>6. ASSUME Tick
        PROVE  row'[j].status \in {row[j].status, "deleted"}
    BY <2>0, <2>6 DEF Tick, Row
  <2> QED
    BY <2>2, <2>3, <2>4, <2>5, <2>6
       DEF Next, CancelCheck, ConsumerStep, ClaimSelect, Publish, Abandon
<1> QED  BY <1>1, Invariant, PTL DEF Spec, SettledRowsStay
=============================================================================
