------------------------- MODULE EffectLedgerProofs -------------------------
(***************************************************************************)
(* Proofs about EffectLedger, for any number of deliveries, faults and     *)
(* retries, any lease and any time limit, the lease longer or shorter.     *)
(***************************************************************************)
EXTENDS EffectLedger, TLAPS

\* The numbers among the constants.
LEMMA Numbers ==
  MaxRetries \in Nat /\ MaxFaults \in Nat /\ Lease \in Nat \ {0} /\ Limit \in Nat \ {0}
  BY EffectLedgerAssumption

\* What a waiting delivery and a retried one look like.
LEMMA Waits ==
  \A r \in 0 .. MaxRetries, w \in 0 .. Lease :
    /\ Waiting(r, w) \in Delivery /\ Waiting(r, w).pc = "waiting"
  BY Numbers DEF Waiting, Delivery

\* A retry puts the delivery back or ends it; either way it does not send.
LEMMA RetriedMoves ==
  ASSUME delivery \in [Deliveries -> Delivery], NEW d \in Deliveries, NEW w \in 0 .. Lease
  PROVE  \E s \in Delivery : /\ Retried(d, w) = [delivery EXCEPT ![d] = s]
                             /\ s.pc \in {"waiting", "over"}
<1>1. delivery[d] \in Delivery
  OBVIOUS
<1>2. CASE delivery[d].retries < MaxRetries
  <2>1. delivery[d].retries + 1 \in 0 .. MaxRetries
    BY <1>1, <1>2, Numbers DEF Delivery
  <2> QED  BY <1>2, <2>1, Waits DEF Retried
<1>3. CASE ~(delivery[d].retries < MaxRetries)
  <2> DEFINE s == [delivery[d] EXCEPT !.pc = "over"]
  <2>1. s \in Delivery /\ s.pc = "over"
    BY <1>1 DEF Delivery
  <2>2. Retried(d, w) = [delivery EXCEPT ![d] = s]
    BY <1>3 DEF Retried
  <2> QED  BY <2>1, <2>2
<1> QED  BY <1>2, <1>3

-----------------------------------------------------------------------------
(* What the actions do to the sending deliveries                           *)

\* d stays or becomes somebody who does not send; the row may be marked.
Leaves(d) ==
  \E s \in Delivery : /\ delivery' = [delivery EXCEPT ![d] = s] /\ s.pc \notin Sending
                      /\ UNCHANGED overran

\* d claims the effect.
Claims(d) ==
  /\ delivery[d].pc \in {"begin", "insert"}
  /\ \/ row.status = "absent"
     \/ row.status = "failed"
     \/ row.status = "in_flight" /\ Stale(d)
  /\ Claimed(d, NextAttempt)
  /\ UNCHANGED <<accepted, faults>>

\* What every step is, as far as the invariants can see.
LEMMA Steps ==
  ASSUME TypeOK, Next
  PROVE  \/ Tick
         \/ \E d \in Deliveries : Claims(d)
         \/ \E d \in Deliveries : Call(d)
         \/ \E d \in Deliveries : Leaves(d) /\ accepted' = accepted /\ faults' \in Nat /\ row' = row
         \/ \E d \in Deliveries : (Succeed(d) \/ Fail(d)) /\ Leaves(d)
<1>0. delivery \in [Deliveries -> Delivery] /\ faults \in Nat
  BY DEF TypeOK
<1>1. CASE Tick
  BY <1>1
<1>2. ASSUME NEW d \in Deliveries, Run(d) \/ WorkerLost(d) \/ DatabaseFails(d),
             ~Claims(d), ~Call(d)
      PROVE  /\ Leaves(d)
             /\ \/ Succeed(d) \/ Fail(d)
                \/ accepted' = accepted /\ faults' \in Nat /\ row' = row
  <2>0. delivery[d] \in Delivery /\ delivery[d].retries \in 0 .. MaxRetries
    BY <1>0 DEF Delivery
  <2>1. \A pc \in {"insert", "begin", "over", "killed"} :
          /\ [delivery[d] EXCEPT !.pc = pc] \in Delivery
          /\ [delivery[d] EXCEPT !.pc = pc].pc = pc
          /\ [delivery EXCEPT ![d].pc = pc] = [delivery EXCEPT ![d] = [delivery[d] EXCEPT !.pc = pc]]
    BY <2>0 DEF Delivery
  <2>2. ASSUME NEW pc \in {"insert", "begin", "over", "killed"},
               delivery' = [delivery EXCEPT ![d].pc = pc], UNCHANGED overran
        PROVE  Leaves(d)
    BY <2>1, <2>2 DEF Leaves, Sending
  <2>3. ASSUME NEW w \in 0 .. Lease, delivery' = Retried(d, w), UNCHANGED overran
        PROVE  Leaves(d)
    BY <1>0, <2>3, RetriedMoves DEF Leaves, Sending
  <2>4. 0 \in 0 .. Lease /\ Lease \in 0 .. Lease
    BY Numbers
  <2>5. CASE Start(d)
    <3> DEFINE s == [delivery[d] EXCEPT !.pc = "begin", !.age = 0]
    <3>1. s \in Delivery /\ s.pc = "begin"
      <4>1. 0 \in 0 .. Limit /\ "begin" \in {"waiting", "begin", "insert", "over", "killed"} \cup Sending
        BY Numbers
      <4> QED  BY <2>0, <4>1 DEF Delivery
    <3>2. delivery' = [delivery EXCEPT ![d] = s]
      BY <1>0, <2>5 DEF Start
    <3>3. Leaves(d)
      <4> HIDE DEF s
      <4> QED  BY <2>5, <3>1, <3>2 DEF Start, Leaves, Sending
    <3> QED  BY <1>0, <2>5, <3>3 DEF Start
  <2>6. CASE FindNothing(d)
    BY <1>0, <2>2, <2>6 DEF FindNothing
  <2>7. CASE Insert(d)
    BY <1>0, <1>2, <2>2, <2>7 DEF Insert, Claims
  <2>8. CASE Deduplicate(d)
    BY <1>0, <2>2, <2>8 DEF Deduplicate
  <2>9. CASE Defer(d)
    BY <1>0, <2>3, <2>4, <2>9 DEF Defer
  <2>10. CASE Reclaim(d)
    <3>1. Claims(d)
      BY <2>10 DEF Reclaim, Claims
    <3> QED  BY <1>2, <3>1
  <2>11. CASE Succeed(d)
    <3>1. Leaves(d)
      BY <2>2, <2>11 DEF Succeed
    <3> QED  BY <2>11, <3>1
  <2>12. CASE Fail(d)
    <3>1. Leaves(d)
      BY <2>3, <2>4, <2>12 DEF Fail
    <3> QED  BY <2>12, <3>1
  <2>13. CASE WorkerLost(d)
    <3>1. CASE delivery' = [delivery EXCEPT ![d] = Waiting(@.retries, 0)]
      <4>1. Waiting(delivery[d].retries, 0) \in Delivery /\ Waiting(delivery[d].retries, 0).pc = "waiting"
        BY <2>0, <2>4, Waits
      <4>2. delivery' = [delivery EXCEPT ![d] = Waiting(delivery[d].retries, 0)]
        BY <3>1
      <4>3. Leaves(d)
        BY <2>13, <4>1, <4>2 DEF WorkerLost, Leaves, Sending
      <4> QED  BY <1>0, <2>13, <4>3 DEF WorkerLost
    <3> QED  BY <1>0, <2>2, <2>13, <3>1 DEF WorkerLost
  <2>14. CASE DatabaseFails(d)
    BY <1>0, <2>3, <2>4, <2>14 DEF DatabaseFails
  <2> QED
    BY <1>2, <2>5, <2>6, <2>7, <2>8, <2>9, <2>10, <2>11, <2>12, <2>13, <2>14 DEF Run, Begin
<1> QED  BY <1>1, <1>2 DEF Next

-----------------------------------------------------------------------------
(* Types                                                                   *)

\* A claim leaves a well-formed row and delivery.
LEMMA ClaimType ==
  ASSUME TypeOK, NEW d \in Deliveries, Claims(d)
  PROVE  /\ row' = [status |-> "in_flight", attempts |-> row.attempts + 1,
                    left |-> Lease - delivery[d].age]
         /\ row' \in Row
         /\ delivery' \in [Deliveries -> Delivery]
         /\ delivery'[d].pc = "send" /\ delivery'[d].attempt = row.attempts + 1
         /\ delivery'[d].age = delivery[d].age
         /\ \A c \in Deliveries : c # d => delivery'[c] = delivery[c]
         /\ overran' \in BOOLEAN /\ accepted' = accepted /\ faults' = faults
         /\ ~overran' => ~overran /\ delivery[d].age < Lease
<1>0. row \in Row /\ delivery \in [Deliveries -> Delivery] /\ row.attempts + 1 \in Nat
  BY DEF TypeOK, Row
<1>1. delivery[d].age \in 0 .. Limit
  BY <1>0 DEF Delivery
<1>2. Lease - delivery[d].age \in -Limit .. Lease
  BY <1>1, Numbers
<1>3. row' = [status |-> "in_flight", attempts |-> row.attempts + 1, left |-> Lease - delivery[d].age]
  BY DEF Claims, Claimed, NextAttempt
<1>4. row' \in Row
  BY <1>0, <1>2, <1>3 DEF Row
<1> DEFINE s == [delivery[d] EXCEPT !.pc = "send", !.attempt = row.attempts + 1]
<1>5. /\ s \in Delivery /\ s.pc = "send" /\ s.attempt = row.attempts + 1
      /\ s.age = delivery[d].age
  BY <1>0 DEF Delivery, Sending
<1>6. delivery' = [delivery EXCEPT ![d] = s]
  BY <1>0 DEF Claims, Claimed, NextAttempt
<1>7. overran' \in BOOLEAN /\ accepted' = accepted /\ faults' = faults
  BY DEF Claims, Claimed
<1>8. ~overran' => ~overran /\ ~(delivery[d].age >= Lease)
  BY DEF Claims, Claimed
<1>9. ~(delivery[d].age >= Lease) => delivery[d].age < Lease
  BY <1>1, Numbers
<1> HIDE DEF s
<1> QED  BY <1>0, <1>3, <1>4, <1>5, <1>6, <1>7, <1>8, <1>9

\* What a sender does when the provider has answered it, or has not.
LEMMA CallMoves ==
  ASSUME TypeOK, NEW d \in Deliveries, Call(d)
  PROVE  /\ delivery[d].pc = "send" /\ row' = row /\ overran' = overran /\ faults' \in Nat
         /\ accepted \subseteq accepted'
         /\ accepted' \subseteq accepted \cup {delivery[d].attempt}
         /\ \E pc \in {"sent", "failing"} :
              /\ delivery' = [delivery EXCEPT ![d] = [delivery[d] EXCEPT !.pc = pc]]
              /\ pc = "sent" => delivery[d].attempt \in accepted'
         /\ delivery' \in [Deliveries -> Delivery]
<1>0. delivery \in [Deliveries -> Delivery] /\ faults \in Nat
  BY DEF TypeOK
<1>1. \A pc \in {"sent", "failing"} :
        [delivery[d] EXCEPT !.pc = pc] \in Delivery
  BY <1>0 DEF Delivery, Sending
<1>2. \A pc \in {"sent", "failing"} :
        [delivery EXCEPT ![d].pc = pc] = [delivery EXCEPT ![d] = [delivery[d] EXCEPT !.pc = pc]]
  BY <1>0
<1>3. \E pc \in {"sent", "failing"} :
        /\ delivery' = [delivery EXCEPT ![d].pc = pc]
        /\ pc = "sent" => delivery[d].attempt \in accepted'
  BY DEF Call
<1>4. /\ delivery[d].pc = "send" /\ row' = row /\ overran' = overran /\ faults' \in Nat
      /\ accepted \subseteq accepted'
      /\ accepted' \subseteq accepted \cup {delivery[d].attempt}
  BY <1>0 DEF Call
<1> QED  BY <1>0, <1>1, <1>2, <1>3, <1>4

\* Time keeps row and deliveries well formed and moves nobody.
LEMMA TickMoves ==
  ASSUME TypeOK, Tick
  PROVE  /\ row' \in Row /\ delivery' \in [Deliveries -> Delivery]
         /\ row'.status = row.status /\ row'.attempts = row.attempts
         /\ row.left > -Limit => row'.left = row.left - 1
         /\ \A d \in Deliveries :
              /\ delivery'[d].pc = delivery[d].pc /\ delivery'[d].attempt = delivery[d].attempt
              /\ Executing(d) => delivery'[d].age = delivery[d].age + 1
         /\ accepted' = accepted /\ faults' = faults /\ overran' \in BOOLEAN
<1>0. row \in Row /\ delivery \in [Deliveries -> Delivery]
  BY DEF TypeOK
<1>1. row' = [row EXCEPT !.left = IF @ = -Limit THEN @ ELSE @ - 1]
  BY DEF Tick
<1> DEFINE l == IF row.left = -Limit THEN row.left ELSE row.left - 1
<1>2. l \in -Limit .. Lease /\ (row.left > -Limit => l = row.left - 1)
  BY <1>0, Numbers DEF Row
<1>3. row' = [row EXCEPT !.left = l]
  BY <1>1
<1>4. row' \in Row /\ row'.left = l /\ row'.status = row.status /\ row'.attempts = row.attempts
  <2> HIDE DEF l
  <2> QED  BY <1>0, <1>2, <1>3 DEF Row
<1> DEFINE age(d) == IF Active(d) THEN delivery[d].age + 1 ELSE delivery[d].age
           wait(d) == IF delivery[d].wait = 0 THEN 0 ELSE delivery[d].wait - 1
           s(d) == [delivery[d] EXCEPT !.age = age(d), !.wait = wait(d)]
<1>5. ASSUME NEW d \in Deliveries
      PROVE  /\ s(d) \in Delivery /\ s(d).pc = delivery[d].pc /\ s(d).attempt = delivery[d].attempt
             /\ Executing(d) => s(d).age = delivery[d].age + 1
  <2>1. delivery[d] \in Delivery
    BY <1>0
  <2>2. age(d) \in 0 .. Limit
    <3>1. delivery[d].age \in 0 .. Limit
      BY <2>1 DEF Delivery
    <3>2. Active(d) => delivery[d].age < Limit
      BY DEF Tick
    <3> HIDE DEF Active
    <3> QED  BY <3>1, <3>2, Numbers
  <2>3. wait(d) \in 0 .. Lease
    BY <2>1, Numbers DEF Delivery
  <2>4. Executing(d) => age(d) = delivery[d].age + 1
    BY DEF Executing, Active, Sending
  <2> HIDE DEF age, wait
  <2> QED  BY <2>1, <2>2, <2>3, <2>4 DEF Delivery
<1>6. delivery' = [d \in Deliveries |-> s(d)]
  BY DEF Tick
<1>7. accepted' = accepted /\ faults' = faults /\ overran' \in BOOLEAN
  BY DEF Tick
<1> HIDE DEF s, l
<1> QED  BY <1>2, <1>4, <1>5, <1>6, <1>7

\* The state is well formed at first.
LEMMA TypeInit == Init => TypeOK
<1> SUFFICES ASSUME Init PROVE TypeOK
  OBVIOUS
<1>1. Waiting(0, 0) \in Delivery
  BY Waits, Numbers
<1>2. row \in Row
  BY Numbers DEF Init, Row
<1> QED  BY <1>1, <1>2 DEF Init, TypeOK

\* Every step keeps the state well formed.
LEMMA TypeStep == TypeOK /\ [Next]_vars => TypeOK'
<1> SUFFICES ASSUME TypeOK, [Next]_vars PROVE TypeOK'
  OBVIOUS
<1>0. /\ row \in Row /\ delivery \in [Deliveries -> Delivery] /\ accepted \in SUBSET Nat
      /\ faults \in Nat /\ overran \in BOOLEAN
  BY DEF TypeOK
<1>1. CASE UNCHANGED vars
  BY <1>0, <1>1 DEF vars, TypeOK
<1>2. CASE Tick
  BY <1>0, <1>2, TickMoves DEF TypeOK
<1>3. ASSUME NEW d \in Deliveries, Claims(d) PROVE TypeOK'
  <2>1. accepted' = accepted /\ faults' = faults
    BY <1>3 DEF Claims
  <2> QED  BY <1>0, <1>3, <2>1, ClaimType DEF TypeOK
<1>4. ASSUME NEW d \in Deliveries, Call(d) PROVE TypeOK'
  <2>1. delivery[d].attempt \in Nat
    BY <1>0 DEF Delivery
  <2>2. accepted' \in SUBSET Nat
    BY <1>0, <1>4, <2>1, CallMoves
  <2> QED  BY <1>0, <1>4, <2>2, CallMoves DEF TypeOK
<1>5. ASSUME NEW d \in Deliveries, Leaves(d) PROVE delivery' \in [Deliveries -> Delivery] /\ overran' = overran
  BY <1>0, <1>5 DEF Leaves
<1>6. ASSUME NEW d \in Deliveries, Succeed(d) \/ Fail(d)
      PROVE  row' \in Row /\ accepted' = accepted /\ faults' = faults
  BY <1>0, <1>6 DEF Succeed, Fail, Recorded, Row
<1> QED  BY <1>0, <1>1, <1>2, <1>3, <1>4, <1>5, <1>6, Steps DEF TypeOK

\* TypeOK: rows and deliveries stay well formed, retries within max_retries.
THEOREM TypeCorrect == Spec => []TypeOK
  BY TypeInit, TypeStep, PTL DEF Spec

-----------------------------------------------------------------------------
(* Calls                                                                   *)

\* A sender holds an attempt that was counted; the mail of who has been answered was taken,
\* and so was that of whatever is recorded as succeeded.
Counted ==
  /\ CallsCounted
  /\ \A d \in Deliveries : Executing(d) => delivery[d].attempt \in 1 .. row.attempts
  /\ \A d \in Deliveries : delivery[d].pc = "sent" => delivery[d].attempt \in accepted
  /\ row.status = "succeeded" => accepted # {}

\* Every step keeps the attempts counted: a claim takes the next one.
LEMMA CountedStep == TypeOK /\ Counted /\ [Next]_vars => Counted'
<1> SUFFICES ASSUME TypeOK, Counted, [Next]_vars PROVE Counted'
  OBVIOUS
<1>0. /\ row \in Row /\ row.attempts \in Nat
      /\ delivery \in [Deliveries -> Delivery] /\ accepted \in SUBSET Nat
      /\ \A d \in Deliveries : delivery[d].attempt \in Nat
  BY DEF TypeOK, Row, Delivery
<1>1. CASE UNCHANGED vars
  BY <1>1 DEF vars, Counted, CallsCounted, Executing
<1>2. CASE Tick
  <2>1. /\ row'.status = row.status /\ row'.attempts = row.attempts /\ accepted' = accepted
        /\ \A d \in Deliveries : delivery'[d].pc = delivery[d].pc /\ delivery'[d].attempt = delivery[d].attempt
    BY <1>2, TickMoves
  <2> QED  BY <2>1 DEF Counted, CallsCounted, Executing
<1>3. ASSUME NEW d \in Deliveries, Claims(d) PROVE Counted'
  <2> DEFINE a == row.attempts + 1
  <2>1. /\ row'.attempts = a /\ row'.status = "in_flight" /\ accepted' = accepted
        /\ delivery'[d].pc = "send" /\ delivery'[d].attempt = a
        /\ \A c \in Deliveries : c # d => delivery'[c] = delivery[c]
    BY <1>3, ClaimType
  <2>2. 1 .. row.attempts \subseteq 1 .. a /\ a \in 1 .. a /\ a \notin 1 .. row.attempts
    BY <1>0
  <2> HIDE DEF a
  <2> QED  BY <2>1, <2>2 DEF Counted, CallsCounted, Executing, Sending
<1>4. ASSUME NEW d \in Deliveries, Call(d) PROVE Counted'
  <2>1. PICK pc \in {"sent", "failing"} :
          /\ delivery' = [delivery EXCEPT ![d] = [delivery[d] EXCEPT !.pc = pc]]
          /\ pc = "sent" => delivery[d].attempt \in accepted'
    BY <1>4, CallMoves
  <2>2. /\ delivery'[d].pc = pc /\ delivery'[d].attempt = delivery[d].attempt
        /\ \A c \in Deliveries : c # d => delivery'[c] = delivery[c]
    BY <1>0, <2>1 DEF Delivery
  <2>3. /\ row' = row /\ accepted \subseteq accepted' /\ delivery[d].pc = "send"
        /\ accepted' \subseteq accepted \cup {delivery[d].attempt}
    BY <1>4, CallMoves
  <2> QED  BY <2>1, <2>2, <2>3 DEF Counted, CallsCounted, Executing, Sending
<1>5. ASSUME NEW d \in Deliveries, Leaves(d)
      PROVE  ~Executing(d)' /\ \A c \in Deliveries : c # d => delivery'[c] = delivery[c]
  BY <1>0, <1>5 DEF Leaves, Executing
<1>6. ASSUME NEW d \in Deliveries, Succeed(d) \/ Fail(d)
      PROVE  /\ row'.attempts = row.attempts /\ accepted' = accepted
             /\ row'.status = "succeeded" => accepted # {}
  BY <1>0, <1>6 DEF Succeed, Fail, Recorded, Keeps, Counted, Row
<1>7. ASSUME NEW d \in Deliveries, Leaves(d), row'.attempts = row.attempts, accepted' = accepted,
             row'.status = "succeeded" => accepted # {}
      PROVE  Counted'
  BY <1>5, <1>7 DEF Counted, CallsCounted, Executing, Sending
<1>8. row.status = "succeeded" => accepted # {}
  BY DEF Counted
<1> QED  BY <1>1, <1>2, <1>3, <1>4, <1>6, <1>7, <1>8, Steps

\* The two invariants together hold always.
LEMMA CountedAlways == Spec => [](TypeOK /\ Counted)
<1>1. Init => Counted
  <2> SUFFICES ASSUME Init PROVE Counted
    OBVIOUS
  <2>1. \A d \in Deliveries : delivery[d].pc = "waiting"
    <3>1. 0 \in 0 .. MaxRetries /\ 0 \in 0 .. Lease
      BY Numbers
    <3> QED  BY <3>1, Waits DEF Init
  <2> QED  BY <2>1 DEF Init, Counted, CallsCounted, Executing, Sending
<1> QED  BY <1>1, TypeInit, TypeStep, CountedStep, PTL DEF Spec

\* CallsCounted: attempts of the row bounds what reached the provider, and every
\* call to it is made under an attempt of its own.
THEOREM EveryCallCounted == Spec => []CallsCounted
<1>1. Counted => CallsCounted
  BY DEF Counted
<1> QED  BY <1>1, CountedAlways, PTL

\* SuccessIsFinal: a recorded success stays, keeps deliveries from starting to
\* send, and stands for a mail the provider has taken.
THEOREM SuccessStays == Spec => SuccessIsFinal
<1>1. TypeOK /\ Counted /\ [Next]_vars =>
        [/\ row.status = "succeeded" =>
              row'.status = "succeeded" /\ Senders' \subseteq Senders
         /\ row'.status = "succeeded" => accepted # {}]_vars
  <2> DEFINE Final == /\ row.status = "succeeded" =>
                           row'.status = "succeeded" /\ \A d \in Deliveries : Executing(d)' => Executing(d)
                      /\ row'.status = "succeeded" => accepted # {}
  <2> SUFFICES ASSUME TypeOK, Counted, Next PROVE Final
    BY DEF Senders
  <2>0. row \in Row /\ delivery \in [Deliveries -> Delivery] /\ (row.status = "succeeded" => accepted # {})
    BY DEF TypeOK, Counted
  <2>1. CASE Tick
    <3>1. row'.status = row.status /\ \A d \in Deliveries : delivery'[d].pc = delivery[d].pc
      BY <2>1, TickMoves
    <3> QED  BY <2>0, <3>1 DEF Executing
  <2>2. ASSUME NEW d \in Deliveries, Claims(d) PROVE Final
    BY <2>0, <2>2, ClaimType DEF Claims
  <2>3. ASSUME NEW d \in Deliveries, Call(d) PROVE Final
    <3>1. delivery[d].pc = "send" /\ row' = row /\ delivery' \in [Deliveries -> Delivery]
      BY <2>3, CallMoves
    <3>2. \A c \in Deliveries : c # d => delivery'[c] = delivery[c]
      BY <2>0, <2>3, CallMoves
    <3> QED  BY <2>0, <3>1, <3>2 DEF Executing, Sending
  <2>4. ASSUME NEW d \in Deliveries, Leaves(d) PROVE \A c \in Deliveries : Executing(c)' => Executing(c)
    BY <2>0, <2>4 DEF Leaves, Executing
  <2>5. ASSUME NEW d \in Deliveries, Succeed(d) \/ Fail(d)
        PROVE  /\ row.status = "succeeded" => row'.status = "succeeded"
               /\ row'.status = "succeeded" => accepted # {}
    BY <2>0, <2>5 DEF Succeed, Fail, Recorded, Keeps, Counted, Row
  <2> QED  BY <2>0, <2>1, <2>2, <2>3, <2>4, <2>5, Steps
<1> QED  BY <1>1, CountedAlways, PTL DEF SuccessIsFinal, Spec

-----------------------------------------------------------------------------
(* The lease                                                               *)

\* While nobody has outlived a claim, whoever sends holds the claim that is
\* recorded, and the row knows how fresh it is.
Holds ==
  ~overran =>
    /\ \A c, d \in Deliveries : Executing(c) /\ Executing(d) => c = d
    /\ \A d \in Deliveries : Executing(d) =>
         /\ row.status = "in_flight" /\ row.left = Lease - delivery[d].age
         /\ delivery[d].age < Lease

\* Every step keeps the sender's hold on the row, until somebody overruns.
LEMMA HoldsStep == TypeOK /\ Holds /\ [Next]_vars => Holds'
<1> SUFFICES ASSUME TypeOK, Holds, [Next]_vars, ~overran' PROVE Holds'
  BY DEF Holds
<1>0. /\ row \in Row /\ delivery \in [Deliveries -> Delivery]
      /\ \A d \in Deliveries : delivery[d].age \in Nat
      /\ Lease \in Nat /\ Lease > 0 /\ Limit \in Nat /\ Limit > 0
  BY Numbers DEF TypeOK, Delivery
<1>1. CASE UNCHANGED vars
  BY <1>1 DEF vars, Holds, Executing
<1>2. CASE Tick
  <2>1. ~overran /\ \A d \in Deliveries : Executing(d) => delivery[d].age + 1 < Lease
    <3>1. ~overran /\ \A d \in Deliveries : Executing(d) => ~(delivery[d].age + 1 >= Lease)
      BY <1>2 DEF Tick
    <3> QED  BY <1>0, <3>1
  <2>2. \A d \in Deliveries : Executing(d)' => Executing(d) /\ delivery'[d].age = delivery[d].age + 1
    BY <1>2, TickMoves DEF Executing
  <2>3. row'.status = row.status /\ (row.left > -Limit => row'.left = row.left - 1)
    BY <1>2, TickMoves
  <2>4. ASSUME NEW d \in Deliveries, Executing(d)'
        PROVE  /\ row'.status = "in_flight" /\ row'.left = Lease - delivery'[d].age
               /\ delivery'[d].age < Lease
    <3>1. /\ Executing(d) /\ delivery'[d].age = delivery[d].age + 1 /\ row.status = "in_flight"
          /\ row.left = Lease - delivery[d].age /\ delivery[d].age + 1 < Lease
      BY <2>1, <2>2, <2>4 DEF Holds
    <3>2. delivery[d].age \in Nat
      BY <1>0
    <3> QED  BY <1>0, <2>3, <3>1, <3>2
  <2> QED  BY <2>1, <2>2, <2>4 DEF Holds
<1>3. ASSUME NEW d \in Deliveries, Claims(d) PROVE Holds'
  <2>1. ~overran /\ delivery[d].age < Lease
    BY <1>3, ClaimType
  <2>2. \A c \in Deliveries : ~Executing(c)
    <3> SUFFICES ASSUME NEW c \in Deliveries, Executing(c) PROVE FALSE
      OBVIOUS
    <3>1. row.status = "in_flight" /\ row.left = Lease - delivery[c].age /\ delivery[c].age < Lease
      BY <2>1 DEF Holds
    <3>2. row.left + delivery[d].age <= 0
      BY <1>3, <3>1 DEF Claims, Stale
    <3>3. delivery[c].age \in Nat /\ delivery[d].age \in Nat
      BY <1>0
    <3> QED  BY <1>0, <3>1, <3>2, <3>3
  <2>3. /\ row'.status = "in_flight" /\ row'.left = Lease - delivery[d].age
        /\ delivery'[d].age = delivery[d].age
        /\ \A c \in Deliveries : c # d => delivery'[c] = delivery[c]
    BY <1>3, ClaimType
  <2> QED  BY <2>1, <2>2, <2>3 DEF Holds, Executing
<1>4. ASSUME NEW d \in Deliveries, Call(d) PROVE Holds'
  <2>1. PICK pc \in {"sent", "failing"} :
          delivery' = [delivery EXCEPT ![d] = [delivery[d] EXCEPT !.pc = pc]]
    BY <1>4, CallMoves
  <2>2. /\ delivery'[d].age = delivery[d].age
        /\ \A c \in Deliveries : c # d => delivery'[c] = delivery[c]
    BY <1>0, <2>1 DEF Delivery
  <2>3. row' = row /\ overran' = overran /\ delivery[d].pc = "send"
    BY <1>4, CallMoves
  <2> QED  BY <2>2, <2>3 DEF Holds, Executing, Sending
<1>5. ASSUME NEW d \in Deliveries, Leaves(d)
      PROVE  /\ ~Executing(d)' /\ overran' = overran
             /\ \A c \in Deliveries : c # d => delivery'[c] = delivery[c]
  BY <1>0, <1>5 DEF Leaves, Executing
<1>6. ASSUME NEW d \in Deliveries, Leaves(d), row' = row PROVE Holds'
  BY <1>5, <1>6 DEF Holds, Executing
<1>7. ASSUME NEW d \in Deliveries, Leaves(d), Succeed(d) \/ Fail(d) PROVE Holds'
  <2>1. Executing(d)
    BY <1>7 DEF Succeed, Fail, Executing, Sending
  <2>2. \A c \in Deliveries : ~Executing(c)'
    BY <1>5, <1>7, <2>1 DEF Holds, Executing
  <2> QED  BY <2>2 DEF Holds
<1> QED  BY <1>1, <1>2, <1>3, <1>4, <1>6, <1>7, Steps

\* Holds is an invariant.
LEMMA HoldsAlways == Spec => []Holds
<1>1. Init => Holds
  <2> SUFFICES ASSUME Init PROVE Holds
    OBVIOUS
  <2>1. \A d \in Deliveries : delivery[d].pc = "waiting"
    <3>1. 0 \in 0 .. MaxRetries /\ 0 \in 0 .. Lease
      BY Numbers
    <3> QED  BY <3>1, Waits DEF Init
  <2> QED  BY <2>1 DEF Holds, Executing, Sending
<1> QED  BY <1>1, TypeInit, TypeStep, HoldsStep, PTL DEF Spec

\* OneSender: the lease keeps deliveries apart until some sender outlives it.
THEOREM LeaseExcludes == Spec => []OneSender
<1>1. Holds => OneSender
  BY DEF Holds, OneSender
<1> QED  BY <1>1, HoldsAlways, PTL

-----------------------------------------------------------------------------
(* The ledger implements Effect                                            *)

underWay == {delivery[d].attempt : d \in Senders}
recorded == row.status = "succeeded"
effect == <<row.attempts, underWay, accepted, recorded, overran>>

\* Nobody's sending changes unless somebody's place or attempt does.
LEMMA SameSenders ==
  ASSUME \A d \in Deliveries : Executing(d)' = Executing(d)
                              /\ (Executing(d) => delivery'[d].attempt = delivery[d].attempt)
  PROVE  underWay' = underWay
  BY DEF underWay, Senders

\* Who leaves takes its own attempt out, which is nobody else's.
LEMMA LeavesEnds ==
  ASSUME TypeOK, Counted, NEW d \in Deliveries, Leaves(d)
  PROVE  IF Executing(d) THEN /\ delivery[d].attempt \in underWay
                              /\ underWay' = underWay \ {delivery[d].attempt}
                         ELSE underWay' = underWay
<1>1. /\ ~Executing(d)'
      /\ \A c \in Deliveries : c # d => delivery'[c] = delivery[c]
  BY DEF TypeOK, Leaves, Executing
<1>2. CASE Executing(d)
  <2>1. \A c \in Deliveries : Executing(c)' <=> Executing(c) /\ c # d
    BY <1>1 DEF Executing
  <2>2. \A c \in Deliveries : Executing(c) /\ c # d =>
          delivery'[c].attempt = delivery[c].attempt /\ delivery[c].attempt # delivery[d].attempt
    BY <1>1, <1>2 DEF Counted, CallsCounted
  <2> QED  BY <1>2, <2>1, <2>2 DEF underWay, Senders
<1>3. CASE ~Executing(d)
  BY <1>1, <1>3, SameSenders DEF Executing
<1> QED  BY <1>2, <1>3

\* Every step of the ledger is a step of Effect or changes nothing it sees.
LEMMA StepEffect ==
  ASSUME TypeOK, Counted, Holds, [Next]_vars
  PROVE  Calls!Next \/ UNCHANGED effect
<1> USE DEF effect
<1>0. /\ row \in Row /\ delivery \in [Deliveries -> Delivery] /\ overran \in BOOLEAN
      /\ row.attempts \in Nat
  BY DEF TypeOK, Row
<1>1. CASE UNCHANGED vars
  BY <1>1 DEF vars, underWay, recorded, Senders, Executing
<1>2. CASE Tick
  <2>1. /\ row'.status = row.status /\ row'.attempts = row.attempts /\ accepted' = accepted
        /\ \A d \in Deliveries : delivery'[d].pc = delivery[d].pc
                               /\ delivery'[d].attempt = delivery[d].attempt
    BY <1>2, TickMoves
  <2>2. UNCHANGED <<row.attempts, underWay, accepted, recorded>>
    BY <2>1, SameSenders DEF Executing, recorded
  <2>3. CASE overran' = overran
    BY <2>2, <2>3
  <2>4. CASE overran' # overran
    <3>1. overran' = TRUE /\ \E d \in Deliveries : Executing(d)
      BY <1>0, <1>2, <2>4 DEF Tick
    <3>2. underWay # {}
      BY <3>1 DEF underWay, Senders
    <3>3. Calls!Lapse
      BY <2>2, <3>1, <3>2 DEF Calls!Lapse, underWay, recorded
    <3> QED  BY <3>3 DEF Calls!Next
  <2> QED  BY <2>3, <2>4
<1>3. ASSUME NEW d \in Deliveries, Claims(d) PROVE Calls!Next
  <2>1. /\ row'.attempts = row.attempts + 1 /\ row'.status = "in_flight" /\ accepted' = accepted
        /\ delivery'[d].pc = "send" /\ delivery'[d].attempt = row.attempts + 1
        /\ \A c \in Deliveries : c # d => delivery'[c] = delivery[c]
    BY <1>3, ClaimType
  <2>2. ~recorded /\ ~recorded' /\ ~Executing(d)
    BY <1>3, <2>1 DEF Claims, recorded, Executing, Sending
  <2>3. underWay' = underWay \cup {row.attempts + 1}
    <3>1. \A c \in Deliveries : Executing(c)' <=> Executing(c) \/ c = d
      BY <2>1 DEF Executing, Sending
    <3>2. \A c \in Deliveries : Executing(c) => delivery'[c].attempt = delivery[c].attempt
      BY <2>1, <2>2
    <3> QED  BY <2>1, <3>1, <3>2 DEF underWay, Senders
  <2>4. underWay = {} \/ overran
    <3> SUFFICES ASSUME ~overran, NEW c \in Deliveries, Executing(c) PROVE FALSE
      BY DEF underWay, Senders
    <3>1. row.status = "in_flight" /\ row.left = Lease - delivery[c].age /\ delivery[c].age < Lease
      BY DEF Holds
    <3>2. row.left + delivery[d].age <= 0
      BY <1>3, <3>1 DEF Claims, Stale
    <3>3. delivery[c].age \in Nat /\ delivery[d].age \in Nat
      BY <1>0, Numbers DEF Delivery
    <3> QED  BY <3>1, <3>2, <3>3, Numbers
  <2>5. overran' \in {overran, TRUE}
    BY <1>0, <1>3 DEF Claims, Claimed
  <2>6. Calls!Begin
    BY <2>1, <2>2, <2>3, <2>4, <2>5 DEF Calls!Begin, underWay, recorded
  <2> QED  BY <2>6 DEF Calls!Next
<1>4. ASSUME NEW d \in Deliveries, Call(d) PROVE Calls!Next \/ UNCHANGED effect
  <2>1. PICK pc \in {"sent", "failing"} :
          delivery' = [delivery EXCEPT ![d] = [delivery[d] EXCEPT !.pc = pc]]
    BY <1>4, CallMoves
  <2>2. /\ delivery[d].pc = "send" /\ row' = row /\ overran' = overran
        /\ accepted \subseteq accepted' /\ accepted' \subseteq accepted \cup {delivery[d].attempt}
    BY <1>4, CallMoves
  <2>3. UNCHANGED <<underWay, recorded>>
    <3>1. /\ delivery'[d].pc = pc /\ delivery'[d].attempt = delivery[d].attempt
          /\ \A c \in Deliveries : c # d => delivery'[c] = delivery[c]
      BY <1>0, <2>1 DEF Delivery
    <3>2. \A c \in Deliveries : Executing(c)' = Executing(c)
                               /\ delivery'[c].attempt = delivery[c].attempt
      BY <2>2, <3>1 DEF Executing, Sending
    <3> QED  BY <2>2, <3>2, SameSenders DEF recorded
  <2>4. CASE accepted' = accepted
    BY <2>2, <2>3, <2>4
  <2>5. CASE accepted' # accepted
    <3>1. delivery[d].attempt \in underWay /\ delivery[d].attempt \notin accepted
      BY <2>2 DEF underWay, Senders, Executing, Sending, Counted, CallsCounted
    <3>2. PICK n \in underWay : n \notin accepted /\ accepted' = accepted \cup {n}
      BY <2>2, <2>5, <3>1
    <3>3. Calls!Take(n)
      BY <2>2, <2>3, <3>2 DEF Calls!Take, underWay, recorded
    <3> QED  BY <3>3 DEF Calls!Next, underWay
  <2> QED  BY <2>4, <2>5
<1>5. ASSUME NEW d \in Deliveries, Leaves(d), accepted' = accepted, row'.attempts = row.attempts,
             recorded' = recorded
      PROVE  Calls!Next \/ UNCHANGED effect
  <2>1. overran' = overran
    BY <1>5 DEF Leaves
  <2>2. CASE Executing(d)
    <3>1. PICK n \in underWay : underWay' = underWay \ {n}
      BY <1>5, <2>2, LeavesEnds
    <3>2. Calls!End(n)
      BY <1>5, <2>1, <3>1 DEF Calls!End, underWay, recorded
    <3> QED  BY <3>2 DEF Calls!Next, underWay
  <2>3. CASE ~Executing(d)
    <3>1. underWay' = underWay
      BY <1>5, <2>3, LeavesEnds
    <3> QED  BY <1>5, <2>1, <3>1
  <2> QED  BY <2>2, <2>3
<1>6. ASSUME NEW d \in Deliveries, Leaves(d), Succeed(d) PROVE Calls!Next
  <2>1. delivery[d].pc = "sent" /\ Executing(d) /\ delivery[d].attempt \in accepted
    BY <1>6 DEF Succeed, Executing, Sending, Counted
  <2>2. PICK n \in underWay : n \in accepted /\ underWay' = underWay \ {n}
    BY <1>6, <2>1, LeavesEnds
  <2>3. recorded' = TRUE /\ row'.attempts = row.attempts /\ UNCHANGED <<accepted, overran>>
    BY <1>0, <1>6 DEF Succeed, Recorded, Keeps, recorded, Row
  <2>4. Calls!Record(n)
    BY <2>2, <2>3 DEF Calls!Record, underWay, recorded
  <2> QED  BY <2>4 DEF Calls!Next, underWay
<1>7. ASSUME NEW d \in Deliveries, Leaves(d), Fail(d) PROVE Calls!Next \/ UNCHANGED effect
  <2>1. recorded' = recorded /\ row'.attempts = row.attempts /\ accepted' = accepted
    BY <1>0, <1>7 DEF Fail, Recorded, Keeps, recorded, Row
  <2> QED  BY <1>5, <1>7, <2>1
<1>8. ASSUME NEW d \in Deliveries, Leaves(d), accepted' = accepted, row' = row
      PROVE  Calls!Next \/ UNCHANGED effect
  <2>1. recorded' = recorded /\ row'.attempts = row.attempts
    BY <1>8 DEF recorded
  <2> QED  BY <1>5, <1>8, <2>1
<1> QED  BY <1>1, <1>2, <1>3, <1>4, <1>6, <1>7, <1>8, Steps

\* Whatever deliveries, retries, dead workers and failed transactions do, the ledger makes
\* the attempts Effect allows: counted one by one, apart while claims are good, each
\* mail taken once, and none begun after a success, which the provider has taken.
THEOREM LedgerImplementsEffect == Spec => OneEffect
<1>1. Init => Calls!Init
  <2> SUFFICES ASSUME Init PROVE Calls!Init
    OBVIOUS
  <2>1. \A d \in Deliveries : delivery[d].pc = "waiting"
    <3>1. 0 \in 0 .. MaxRetries /\ 0 \in 0 .. Lease
      BY Numbers
    <3> QED  BY <3>1, Waits DEF Init
  <2>2. Senders = {}
    BY <2>1 DEF Senders, Executing, Sending
  <2> QED  BY <2>2 DEF Init, Calls!Init
<1>2. TypeOK /\ Counted /\ Holds /\ [Next]_vars => [Calls!Next]_effect
  BY StepEffect
<1> QED  BY <1>1, <1>2, CountedAlways, HoldsAlways, PTL
            DEF Spec, OneEffect, Calls!Spec, effect, underWay, recorded
=============================================================================
