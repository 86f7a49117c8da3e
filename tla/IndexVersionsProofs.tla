------------------------ MODULE IndexVersionsProofs ------------------------
(* What IndexVersions guarantees for any number of configurations,         *)
(* documents and administrator requests.                                   *)
EXTENDS IndexVersions, TLAPS

\* A request that works on a version holds that version's row lock, one that is
\* about to switch holds the locks of all the rows it will retire, which are still
\* active, and the row a validation is about to write is still being built.
Holds(q) ==
  /\ q.pc \notin {"idle", "refused"} => q.id \in Versions /\ q.id \in q.locks /\ q.op # "none"
  /\ q.pc = "writing" /\ q.op # "validate" =>
       q.wants \subseteq q.locks /\ \A v \in q.wants : version[v].status = "active"
  /\ q.pc \in {"jobs", "ready", "relocking"} => q.op # "validate"
  /\ q.pc = "writing" /\ q.op = "validate" => version[q.id].status = "building"

\* No row is locked twice.
Exclusive == \A r, q \in Requests : r # q => request[r].locks \cap request[q].locks = {}

\* Every retired version sorts before the active one.
Ordered == \A v \in Versions : version[v].status = "retired" => \A a \in Active : v < a

Discipline ==
  /\ \A r \in Requests : Holds(request[r])
  /\ Exclusive
  /\ OneActive
  /\ Ordered

IInv == TypeOK /\ Discipline
-----------------------------------------------------------------------------
(* Types                                                                   *)

\* Names of versions are numbers, and no version is called NoVersion.
LEMMA Names == Versions \subseteq Nat /\ MaxFailed \in Nat /\ NoVersion \notin Versions
  BY IndexVersionsAssumption DEF NoVersion

\* The values that states start from are well typed.
LEMMA IdleTypes == IdleDoc \in Doc /\ IdleRequest \in Request
  BY DEF IdleDoc, IdleRequest, Doc, Request, RequestPC, Maybe

\* The state is well typed at first.
LEMMA TypeInit == Init => TypeOK
<1> SUFFICES ASSUME Init PROVE TypeOK
  OBVIOUS
<1>1. version \in [Versions -> Version]
  BY DEF Init, Version
<1>2. chunks \in [Docs -> [Versions -> Maybe]]
  BY DEF Init, Maybe
<1> QED  BY <1>1, <1>2, IdleTypes DEF Init, TypeOK

\* One request's step keeps the requests well typed if it keeps its own state so.
LEMMA OneRequestMoves ==
  ASSUME request \in [Requests -> Request], NEW r \in Requests, NEW s \in Request,
         request' = [request EXCEPT ![r] = s]
  PROVE  /\ request' \in [Requests -> Request]
         /\ \A q \in Requests : request'[q] = IF q = r THEN s ELSE request[q]
  OBVIOUS

\* Opening a row keeps the catalog well typed.
LEMMA OpenedType ==
  ASSUME version \in [Versions -> Version], NEW v \in Versions
  PROVE  Opened(v) \in [Versions -> Version]
<1> DEFINE s == IF Active = {} THEN "active" ELSE "building"
<1>1. [version[v] EXCEPT !.status = s] \in Version
  BY DEF Version
<1> QED  BY <1>1 DEF Opened

\* The local state a request reaches in its next step is well typed.
LEMMA RequestTypes ==
  ASSUME request \in [Requests -> Request], NEW r \in Requests
  PROVE  /\ \A p \in RequestPC : [request[r] EXCEPT !.pc = p] \in Request
         /\ \A p \in RequestPC : [request[r] EXCEPT !.pc = p, !.wants = Active] \in Request
         /\ \A p \in RequestPC, W \in SUBSET Versions :
              [request[r] EXCEPT !.pc = p, !.locks = @ \cup (request[r].wants \cap Active),
                                 !.wants = W] \in Request
         /\ [IdleRequest EXCEPT !.pc = "refused", !.op = request[r].op] \in Request
         /\ \A v \in Versions, op \in {"validate", "activate", "rollback"} :
              [IdleRequest EXCEPT !.pc = "target", !.op = op, !.id = v, !.locks = {v}] \in Request
<1>1. Active \subseteq Versions
  BY DEF Active
<1>2. request[r] \in Request
  OBVIOUS
<1>3. /\ \A p \in RequestPC : [request[r] EXCEPT !.pc = p] \in Request
      /\ \A p \in RequestPC : [request[r] EXCEPT !.pc = p, !.wants = Active] \in Request
  BY <1>1, <1>2 DEF Request
<1>4. \A p \in RequestPC, W \in SUBSET Versions :
        [request[r] EXCEPT !.pc = p, !.locks = @ \cup (request[r].wants \cap Active),
                           !.wants = W] \in Request
  BY <1>1, <1>2 DEF Request
<1>5. [IdleRequest EXCEPT !.pc = "refused", !.op = request[r].op] \in Request
  BY <1>2 DEF Request, IdleRequest, RequestPC, Maybe
<1>6. \A v \in Versions, op \in {"validate", "activate", "rollback"} :
        [IdleRequest EXCEPT !.pc = "target", !.op = op, !.id = v, !.locks = {v}] \in Request
  BY DEF Request, IdleRequest, RequestPC, Maybe
<1> QED  BY <1>3, <1>4, <1>5, <1>6
-----------------------------------------------------------------------------
(* Steps of a request that leave the catalog alone                         *)

\* A request's step that takes no lock of another request's keeps the discipline.
LEMMA SameCatalog ==
  ASSUME TypeOK, Discipline, NEW r \in Requests, NEW s \in Request,
         request' = [request EXCEPT ![r] = s],
         version' = version,
         Holds(s), \A q \in Requests \ {r} : request[q].locks \cap s.locks = {}
  PROVE  Discipline' /\ request' \in [Requests -> Request]
<1>1. /\ request' \in [Requests -> Request]
      /\ \A q \in Requests : request'[q] = IF q = r THEN s ELSE request[q]
  BY OneRequestMoves DEF TypeOK
<1>2. \A q \in Requests : Holds(request[q])' <=> Holds(request'[q])
  BY DEF Holds
<1>3. \A q \in Requests : Holds(request[q])'
  BY <1>1, <1>2 DEF Discipline
<1>4. Exclusive'
  <2> SUFFICES ASSUME NEW p \in Requests, NEW q \in Requests, p # q
               PROVE  request'[p].locks \cap request'[q].locks = {}
    BY DEF Exclusive
  <2>1. CASE p # r /\ q # r
    BY <2>1, <1>1 DEF Discipline, Exclusive
  <2>2. CASE p = r
    BY <2>2, <1>1
  <2>3. CASE q = r
    BY <2>3, <1>1
  <2> QED  BY <2>1, <2>2, <2>3
<1>5. OneActive' /\ Ordered'
  BY DEF Discipline, OneActive, Ordered, Active
<1> QED  BY <1>1, <1>3, <1>4, <1>5 DEF Discipline

\* A request that gives up or is done holds nothing, so it disturbs nobody.
LEMMA Released ==
  ASSUME NEW q
  PROVE  /\ Holds(IdleRequest) /\ request[q].locks \cap IdleRequest.locks = {}
         /\ \A op : /\ Holds([IdleRequest EXCEPT !.pc = "refused", !.op = op])
                    /\ request[q].locks
                         \cap [IdleRequest EXCEPT !.pc = "refused", !.op = op].locks = {}
  BY DEF Holds, IdleRequest

\* LockTarget keeps the invariant.
LEMMA LockTargetKeeps == ASSUME IInv, NEW r \in Requests, LockTarget(r) PROVE IInv'
<1>1. PICK v \in Versions, op \in {"validate", "activate", "rollback"} :
        /\ Lockable(r, {v})
        /\ request' = [request EXCEPT ![r] =
             [IdleRequest EXCEPT !.pc = "target", !.op = op, !.id = v, !.locks = {v}]]
  BY DEF LockTarget
<1> DEFINE s == [IdleRequest EXCEPT !.pc = "target", !.op = op, !.id = v, !.locks = {v}]
<1>2. s \in Request
  BY RequestTypes DEF IInv, TypeOK
<1>3. Holds(s) /\ s.locks = {v}
  BY DEF Holds, IdleRequest
<1> HIDE DEF s
<1>4. \A q \in Requests \ {r} : request[q].locks \cap s.locks = {}
  BY <1>1, <1>3 DEF Lockable
<1>5. Discipline' /\ request' \in [Requests -> Request]
  BY <1>1, <1>2, <1>3, <1>4, SameCatalog DEF IInv, LockTarget, s
<1> QED  BY <1>5 DEF IInv, TypeOK, LockTarget

\* SeeActive keeps the invariant.
LEMMA SeeActiveKeeps == ASSUME IInv, NEW r \in Requests, SeeActive(r) PROVE IInv'
<1> DEFINE p == IF request[r].pc = "target" THEN "locking" ELSE "relocking"
           s == [request[r] EXCEPT !.pc = p, !.wants = Active]
<1>1. request[r] \in Request /\ p \in RequestPC
  BY DEF IInv, TypeOK, RequestPC
<1>2. request' = [request EXCEPT ![r] = s]
  BY <1>1 DEF SeeActive, IInv, TypeOK
<1>3. s \in Request
  BY <1>1, RequestTypes DEF IInv, TypeOK
<1>4. s.locks = request[r].locks /\ Holds(s)
  BY <1>1 DEF SeeActive, IInv, Discipline, Holds, Request
<1>5. \A q \in Requests \ {r} : request[q].locks \cap s.locks = {}
  BY <1>4 DEF IInv, Discipline, Exclusive
<1> HIDE DEF s
<1>6. Discipline' /\ request' \in [Requests -> Request]
  BY <1>2, <1>3, <1>4, <1>5, SameCatalog DEF IInv, SeeActive
<1> QED  BY <1>6 DEF IInv, TypeOK, SeeActive

\* LockActive keeps the invariant.
LEMMA LockActiveKeeps == ASSUME IInv, NEW r \in Requests, LockActive(r) PROVE IInv'
<1> DEFINE p == IF request[r].pc = "locking" THEN "checking" ELSE "writing"
           W == IF request[r].pc = "locking" THEN {} ELSE request[r].wants \cap Active
           s == [request[r] EXCEPT !.pc = p, !.locks = @ \cup (request[r].wants \cap Active),
                                   !.wants = W]
<1>1. request[r] \in Request /\ p \in RequestPC /\ W \in SUBSET Versions
  BY DEF IInv, TypeOK, RequestPC, Request
<1>2. request' = [request EXCEPT ![r] = s]
  BY <1>1 DEF LockActive, IInv, TypeOK
<1>3. s \in Request
  BY <1>1, RequestTypes DEF IInv, TypeOK
<1>4. /\ s.locks = request[r].locks \cup (request[r].wants \cap Active)
      /\ s.pc = p /\ s.wants = W /\ s.id = request[r].id /\ s.op = request[r].op
  BY <1>1 DEF Request
<1>5. Holds(s)
  <2>1. Holds(request[r]) /\ request[r].pc \in {"locking", "relocking"}
    BY DEF LockActive, IInv, Discipline
  <2>2. \A v \in W : v \in s.locks /\ version[v].status = "active"
    BY <1>4 DEF Active
  <2>3. s.pc = "writing" => request[r].pc = "relocking"
    BY <1>4, <2>1
  <2> HIDE DEF s, W, p
  <2>4. s.pc \notin {"jobs", "ready", "relocking"}
    BY <1>4 DEF p
  <2> QED  BY <1>4, <2>1, <2>2, <2>3, <2>4 DEF Holds
<1>6. \A q \in Requests \ {r} : request[q].locks \cap s.locks = {}
  BY <1>4 DEF LockActive, Lockable, IInv, Discipline, Exclusive
<1> HIDE DEF s
<1>7. Discipline' /\ request' \in [Requests -> Request]
  BY <1>2, <1>3, <1>5, <1>6, SameCatalog DEF IInv, LockActive
<1> QED  BY <1>7 DEF IInv, TypeOK, LockActive

\* Check keeps the invariant: what may be validated is still being built.
LEMMA CheckKeeps == ASSUME IInv, NEW r \in Requests, Check(r) PROVE IInv'
<1> DEFINE p == CASE request[r].op = "validate" -> "writing"
                  [] request[r].op = "activate" -> "jobs"
                  [] request[r].op = "rollback" -> "ready"
           s == [request[r] EXCEPT !.pc = p]
<1>1. request[r] \in Request /\ Holds(request[r])
  BY DEF IInv, TypeOK, Discipline
<1>2. CASE ~Proceeds(r)
  <2>1. request' = [request EXCEPT ![r] = IdleRequest]
    BY <1>2 DEF Check
  <2>2. Discipline' /\ request' \in [Requests -> Request]
    BY <2>1, IdleTypes, Released, SameCatalog DEF IInv, Check
  <2> QED  BY <2>2 DEF IInv, TypeOK, Check
<1>3. CASE Proceeds(r) /\ request[r].op \in {"validate", "activate", "rollback"}
  <2>1. p \in RequestPC
    BY <1>3 DEF RequestPC
  <2>2. request' = [request EXCEPT ![r] = s]
    BY <1>3 DEF Check
  <2>3. s \in Request
    BY <2>1, RequestTypes DEF IInv, TypeOK
  <2>4. s.locks = request[r].locks /\ s.pc = p /\ s.id = request[r].id /\ s.op = request[r].op
    BY <1>1 DEF Request
  <2>5. p = "writing" => request[r].op = "validate" /\ version[request[r].id].status = "building"
    BY <1>3 DEF Proceeds, Allowed
  <2>6. p \in {"jobs", "ready"} => request[r].op # "validate"
    BY <1>3
  <2>7. p \in {"writing", "jobs", "ready"}
    BY <1>3
  <2>8. request[r].pc = "checking"
    BY DEF Check
  <2> HIDE DEF s, p
  <2>9. Holds(s)
    BY <1>1, <2>4, <2>5, <2>6, <2>7, <2>8 DEF Holds
  <2>10. \A q \in Requests \ {r} : request[q].locks \cap s.locks = {}
    BY <2>4 DEF IInv, Discipline, Exclusive
  <2>11. Discipline' /\ request' \in [Requests -> Request]
    BY <2>2, <2>3, <2>9, <2>10, SameCatalog DEF IInv, Check
  <2> QED  BY <2>11 DEF IInv, TypeOK, Check
<1>4. request[r].op \in {"validate", "activate", "rollback"}
  BY <1>1 DEF Request, Holds, Check
<1> QED  BY <1>2, <1>3, <1>4

\* CountJobs keeps the invariant.
LEMMA CountJobsKeeps == ASSUME IInv, NEW r \in Requests, CountJobs(r) PROVE IInv'
<1> DEFINE s == [request[r] EXCEPT !.pc = "ready"]
           ok == failed = 0 /\ \A d \in Docs : doc[d].job = "none"
<1>1. request[r] \in Request /\ Holds(request[r]) /\ "ready" \in RequestPC
  BY DEF IInv, TypeOK, Discipline, RequestPC
<1>2. CASE ~ok
  <2>1. request' = [request EXCEPT ![r] = IdleRequest]
    BY <1>2 DEF CountJobs
  <2>2. Discipline' /\ request' \in [Requests -> Request]
    BY <2>1, IdleTypes, Released, SameCatalog DEF IInv, CountJobs
  <2> QED  BY <2>2 DEF IInv, TypeOK, CountJobs
<1>3. CASE ok
  <2>1. request' = [request EXCEPT ![r] = s]
    BY <1>3 DEF CountJobs
  <2>2. s \in Request
    BY <1>1, RequestTypes DEF IInv, TypeOK
  <2>3. s.locks = request[r].locks /\ Holds(s)
    BY <1>1 DEF Request, Holds, CountJobs
  <2>4. \A q \in Requests \ {r} : request[q].locks \cap s.locks = {}
    BY <2>3 DEF IInv, Discipline, Exclusive
  <2> HIDE DEF s
  <2>5. Discipline' /\ request' \in [Requests -> Request]
    BY <2>1, <2>2, <2>3, <2>4, SameCatalog DEF IInv, CountJobs
  <2> QED  BY <2>5 DEF IInv, TypeOK, CountJobs
<1> QED  BY <1>2, <1>3

\* Respond keeps the invariant.
LEMMA RespondKeeps == ASSUME IInv, NEW r \in Requests, Respond(r) PROVE IInv'
<1>1. Discipline' /\ request' \in [Requests -> Request]
  BY IdleTypes, Released, SameCatalog DEF IInv, Respond
<1> QED  BY <1>1 DEF IInv, TypeOK, Respond
-----------------------------------------------------------------------------
(* Steps that write the catalog                                            *)

\* The row that r writes is nobody else's, so the validation of another request
\* still finds its own row as it was.
LEMMA OthersHold ==
  ASSUME IInv, NEW r \in Requests,
         request' = [request EXCEPT ![r] = IdleRequest],
         version' \in [Versions -> Version],
         \A v \in Versions : version'[v] # version[v] =>
            v \in request[r].locks \/ version[v].status = "absent"
  PROVE  /\ \A q \in Requests : Holds(request[q])'
         /\ Exclusive'
         /\ request' \in [Requests -> Request]
<1>1. /\ request' \in [Requests -> Request]
      /\ \A q \in Requests : request'[q] = IF q = r THEN IdleRequest ELSE request[q]
  BY OneRequestMoves, IdleTypes DEF IInv, TypeOK
<1>2. ASSUME NEW q \in Requests \ {r} PROVE Holds(request[q])'
  <2>1. Holds(request[q]) /\ request[q].locks \cap request[r].locks = {}
    BY <1>2 DEF IInv, Discipline, Exclusive
  <2>2. request[q].wants \subseteq Versions
    BY <1>2 DEF IInv, TypeOK, Request
  <2>3. request[q].pc = "writing" /\ request[q].op = "validate"
          => version'[request[q].id] = version[request[q].id]
    BY <2>1 DEF Holds
  <2>4. request[q].pc = "writing" /\ request[q].op # "validate"
          => \A v \in request[q].wants : version'[v] = version[v]
    <3> SUFFICES ASSUME request[q].pc = "writing", request[q].op # "validate",
                        NEW v \in request[q].wants
                 PROVE  version'[v] = version[v]
      OBVIOUS
    <3>1. v \in request[q].locks /\ version[v].status = "active" /\ v \in Versions
      BY <2>1, <2>2 DEF Holds
    <3> QED  BY <2>1, <3>1
  <2> QED  BY <1>1, <2>1, <2>3, <2>4 DEF Holds
<1>3. Holds(request[r])'
  BY <1>1 DEF Holds, IdleRequest
<1>4. Exclusive'
  BY <1>1 DEF IInv, Discipline, Exclusive, IdleRequest
<1> QED  BY <1>1, <1>2, <1>3, <1>4

\* Validate keeps the invariant: it neither retires nor activates a version.
LEMMA ValidateKeeps == ASSUME IInv, NEW r \in Requests, Validate(r) PROVE IInv'
<1> DEFINE i == request[r].id
<1>1. i \in Versions /\ i \in request[r].locks /\ version[i].status = "building"
  BY DEF Validate, IInv, Discipline, Holds
<1>2. [version[i] EXCEPT !.status = "validated"] \in Version
  BY <1>1 DEF IInv, TypeOK, Version
<1>3. /\ version' \in [Versions -> Version]
      /\ \A v \in Versions : v # i => version'[v] = version[v]
      /\ version'[i].status = "validated"
  BY <1>1, <1>2 DEF Validate, IInv, TypeOK, Version
<1>4. /\ \A q \in Requests : Holds(request[q])'
      /\ Exclusive'
      /\ request' \in [Requests -> Request]
  BY <1>1, <1>3, OthersHold DEF Validate
<1>5. Active' = Active
  BY <1>1, <1>3 DEF Active
<1>6. OneActive' /\ Ordered'
  BY <1>1, <1>3, <1>5 DEF IInv, Discipline, OneActive, Ordered
<1> QED  BY <1>3, <1>4, <1>6 DEF IInv, TypeOK, Discipline, Validate

\* Switch keeps the invariant: it retires every other active version, which are
\* all below the target, or writes nothing.
LEMMA SwitchKeeps == ASSUME IInv, NEW r \in Requests, Switch(r) PROVE IInv'
<1> DEFINE i == request[r].id
           s == [IdleRequest EXCEPT !.pc = "refused", !.op = request[r].op]
<1>1. /\ i \in Versions /\ i \in request[r].locks
      /\ \A u \in request[r].wants : u \in request[r].locks /\ version[u].status = "active"
  BY DEF Switch, IInv, Discipline, Holds
<1>2. CASE Conflict(r)
  <2>1. request' = [request EXCEPT ![r] = s] /\ version' = version
    BY <1>2 DEF Switch
  <2>2. s \in Request
    BY RequestTypes DEF IInv, TypeOK
  <2>3. Holds(s) /\ \A q \in Requests : request[q].locks \cap s.locks = {}
    BY Released
  <2> HIDE DEF s
  <2>4. Discipline' /\ request' \in [Requests -> Request]
    BY <2>1, <2>2, <2>3, SameCatalog DEF IInv
  <2> QED  BY <2>1, <2>4 DEF IInv, TypeOK, Switch
<1>3. CASE ~Conflict(r)
  <2>1. /\ request' = [request EXCEPT ![r] = IdleRequest]
        /\ version' = [u \in Versions |->
             CASE u = i -> [status |-> "active", aged |-> FALSE]
               [] u # i /\ u \in request[r].wants -> [status |-> "retired", aged |-> FALSE]
               [] OTHER -> version[u]]
    BY <1>3 DEF Switch
  <2>2. /\ version'[i].status = "active"
        /\ \A u \in Versions \ {i} : u \in request[r].wants => version'[u].status = "retired"
        /\ \A u \in Versions \ {i} : u \notin request[r].wants => version'[u] = version[u]
    BY <1>1, <2>1
  <2>3. version' \in [Versions -> Version]
    BY <2>1 DEF IInv, TypeOK, Version
  <2>4. \A u \in Versions : version'[u] # version[u] => u \in request[r].locks
    BY <1>1, <2>2
  <2>5. /\ \A q \in Requests : Holds(request[q])'
        /\ Exclusive'
        /\ request' \in [Requests -> Request]
    BY <2>1, <2>3, <2>4, OthersHold
  <2>6. \A a \in Active \ {i} : a \in request[r].wants /\ a < i
    <3> SUFFICES ASSUME NEW a \in Active \ {i}
                 PROVE  a \in request[r].wants /\ a < i
      OBVIOUS
    <3>1. a \in request[r].wants /\ ~(a > i)
      BY <1>3 DEF Conflict
    <3>2. a \in Nat /\ i \in Nat /\ a # i
      BY <1>1, Names DEF Active
    <3> QED  BY <3>1, <3>2
  <2>7. Active' = {i}
    BY <1>1, <2>2, <2>6 DEF Active
  <2>8. \A u \in Versions : version'[u].status = "retired" => u < i
    <3> SUFFICES ASSUME NEW u \in Versions, version'[u].status = "retired"
                 PROVE  u < i
      OBVIOUS
    <3>1. u # i
      BY <2>2
    <3>2. CASE u \in request[r].wants
      BY <1>1, <2>6, <3>1, <3>2 DEF Active
    <3>3. CASE u \notin request[r].wants
      <4>1. version[u].status = "retired"
        BY <2>2, <3>1, <3>3
      <4>2. PICK a \in Active : u < a
        BY <4>1 DEF IInv, Discipline, OneActive, Ordered
      <4>3. a \in Nat /\ u \in Nat /\ i \in Nat /\ (a = i \/ a < i)
        BY <1>1, <2>6, <4>2, Names DEF Active
      <4> QED  BY <4>2, <4>3
    <3> QED  BY <3>2, <3>3
  <2>9. OneActive' /\ Ordered'
    BY <2>7, <2>8 DEF OneActive, Ordered
  <2> QED  BY <2>1, <2>3, <2>5, <2>9 DEF IInv, TypeOK, Discipline, Switch
<1> QED  BY <1>2, <1>3

\* Opening an absent row keeps the catalog in order: nothing is active in an empty
\* catalog, and nothing is retired in one without an active version.
LEMMA OpenedKeeps ==
  ASSUME IInv, NEW v \in Versions, version[v].status = "absent",
         NEW st \in {"active", "building"}, st = "active" => Active = {},
         version' = [version EXCEPT ![v].status = st], request' = request
  PROVE  Discipline' /\ version' \in [Versions -> Version]
<1>1. [version[v] EXCEPT !.status = st] \in Version
  BY DEF IInv, TypeOK, Version
<1>2. /\ version' \in [Versions -> Version]
      /\ \A u \in Versions \ {v} : version'[u] = version[u]
      /\ version'[v].status = st
  BY <1>1 DEF IInv, TypeOK, Version
<1>3. Exclusive'
  BY DEF IInv, Discipline, Exclusive
<1>4. ASSUME NEW q \in Requests PROVE Holds(request[q])'
  <2>1. Holds(request[q])
    BY DEF IInv, Discipline
  <2>2. request[q] \in Request
    BY DEF IInv, TypeOK
  <2>3. \A u \in Versions : version[u].status # "absent" => version'[u] = version[u]
    BY <1>2
  <2>4. request[q].pc = "writing" /\ request[q].op = "validate"
          => version'[request[q].id].status = "building"
    BY <2>1, <2>3 DEF Holds
  <2>5. request[q].pc = "writing" /\ request[q].op # "validate"
          => \A u \in request[q].wants : version'[u].status = "active"
    BY <2>1, <2>2, <2>3 DEF Holds, Request
  <2> QED  BY <2>1, <2>4, <2>5 DEF Holds
<1>5. \A u \in Versions : version'[u].status = "retired" => version[u].status = "retired"
  BY <1>2
<1>6. CASE st = "active"
  <2>1. Active' = {v} /\ \A u \in Versions : version[u].status # "retired"
    BY <1>2, <1>6 DEF Active, IInv, Discipline, OneActive
  <2> QED  BY <1>2, <1>3, <1>4, <1>5, <2>1 DEF Discipline, OneActive, Ordered
<1>7. CASE st = "building"
  <2>1. Active' = Active
    BY <1>2, <1>7 DEF Active
  <2> QED  BY <1>2, <1>3, <1>4, <1>5, <2>1 DEF IInv, Discipline, OneActive, Ordered
<1> QED  BY <1>6, <1>7

\* What opening a row may write.
LEMMA OpenedIs ==
  ASSUME NEW v \in Versions
  PROVE  \E st \in {"active", "building"} :
           Opened(v) = [version EXCEPT ![v].status = st] /\ (st = "active" => Active = {})
  BY DEF Opened

\* Ageing a retired version keeps the discipline: the retention clock is not part of it.
LEMMA AgeKeeps == ASSUME IInv, NEW v \in Versions, Age(v) PROVE IInv'
<1>1. [version[v] EXCEPT !.aged = TRUE] \in Version
  BY DEF IInv, TypeOK, Version
<1>2. /\ version' \in [Versions -> Version]
      /\ \A u \in Versions : version'[u].status = version[u].status
  BY <1>1 DEF Age, IInv, TypeOK, Version
<1>3. Active' = Active
  BY <1>2 DEF Active
<1>4. \A q \in Requests : Holds(request[q])'
  <2> SUFFICES ASSUME NEW q \in Requests PROVE Holds(request[q])'
    OBVIOUS
  <2>1. Holds(request[q]) /\ request[q].wants \subseteq Versions /\ request'[q] = request[q]
    BY DEF Age, IInv, Discipline, TypeOK, Request
  <2>2. request[q].pc \notin {"idle", "refused"} => request[q].id \in Versions
    BY <2>1 DEF Holds
  <2> QED  BY <1>2, <2>1, <2>2 DEF Holds
<1>5. Exclusive' /\ OneActive' /\ Ordered'
  BY <1>2, <1>3 DEF Age, IInv, Discipline, Exclusive, OneActive, Ordered
<1> QED  BY <1>2, <1>4, <1>5 DEF Age, IInv, TypeOK, Discipline

\* A step that touches neither the catalog nor a request keeps the discipline.
LEMMA Undisturbed ==
  ASSUME Discipline, UNCHANGED <<version, request>> PROVE Discipline'
  BY DEF Discipline, Holds, Exclusive, OneActive, Ordered, Active

\* A document's step keeps the documents well typed if it keeps that one so.
LEMMA OneDocMoves ==
  ASSUME doc \in [Docs -> Doc], NEW d \in Docs, NEW s \in Doc, doc' = [doc EXCEPT ![d] = s]
  PROVE  doc' \in [Docs -> Doc]
  OBVIOUS

\* EnsureActive and CreateBuilding keep the invariant.
LEMMA BootstrapKeeps == ASSUME IInv, EnsureActive \/ CreateBuilding PROVE IInv'
<1>1. desired \in Versions
  BY DEF IInv, TypeOK
<1>2. \E st \in {"active", "building"} :
        /\ version' = [version EXCEPT ![desired].status = st]
        /\ st = "active" => Active = {}
  BY <1>1, OpenedIs DEF EnsureActive, CreateBuilding
<1>3. Discipline' /\ version' \in [Versions -> Version]
  BY <1>1, <1>2, OpenedKeeps DEF EnsureActive, CreateBuilding
<1> QED  BY <1>3 DEF IInv, TypeOK, EnsureActive, CreateBuilding

\* The steps of indexing before its last transaction keep the invariant.
LEMMA IndexingKeeps ==
  ASSUME IInv, NEW d \in Docs,
         Enqueue(d) \/ StartIndexing(d) \/ ResolveTarget(d) \/ FailIndexing(d)
  PROVE  IInv'
<1>1. UNCHANGED <<version, request, desired, chunks, cleanup>> /\ failed' \in {failed, failed + 1}
  BY DEF Enqueue, StartIndexing, ResolveTarget, FailIndexing
<1>2. \E s \in Doc : doc' = [doc EXCEPT ![d] = s]
  <2>1. doc[d] \in Doc /\ desired \in Maybe
    BY DEF IInv, TypeOK, Maybe
  <2>2. CASE Enqueue(d)
    <3>1. [doc[d] EXCEPT !.job = "pending"] \in Doc
      BY <2>1 DEF Doc
    <3> QED  BY <2>2, <3>1 DEF Enqueue
  <2>3. CASE StartIndexing(d)
    <3>1. [doc[d] EXCEPT !.job = "running", !.status = "other", !.config = desired] \in Doc
      BY <2>1 DEF Doc
    <3> QED  BY <2>3, <3>1 DEF StartIndexing, IInv, TypeOK
  <2>4. CASE ResolveTarget(d)
    <3>1. PICK t, o : /\ t # NoVersion
                      /\ doc' = [doc EXCEPT ![d].job = "writing", ![d].target = t, ![d].opened = o]
                      /\ t \in {doc[d].config, o} \cup Active
                      /\ o \in {doc[d].config, NoVersion}
      BY <2>4 DEF ResolveTarget
    <3>2. t \in Maybe /\ o \in Maybe
      BY <2>1, <3>1 DEF Doc, Active, Maybe
    <3>3. [doc[d] EXCEPT !.job = "writing", !.target = t, !.opened = o] \in Doc
      BY <2>1, <3>2 DEF Doc
    <3> QED  BY <3>1, <3>3 DEF IInv, TypeOK
  <2>5. CASE FailIndexing(d)
    <3>1. [IdleDoc EXCEPT !.job = "none"] \in Doc
      BY IdleTypes DEF Doc
    <3> QED  BY <2>5, <3>1 DEF FailIndexing
  <2> QED  BY <2>2, <2>3, <2>4, <2>5
<1>3. doc' \in [Docs -> Doc]
  BY <1>2, OneDocMoves DEF IInv, TypeOK
<1>4. failed' \in Nat
  BY <1>1 DEF IInv, TypeOK
<1> QED  BY <1>1, <1>3, <1>4, Undisturbed DEF IInv, TypeOK

\* CommitChunks keeps the invariant, also when it opens the row it writes into.
LEMMA CommitChunksKeeps == ASSUME IInv, NEW d \in Docs, CommitChunks(d) PROVE IInv'
<1> DEFINE o == doc[d].opened
           conflict == o # NoVersion /\ version[o].status # "absent"
<1>1. /\ doc[d] \in Doc /\ o \in Maybe /\ doc[d].target \in Maybe /\ doc[d].config \in Maybe
      /\ UNCHANGED <<desired, request, cleanup, failed>>
  BY DEF IInv, TypeOK, Doc, CommitChunks
<1>2. IdleDoc \in Doc /\ [IdleDoc EXCEPT !.status = "indexed", !.job = "none"] \in Doc
  BY IdleTypes DEF Doc
<1>3. doc' \in [Docs -> Doc]
  BY <1>2, OneDocMoves DEF CommitChunks, IInv, TypeOK
<1>4. chunks' \in [Docs -> [Versions -> Maybe]]
  <2>1. Replaced(d, doc[d].target, doc[d].config) \in [Versions -> Maybe]
    BY <1>1 DEF Replaced, IInv, TypeOK
  <2>2. chunks' = chunks \/ chunks' = [chunks EXCEPT ![d] = Replaced(d, doc[d].target, doc[d].config)]
    BY DEF CommitChunks
  <2> QED  BY <2>1, <2>2 DEF IInv, TypeOK
<1>5. Discipline' /\ version' \in [Versions -> Version]
  <2>1. CASE conflict \/ o = NoVersion
    BY <1>1, <2>1, Undisturbed DEF CommitChunks, IInv, TypeOK
  <2>2. CASE ~conflict /\ o # NoVersion
    <3>1. o \in Versions /\ version[o].status = "absent" /\ version' = Opened(o)
      BY <1>1, <2>2 DEF CommitChunks, Maybe
    <3>2. \E st \in {"active", "building"} :
            version' = [version EXCEPT ![o].status = st] /\ (st = "active" => Active = {})
      BY <3>1, OpenedIs
    <3> QED  BY <1>1, <3>1, <3>2, OpenedKeeps
  <2> QED  BY <2>1, <2>2
<1> QED  BY <1>1, <1>3, <1>4, <1>5 DEF IInv, TypeOK

\* A deployment and the retention task keep the invariant.
LEMMA BackgroundKeeps == ASSUME IInv, Deploy \/ SelectRetired \/ DeleteChunks PROVE IInv'
<1>1. UNCHANGED <<version, request, doc, failed>>
  BY DEF Deploy, SelectRetired, DeleteChunks
<1>2. desired' \in Versions /\ cleanup' \in SUBSET Versions
  BY DEF Deploy, SelectRetired, DeleteChunks, IInv, TypeOK
<1>3. chunks' \in [Docs -> [Versions -> Maybe]]
  <2>1. CASE DeleteChunks
    BY <2>1 DEF DeleteChunks, IInv, TypeOK, Maybe
  <2>2. CASE ~DeleteChunks
    BY <2>2 DEF Deploy, SelectRetired, IInv, TypeOK
  <2> QED  BY <2>1, <2>2
<1> QED  BY <1>1, <1>2, <1>3, Undisturbed DEF IInv, TypeOK
-----------------------------------------------------------------------------
(* The specification                                                       *)

\* The invariant holds in an empty catalog.
LEMMA IInvInit == Init => IInv
<1> SUFFICES ASSUME Init PROVE IInv
  OBVIOUS
<1>1. Active = {} /\ \A v \in Versions : version[v].status = "absent"
  BY DEF Init, Active
<1>2. \A r \in Requests : request[r] = IdleRequest /\ Holds(request[r]) /\ request[r].locks = {}
  BY DEF Init, IdleRequest, Holds
<1> QED  BY <1>1, <1>2, TypeInit DEF IInv, Discipline, Exclusive, OneActive, Ordered

\* Every step keeps the invariant.
LEMMA IInvStep == IInv /\ [Next]_vars => IInv'
<1> SUFFICES ASSUME IInv, [Next]_vars PROVE IInv'
  OBVIOUS
<1>1. CASE UNCHANGED vars
  BY <1>1, Undisturbed DEF vars, IInv, TypeOK
<1>2. CASE EnsureActive \/ CreateBuilding
  BY <1>2, BootstrapKeeps
<1>3. CASE Deploy \/ SelectRetired \/ DeleteChunks
  BY <1>3, BackgroundKeeps
<1>4. ASSUME NEW r \in Requests, LockTarget(r) \/ Step(r) PROVE IInv'
  BY <1>4, LockTargetKeeps, SeeActiveKeeps, LockActiveKeeps, CheckKeeps, CountJobsKeeps,
     ValidateKeeps, SwitchKeeps, RespondKeeps DEF Step
<1>5. ASSUME NEW d \in Docs, CommitChunks(d) PROVE IInv'
  BY <1>5, CommitChunksKeeps
<1>6. ASSUME NEW d \in Docs,
             Enqueue(d) \/ StartIndexing(d) \/ ResolveTarget(d) \/ FailIndexing(d)
      PROVE  IInv'
  BY <1>6, IndexingKeeps
<1>7. ASSUME NEW v \in Versions, Age(v) PROVE IInv'
  BY <1>7, AgeKeeps
<1> QED  BY <1>1, <1>2, <1>3, <1>4, <1>5, <1>6, <1>7 DEF Next

\* The rows, the documents and the requests stay well formed.
THEOREM TypeCorrect == Spec => []TypeOK
<1>1. IInv => TypeOK
  BY DEF IInv
<1> QED  BY <1>1, IInvInit, IInvStep, PTL DEF Spec

\* activate and rollback, _lock_version and _retire_other_active: with any number
\* of concurrent administrators at most one version is active, and once one has
\* been, retrieval never is without one.
THEOREM AtMostOneServes == Spec => []OneActive
<1>1. IInv => OneActive
  BY DEF IInv, Discipline
<1> QED  BY <1>1, IInvInit, IInvStep, PTL DEF Spec

\* A step leaves a retired version retired: to activate it, all active versions
\* would have to sort before it, and one sorts after it.
LEMMA RetiredStep ==
  ASSUME IInv, [Next]_vars
  PROVE  [\A v \in Versions : version[v].status = "retired"
                               => version'[v].status = "retired"]_vars
<1> SUFFICES ASSUME NEW v \in Versions, version[v].status = "retired"
             PROVE  version'[v].status = "retired" \/ UNCHANGED vars
  OBVIOUS
<1>1. CASE UNCHANGED <<version>>
  BY <1>1
<1>2. CASE EnsureActive \/ CreateBuilding
  <2>1. version[desired].status = "absent" /\ desired \in Versions
    BY <1>2 DEF EnsureActive, CreateBuilding, IInv, TypeOK
  <2> QED  BY <1>2, <2>1, OpenedIs DEF EnsureActive, CreateBuilding, IInv, TypeOK
<1>3. ASSUME NEW r \in Requests, Validate(r) PROVE version'[v].status = "retired"
  <2>1. version[request[r].id].status = "building"
    BY <1>3 DEF Validate, IInv, Discipline, Holds
  <2> QED  BY <1>3, <2>1 DEF Validate, IInv, TypeOK
<1>4. ASSUME NEW r \in Requests, Switch(r) PROVE version'[v].status = "retired"
  <2>1. request[r].id \in Versions
    BY <1>4 DEF Switch, IInv, Discipline, Holds
  <2>2. CASE Conflict(r)
    BY <1>4, <2>2 DEF Switch
  <2>3. CASE ~Conflict(r)
    <3>1. PICK a \in Active : v < a
      BY DEF IInv, Discipline, OneActive, Ordered
    <3>2. a # v /\ ~(a # request[r].id /\ a > request[r].id)
      BY <2>3, <3>1, Names DEF Conflict, Active
    <3>3. v # request[r].id
      BY <3>1, <3>2, Names DEF Active
    <3> QED  BY <1>4, <2>3, <3>3 DEF Switch, IInv, TypeOK
  <2> QED  BY <2>2, <2>3
<1>5. ASSUME NEW d \in Docs, CommitChunks(d) PROVE version'[v].status = "retired"
  <2> DEFINE o == doc[d].opened
  <2>1. doc[d] \in Doc /\ (o # NoVersion => o \in Versions)
    BY DEF IInv, TypeOK, Doc, Maybe
  <2>2. CASE o # NoVersion /\ version[o].status = "absent"
    <3>1. version' = Opened(o)
      BY <1>5, <2>2 DEF CommitChunks
    <3> QED  BY <2>1, <2>2, <3>1, OpenedIs DEF IInv, TypeOK
  <2>3. CASE ~(o # NoVersion /\ version[o].status = "absent")
    BY <1>5, <2>3 DEF CommitChunks
  <2> QED  BY <2>2, <2>3
<1>6. ASSUME NEW w \in Versions, Age(w) PROVE version'[v].status = "retired"
  BY <1>6 DEF Age, IInv, TypeOK
<1> QED  BY <1>1, <1>2, <1>3, <1>4, <1>5, <1>6
         DEF Next, Step, vars, Deploy, SelectRetired, DeleteChunks, LockTarget, SeeActive,
             LockActive, Check, CountJobs, Respond, Enqueue, StartIndexing, ResolveTarget,
             FailIndexing

\* What the order of the two UPDATEs costs: a version is only ever replaced by one with
\* a greater primary key, so a retired version is below the active one.
RetiredStaysRetired ==
  [][\A v \in Versions : version[v].status = "retired" => version'[v].status = "retired"]_vars

\* The flush of rollback and the unique index: whatever the keys are, and however many
\* administrators try, no rollback ever takes effect.
THEOREM NoRollback == Spec => RetiredStaysRetired
  BY RetiredStep, IInvInit, IInvStep, PTL DEF Spec, RetiredStaysRetired
-----------------------------------------------------------------------------
(* Retention                                                               *)

\* What the retention task has selected is retired, and a worker knows the
\* configuration it indexes for.
Sweeping ==
  /\ \A v \in cleanup : version[v].status = "retired"
  /\ \A d \in Docs : doc[d].job \in {"running", "writing"} => doc[d].config \in Versions

\* Nothing is selected and nobody indexes at first.
LEMMA SweepingInit == Init => Sweeping
  BY DEF Init, Sweeping, IdleDoc

\* A selected version stays retired until it is cleaned: no rollback takes it
\* away, and only StartIndexing gives a worker its configuration.
LEMMA SweepingStep == ASSUME IInv, Sweeping, [Next]_vars PROVE Sweeping'
<1>1. \A v \in cleanup' : version'[v].status = "retired"
  <2>1. \A v \in Versions : version[v].status = "retired" => version'[v].status = "retired"
    BY RetiredStep DEF vars
  <2>2. cleanup \subseteq Versions
    BY DEF IInv, TypeOK
  <2>3. CASE cleanup' \in {cleanup, {}}
    BY <2>1, <2>2, <2>3 DEF Sweeping
  <2>4. CASE SelectRetired
    BY <2>1, <2>4 DEF SelectRetired
  <2>5. CASE \E d \in Docs : \/ Enqueue(d) \/ StartIndexing(d) \/ ResolveTarget(d)
                              \/ CommitChunks(d) \/ FailIndexing(d)
    <3>1. cleanup' = cleanup
      BY <2>5 DEF Enqueue, StartIndexing, ResolveTarget, CommitChunks, FailIndexing
    <3> QED  BY <2>3, <3>1
  <2>6. CASE \E r \in Requests : LockTarget(r) \/ Step(r)
    <3>1. cleanup' = cleanup
      BY <2>6 DEF LockTarget, Step, SeeActive, LockActive, Check, CountJobs, Validate, Switch, Respond
    <3> QED  BY <2>3, <3>1
  <2> QED  BY <2>3, <2>4, <2>5, <2>6
           DEF Next, vars, EnsureActive, CreateBuilding, Deploy, DeleteChunks, Age
<1>2. ASSUME NEW d \in Docs, doc'[d].job \in {"running", "writing"} PROVE doc'[d].config \in Versions
  <2>1. doc \in [Docs -> Doc] /\ doc[d] \in Doc /\ desired \in Versions
    BY DEF IInv, TypeOK
  <2>2. CASE doc'[d] = doc[d]
    BY <1>2, <2>2 DEF Sweeping
  <2>3. CASE Enqueue(d)
    BY <1>2, <2>1, <2>3 DEF Enqueue, Doc
  <2>4. CASE StartIndexing(d)
    BY <2>1, <2>4 DEF StartIndexing, Doc
  <2>5. CASE ResolveTarget(d)
    <3>1. PICK t, o : doc' = [doc EXCEPT ![d].job = "writing", ![d].target = t, ![d].opened = o]
      BY <2>5 DEF ResolveTarget
    <3>2. doc'[d].config = doc[d].config
      BY <2>1, <3>1 DEF Doc
    <3> QED  BY <2>5, <3>2 DEF ResolveTarget, Sweeping
  <2>6. CASE CommitChunks(d) \/ FailIndexing(d)
    <3>1. \E s \in {IdleDoc, [IdleDoc EXCEPT !.status = "indexed", !.job = "none"],
                   [IdleDoc EXCEPT !.job = "none"]} : doc' = [doc EXCEPT ![d] = s]
      BY <2>6 DEF CommitChunks, FailIndexing
    <3>2. doc'[d] \in {IdleDoc, [IdleDoc EXCEPT !.status = "indexed", !.job = "none"],
                     [IdleDoc EXCEPT !.job = "none"]}
      BY <2>1, <3>1
    <3>3. /\ IdleDoc.job = "pending"
          /\ [IdleDoc EXCEPT !.status = "indexed", !.job = "none"].job = "none"
          /\ [IdleDoc EXCEPT !.job = "none"].job = "none"
      BY DEF IdleDoc
    <3> QED  BY <1>2, <3>2, <3>3
  <2>7. CASE \E e \in Docs \ {d} : \/ Enqueue(e) \/ StartIndexing(e) \/ ResolveTarget(e)
                                   \/ CommitChunks(e) \/ FailIndexing(e)
    <3>1. doc'[d] = doc[d]
      BY <2>1, <2>7 DEF Enqueue, StartIndexing, ResolveTarget, CommitChunks, FailIndexing
    <3> QED  BY <2>2, <3>1
  <2>8. CASE UNCHANGED doc
    BY <2>2, <2>8
  <2>9. CASE \E r \in Requests : LockTarget(r) \/ Step(r)
    BY <2>8, <2>9 DEF LockTarget, Step, SeeActive, LockActive, Check, CountJobs, Validate, Switch, Respond
  <2>10. CASE \E e \in Docs : \/ Enqueue(e) \/ StartIndexing(e) \/ ResolveTarget(e)
                              \/ CommitChunks(e) \/ FailIndexing(e)
    BY <2>3, <2>4, <2>5, <2>6, <2>7, <2>10
  <2> QED  BY <2>8, <2>9, <2>10
           DEF Next, vars, EnsureActive, CreateBuilding, Deploy, SelectRetired, DeleteChunks, Age
<1> QED  BY <1>1, <1>2 DEF Sweeping

\* Only the retention task takes chunks away, from the versions it has selected.
LEMMA LossStep ==
  ASSUME IInv, Sweeping, [Next]_vars
  PROVE  [\A d \in Docs, v \in Versions :
            Built(d, v) /\ chunks'[d][v] = NoVersion => version[v].status = "retired"]_vars
<1> SUFFICES ASSUME NEW d \in Docs, NEW v \in Versions, Built(d, v), chunks'[d][v] = NoVersion
             PROVE  version[v].status = "retired"
  OBVIOUS
<1>1. chunks \in [Docs -> [Versions -> Maybe]]
  BY DEF IInv, TypeOK
<1>2. chunks' # chunks
  BY DEF Built
<1>3. CASE DeleteChunks
  BY <1>1, <1>3 DEF DeleteChunks, Built, Sweeping
<1>4. ASSUME NEW e \in Docs, CommitChunks(e) PROVE FALSE
  <2>1. doc[e].config \in Versions /\ doc[e].config # NoVersion
    BY <1>4, Names DEF CommitChunks, Sweeping
  <2>2. chunks' = [chunks EXCEPT ![e] = Replaced(e, doc[e].target, doc[e].config)]
    BY <1>2, <1>4 DEF CommitChunks
  <2>3. chunks[e] \in [Versions -> Maybe]
    BY <1>1
  <2>4. CASE d = e
    <3>1. chunks'[d] = [chunks[d] EXCEPT ![doc[d].target] = doc[d].config]
      BY <1>1, <2>2, <2>4 DEF Replaced
    <3>2. chunks'[d][v] \in {chunks[d][v], doc[d].config}
      BY <2>3, <2>4, <3>1
    <3> QED  BY <2>1, <2>4, <3>2 DEF Built
  <2>5. CASE d # e
    BY <1>1, <2>2, <2>5 DEF Built
  <2> QED  BY <2>4, <2>5
<1> QED  BY <1>2, <1>3, <1>4
         DEF Next, Step, vars, EnsureActive, CreateBuilding, Deploy, SelectRetired, LockTarget,
             SeeActive, LockActive, Check, CountJobs, Validate, Switch, Respond, Enqueue,
             StartIndexing, ResolveTarget, FailIndexing, Age

\* cleanup_retired_versions beside activations, rollbacks and indexing: chunks
\* are deleted from retired versions only, although the task locks nothing. That no
\* version leaves retirement, see NoRollback, is what this rests on.
THEOREM OnlySweptAreRetired == Spec => OnlyRetiredLosesChunks
<1>1. Init => IInv /\ Sweeping
  BY IInvInit, SweepingInit
<1>2. IInv /\ Sweeping /\ [Next]_vars => (IInv /\ Sweeping)'
  BY IInvStep, SweepingStep
<1>3. IInv /\ Sweeping /\ [Next]_vars
        => [\A d \in Docs, v \in Versions :
              Built(d, v) /\ chunks'[d][v] = NoVersion => version[v].status = "retired"]_vars
  BY LossStep
<1> QED  BY <1>1, <1>2, <1>3, PTL DEF Spec, OnlyRetiredLosesChunks
-----------------------------------------------------------------------------
(* Switches are atomic: IndexVersions implements Catalog                   *)

\* A request that has been found in order, and what its target's status was then.
Granted(q) ==
  q.pc \in {"jobs", "ready", "relocking"} \/ (q.pc = "writing" /\ q.op # "validate")
Verdict(op) == IF op = "activate" THEN "validated" ELSE "retired"

\* What a request was granted for is still so: its target's row is locked.
Judged ==
  \A r \in Requests :
    Granted(request[r]) => version[request[r].id].status = Verdict(request[r].op)

Opens(v, st) ==
  /\ version[v].status = "absent" /\ (st = "active" => Active = {})
  /\ version' = [version EXCEPT ![v].status = st]
  /\ UNCHANGED request

\* A request's steps that leave the catalog as it is.
Reads(r) ==
  \/ LockTarget(r) \/ SeeActive(r) \/ LockActive(r) \/ Check(r) \/ CountJobs(r) \/ Respond(r)
  \/ (Switch(r) /\ Conflict(r))

\* What a step does to the catalog.
LEMMA CatalogSteps ==
  ASSUME IInv, Next
  PROVE  \/ \E v \in Versions, st \in {"active", "building"} : Opens(v, st)
         \/ \E r \in Requests : Validate(r) \/ (Switch(r) /\ ~Conflict(r))
         \/ \E v \in Versions : Age(v)
         \/ UNCHANGED version /\ (UNCHANGED request \/ \E r \in Requests : Reads(r))
<1>1. ASSUME EnsureActive \/ CreateBuilding
      PROVE  \E st \in {"active", "building"} : Opens(desired, st)
  <2>1. desired \in Versions
    BY DEF IInv, TypeOK
  <2> QED  BY <1>1, <2>1, OpenedIs DEF EnsureActive, CreateBuilding, Opens
<1>2. ASSUME NEW d \in Docs, CommitChunks(d)
      PROVE  \/ \E v \in Versions, st \in {"active", "building"} : Opens(v, st)
             \/ UNCHANGED <<version, request>>
  <2> DEFINE o == doc[d].opened
  <2>1. o # NoVersion => o \in Versions
    BY DEF IInv, TypeOK, Doc, Maybe
  <2>2. CASE o # NoVersion /\ version[o].status = "absent"
    <3>1. version' = Opened(o) /\ UNCHANGED request
      BY <1>2, <2>2 DEF CommitChunks
    <3> QED  BY <2>1, <2>2, <3>1, OpenedIs DEF Opens
  <2>3. CASE ~(o # NoVersion /\ version[o].status = "absent")
    BY <1>2, <2>3 DEF CommitChunks
  <2> QED  BY <2>2, <2>3
<1>3. ASSUME NEW r \in Requests, Reads(r)
      PROVE  UNCHANGED version
  BY <1>3 DEF Reads, LockTarget, SeeActive, LockActive, Check, CountJobs, Respond, Switch
<1>4. ASSUME \/ Deploy \/ SelectRetired \/ DeleteChunks
             \/ \E d \in Docs : Enqueue(d) \/ StartIndexing(d) \/ ResolveTarget(d) \/ FailIndexing(d)
      PROVE  UNCHANGED <<version, request>>
  BY <1>4 DEF Deploy, SelectRetired, DeleteChunks, Enqueue, StartIndexing, ResolveTarget, FailIndexing
<1>5. desired \in Versions
  BY DEF IInv, TypeOK
<1>6. ASSUME NEW r \in Requests, LockTarget(r) \/ Step(r)
      PROVE  Validate(r) \/ (Switch(r) /\ ~Conflict(r)) \/ Reads(r)
  BY <1>6 DEF Step, Reads
<1> QED  BY <1>1, <1>2, <1>3, <1>4, <1>5, <1>6 DEF Next

\* A request is granted only by Check, and keeps its target and its purpose.
LEMMA GrantedMoves ==
  ASSUME IInv, NEW r \in Requests, Reads(r), NEW q \in Requests, Granted(request'[q])
  PROVE  \/ /\ Granted(request[q])
            /\ request'[q].id = request[q].id /\ request'[q].op = request[q].op
         \/ version[request'[q].id].status = Verdict(request'[q].op)
<1>0. request \in [Requests -> Request] /\ request[q] \in Request /\ Holds(request[q])
  BY DEF IInv, TypeOK, Discipline
<1>1. CASE q # r
  <2>1. request'[q] = request[q]
    BY <1>0, <1>1 DEF Reads, LockTarget, SeeActive, LockActive, Check, CountJobs, Respond, Switch
  <2> QED  BY <2>1
<1>2. CASE q = r /\ (LockTarget(r) \/ Respond(r) \/ (Switch(r) /\ Conflict(r)))
  <2>1. \E s : /\ request' = [request EXCEPT ![r] = s]
              /\ s.pc \in {"target", "idle", "refused"}
    <3>1. CASE LockTarget(r)
      <4>1. PICK v \in Versions, op \in {"validate", "activate", "rollback"} :
              request' = [request EXCEPT ![r] =
                [IdleRequest EXCEPT !.pc = "target", !.op = op, !.id = v, !.locks = {v}]]
        BY <3>1 DEF LockTarget
      <4>2. [IdleRequest EXCEPT !.pc = "target", !.op = op, !.id = v, !.locks = {v}].pc = "target"
        BY DEF IdleRequest
      <4> QED  BY <4>1, <4>2
    <3>2. CASE Respond(r)
      <4>1. IdleRequest.pc = "idle"
        BY DEF IdleRequest
      <4> QED  BY <3>2, <4>1 DEF Respond
    <3>3. CASE Switch(r) /\ Conflict(r)
      <4>1. [IdleRequest EXCEPT !.pc = "refused", !.op = request[r].op].pc = "refused"
        BY DEF IdleRequest
      <4> QED  BY <3>3, <4>1 DEF Switch
    <3> QED  BY <1>2, <3>1, <3>2, <3>3
  <2> QED  BY <1>0, <1>2, <2>1 DEF Granted
<1>3. CASE q = r /\ SeeActive(r)
  <2>1. /\ request'[r].pc \in {"locking", "relocking"}
        /\ request'[r].pc = "relocking" => request[r].pc = "ready"
        /\ request'[r].id = request[r].id /\ request'[r].op = request[r].op
    BY <1>0, <1>3 DEF SeeActive, Request
  <2> QED  BY <1>3, <2>1 DEF Granted
<1>4. CASE q = r /\ LockActive(r)
  <2>1. /\ request'[r].pc \in {"checking", "writing"}
        /\ request'[r].pc = "writing" => request[r].pc = "relocking"
        /\ request'[r].id = request[r].id /\ request'[r].op = request[r].op
    BY <1>0, <1>4 DEF LockActive, Request
  <2> QED  BY <1>4, <2>1 DEF Granted
<1>5. CASE q = r /\ CountJobs(r)
  <2>1. \/ request'[r] = IdleRequest
        \/ /\ request[r].pc = "jobs"
           /\ request'[r].id = request[r].id /\ request'[r].op = request[r].op
    BY <1>0, <1>5 DEF CountJobs, Request
  <2> QED  BY <1>5, <2>1 DEF Granted, IdleRequest
<1>6. CASE q = r /\ Check(r)
  <2>1. request[r].op \in {"validate", "activate", "rollback"}
    BY <1>0, <1>6 DEF Check, Holds, Request
  <2>2. CASE ~Proceeds(r)
    BY <1>0, <1>6, <2>2 DEF Check, Granted, IdleRequest
  <2>3. CASE Proceeds(r)
    <3> DEFINE p == CASE request[r].op = "validate" -> "writing"
                      [] request[r].op = "activate" -> "jobs"
                      [] request[r].op = "rollback" -> "ready"
    <3>1. request' = [request EXCEPT ![r] = [request[r] EXCEPT !.pc = p]]
      BY <1>0, <1>6, <2>3 DEF Check
    <3>2. request'[r].pc = p /\ request'[r].id = request[r].id /\ request'[r].op = request[r].op
      <4> HIDE DEF p
      <4> QED  BY <1>0, <3>1 DEF Request
    <3>3. request[r].op # "validate"
      BY <1>6, <3>2 DEF Granted
    <3>4. version[request[r].id].status = Verdict(request[r].op)
      BY <2>1, <2>3, <3>3 DEF Proceeds, Allowed, Verdict
    <3> QED  BY <1>6, <3>2, <3>4
  <2> QED  BY <2>2, <2>3
<1> QED  BY <1>1, <1>2, <1>3, <1>4, <1>5, <1>6 DEF Reads

\* What Validate and Switch write.
LEMMA Writes ==
  ASSUME IInv, NEW r \in Requests, Validate(r) \/ (Switch(r) /\ ~Conflict(r))
  PROVE  /\ request[r].id \in Versions /\ request' = [request EXCEPT ![r] = IdleRequest]
         /\ \A v \in Versions : version'[v] # version[v] => v \in request[r].locks
<1>1. /\ Holds(request[r]) /\ request[r].pc = "writing" /\ version \in [Versions -> Version]
      /\ request[r].id \in Versions /\ request[r].id \in request[r].locks
  BY DEF IInv, Discipline, TypeOK, Validate, Switch, Holds
<1>2. CASE Validate(r)
  BY <1>1, <1>2 DEF Validate
<1>3. CASE Switch(r) /\ ~Conflict(r)
  <2>1. /\ request[r].wants \subseteq request[r].locks
        /\ version' = [u \in Versions |->
             CASE u = request[r].id -> [status |-> "active", aged |-> FALSE]
               [] u # request[r].id /\ u \in request[r].wants -> [status |-> "retired", aged |-> FALSE]
               [] OTHER -> version[u]]
        /\ request' = [request EXCEPT ![r] = IdleRequest]
    BY <1>1, <1>3 DEF Switch, Holds
  <2> QED  BY <1>1, <2>1
<1> QED  BY <1>2, <1>3

LEMMA JudgedStep == ASSUME IInv, Judged, [Next]_vars PROVE Judged'
<1>0. /\ version \in [Versions -> Version] /\ request \in [Requests -> Request]
      /\ \A q \in Requests : Granted(request[q]) =>
           request[q].id \in Versions /\ request[q].id \in request[q].locks
  BY DEF IInv, TypeOK, Discipline, Granted, Holds
<1>1. CASE UNCHANGED <<version, request>>
  BY <1>1 DEF Judged
<1>2. ASSUME NEW v \in Versions, NEW st, Opens(v, st) PROVE Judged'
  <2> SUFFICES ASSUME NEW q \in Requests, Granted(request[q])
               PROVE  version'[request[q].id].status = Verdict(request[q].op)
    BY <1>2 DEF Judged, Opens
  <2>1. version[request[q].id].status \in {"validated", "retired"}
        /\ version[request[q].id].status = Verdict(request[q].op)
    BY DEF Judged, Verdict
  <2>2. version[v].status = "absent" /\ version' = [version EXCEPT ![v].status = st]
    BY <1>2 DEF Opens
  <2> QED  BY <1>0, <2>1, <2>2
<1>3. ASSUME NEW r \in Requests, Validate(r) \/ (Switch(r) /\ ~Conflict(r)) PROVE Judged'
  <2> SUFFICES ASSUME NEW q \in Requests, Granted(request'[q])
               PROVE  version'[request'[q].id].status = Verdict(request'[q].op)
    BY DEF Judged
  <2>1. request' = [request EXCEPT ![r] = IdleRequest]
    BY <1>3, Writes
  <2>2. q # r /\ request'[q] = request[q]
    BY <1>0, <2>1 DEF Granted, IdleRequest
  <2>3. request[q].locks \cap request[r].locks = {}
    BY <2>2 DEF IInv, Discipline, Exclusive
  <2>4. version'[request[q].id] = version[request[q].id]
    BY <1>0, <1>3, <2>2, <2>3, Writes
  <2> QED  BY <2>2, <2>4 DEF Judged
<1>4. ASSUME NEW v \in Versions, Age(v) PROVE Judged'
  <2>1. UNCHANGED request /\ \A u \in Versions : version'[u].status = version[u].status
    BY <1>0, <1>4 DEF Age, Version
  <2> QED  BY <1>0, <2>1 DEF Judged
<1>5. ASSUME NEW r \in Requests, Reads(r), UNCHANGED version PROVE Judged'
  <2> SUFFICES ASSUME NEW q \in Requests, Granted(request'[q])
               PROVE  version[request'[q].id].status = Verdict(request'[q].op)
    BY <1>5 DEF Judged
  <2> QED  BY <1>5, GrantedMoves DEF Judged
<1>6. CASE Next
  BY <1>1, <1>2, <1>3, <1>4, <1>5, <1>6, CatalogSteps
<1>7. CASE UNCHANGED vars
  BY <1>1, <1>7 DEF vars
<1> QED  BY <1>6, <1>7

statuses == [v \in Versions |-> version[v].status]

\* Every step of the service is a step of Catalog or leaves the statuses alone.
LEMMA StepSwitches ==
  ASSUME IInv, Judged, Next
  PROVE  Served!Next \/ UNCHANGED statuses
<1>0. version \in [Versions -> Version] /\ \A v \in Versions : version[v] \in Version
  BY DEF IInv, TypeOK
<1>1. Served!Serving = Active
  BY DEF Served!Serving, Active
<1>2. ASSUME NEW v \in Versions, NEW st \in {"active", "building"}, Opens(v, st)
      PROVE  Served!Next
  <2>1. statuses' = [statuses EXCEPT ![v] = st] /\ statuses[v] = "absent"
    BY <1>0, <1>2 DEF Opens, statuses, Version
  <2>2. st = "active" => Active = {}
    BY <1>2 DEF Opens
  <2>3. CASE st = "active"
    <3>1. Served!Bootstrap(v)
      BY <1>1, <2>1, <2>2, <2>3 DEF Served!Bootstrap, statuses
    <3> QED  BY <3>1 DEF Served!Next
  <2>4. CASE st = "building"
    <3>1. Served!Draft(v)
      BY <2>1, <2>4 DEF Served!Draft, statuses
    <3> QED  BY <3>1 DEF Served!Next
  <2> QED  BY <2>3, <2>4
<1>3. ASSUME NEW r \in Requests, Validate(r) PROVE Served!Next
  <2>1. PICK v \in Versions : v = request[r].id /\ version[v].status = "building"
    BY <1>3 DEF IInv, Discipline, Holds, Validate
  <2>2. version' = [version EXCEPT ![v].status = "validated"]
    BY <1>3, <2>1 DEF Validate
  <2>3. statuses' = [statuses EXCEPT ![v] = "validated"] /\ statuses[v] = "building"
    BY <1>0, <2>1, <2>2 DEF statuses, Version
  <2>4. Served!Approve(v)
    BY <2>3 DEF Served!Approve, statuses
  <2> QED  BY <2>4 DEF Served!Next
<1>4. ASSUME NEW r \in Requests, Switch(r), ~Conflict(r) PROVE Served!Next
  <2>1. PICK v \in Versions : v = request[r].id
    BY <1>4 DEF IInv, Discipline, Holds, Switch
  <2>2. /\ request[r].pc = "writing" /\ request[r].op # "validate"
        /\ request[r].op \in {"none", "validate", "activate", "rollback"}
        /\ \A u \in request[r].wants : u \in Active
    BY <1>4 DEF Switch, IInv, TypeOK, Discipline, Holds, Request, Active
  <2>3. version[v].status = Verdict(request[r].op)
    BY <2>1, <2>2 DEF Judged, Granted
  <2>4. Active \ {v} \subseteq request[r].wants /\ \A a \in Active \ {v} : ~(a > v)
    BY <1>4, <2>1 DEF Conflict
  <2>5. version[v].status \in {"validated", "retired"}
    BY <2>3 DEF Verdict
  <2>6. v \notin Active /\ request[r].wants = Active
    BY <2>2, <2>4, <2>5 DEF Active
  <2>7. version' = [u \in Versions |->
          CASE u = v -> [status |-> "active", aged |-> FALSE]
            [] u # v /\ u \in Active -> [status |-> "retired", aged |-> FALSE]
            [] OTHER -> version[u]]
    BY <1>4, <2>1, <2>6 DEF Switch
  <2>8. statuses' = [u \in Versions |->
          CASE u = v -> "active" [] u \in Active -> "retired" [] OTHER -> statuses[u]]
    BY <2>6, <2>7 DEF statuses
  <2>9. Served!Promote(v) \/ Served!Restore(v)
    BY <1>1, <2>5, <2>8 DEF Served!Promote, Served!Restore, Served!Takes, statuses
  <2> QED  BY <2>9 DEF Served!Next
<1>5. ASSUME NEW v \in Versions, Age(v) PROVE UNCHANGED statuses
  BY <1>0, <1>5 DEF Age, statuses, Version
<1>6. UNCHANGED version => UNCHANGED statuses
  BY DEF statuses
<1> QED  BY <1>2, <1>3, <1>4, <1>5, <1>6, CatalogSteps

\* However statements of administrators interleave, and whatever flushes are refused, the
\* catalog changes as Catalog does: a version goes into service only when it was validated
\* or has served before, in one step with the departure of the one that served.
THEOREM VersionsImplementCatalog == Spec => SwitchesAtomically
<1>1. Init => Served!Init /\ Judged
  BY DEF Init, Served!Init, Judged, Granted, IdleRequest
<1>2. IInv /\ Judged /\ [Next]_vars => [Served!Next]_statuses
  <2>1. UNCHANGED vars => UNCHANGED statuses
    BY DEF vars, statuses
  <2> QED  BY <2>1, StepSwitches
<1>3. IInv /\ Judged /\ [Next]_vars => Judged'
  BY JudgedStep
<1> QED  BY <1>1, <1>2, <1>3, IInvInit, IInvStep, PTL
            DEF Spec, SwitchesAtomically, Served!Spec, statuses
=============================================================================
