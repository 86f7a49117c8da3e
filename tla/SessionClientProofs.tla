------------------------- MODULE SessionClientProofs -------------------------
(***************************************************************************)
(* Proofs about SessionClient, for any number of tabs, requests, sign-ins  *)
(* and faults. TLC's instance has two requests; that a third one cannot    *)
(* break the sharing of a refresh is what the proofs add to it.            *)
(***************************************************************************)
EXTENDS SessionClient, TLAPS

\* A request is a session, and None is no name of anything.
LEMMA Names ==
  /\ Requests \subseteq Sessions /\ SignIns \subseteq Sessions
  /\ None \notin Requests /\ None \notin SignIns /\ None \notin Sessions
  BY SessionClientAssumption DEF Sessions, None

-----------------------------------------------------------------------------
(* Type correctness                                                        *)

\* The parts of TypeOK that a step of one request or refresh needs.
LEMMA Parts ==
  ASSUME TypeOK
  PROVE  /\ request \in [Requests -> Request] /\ refresh \in [Requests -> Refresh]
         /\ tab \in [Tabs -> Tab] /\ faults \in Nat
         /\ jar.session \in Sessions \cup {None}
         /\ \A q \in Requests : request[q].pc \in {"sent", "refused", "waiting"}
                               => request[q].tab \in Tabs
<1>1. jar.session \in Sessions \cup {None}
  BY DEF TypeOK, Jar
<1> QED  BY <1>1 DEF TypeOK, WellPlaced

\* A request that changes keeps the others as they were.
LEMMA OneRequest ==
  ASSUME TypeOK, NEW q \in Requests, NEW r \in Request, WellPlaced(r),
         request' = [request EXCEPT ![q] = r]
  PROVE  /\ request' \in [Requests -> Request]
         /\ \A k \in Requests : WellPlaced(request'[k])
<1>1. request \in [Requests -> Request] /\ \A k \in Requests : WellPlaced(request[k])
  BY DEF TypeOK
<1> QED  BY <1>1

\* Requests are sent, served, given up and cancelled.
LEMMA RequestMoves ==
  ASSUME TypeOK, NEW q \in Requests,
         \/ \E t \in Tabs : Send(q, t)
         \/ Serve(q) \/ Cancel(q) \/ GiveUp(q)
  PROVE  /\ UNCHANGED <<session, jar, tab, refresh, signIn, leaving>> /\ faults' \in Nat
         /\ \E r \in Request :
              /\ request' = [request EXCEPT ![q] = r] /\ WellPlaced(r)
              /\ r.pc \in {"sent", "refused", "over"}
              /\ r.pc = "sent" => request[q].pc = "new"
              /\ r.pc = "refused" => request[q].pc = "sent" /\ ~request[q].retried
<1>1. UNCHANGED <<session, jar, tab, refresh, signIn, leaving>> /\ faults' \in Nat
  <2>1. UNCHANGED <<session, jar, tab, refresh, signIn, leaving>>
    BY DEF Send, Serve, Cancel, GiveUp
  <2>2. faults' = faults \/ faults' = faults + 1
    BY DEF Send, Serve, Cancel, GiveUp
  <2> QED  BY <2>1, <2>2, Parts
<1>2. request[q] \in Request /\ WellPlaced(request[q])
  BY DEF TypeOK
<1>3. Over \in Request /\ WellPlaced(Over) /\ Over.pc = "over"
  BY DEF Over, NewRequest, Request, WellPlaced
<1>4. CASE \E t \in Tabs : Send(q, t)
  <2>1. PICK t \in Tabs : Send(q, t)
    BY <1>4
  <2>2. AccessToken \in Sessions \cup {None}
    BY Parts DEF AccessToken
  <2> DEFINE r == [request[q] EXCEPT !.pc = "sent", !.tab = t, !.token = AccessToken]
  <2>3. r \in Request /\ r.pc = "sent" /\ WellPlaced(r)
    BY <1>2, <2>2 DEF Request, WellPlaced
  <2>4. request' = [request EXCEPT ![q] = r] /\ request[q].pc = "new"
    BY <2>1 DEF Send
  <2> HIDE DEF r
  <2> QED  BY <1>1, <2>3, <2>4
<1>5. CASE Serve(q) /\ request' # [request EXCEPT ![q] = Over]
  <2> DEFINE r == [request[q] EXCEPT !.pc = "refused"]
  <2>1. /\ request' = [request EXCEPT ![q] = r]
        /\ request[q].pc = "sent" /\ ~request[q].retried
    BY <1>5 DEF Serve
  <2>2. r \in Request /\ r.pc = "refused" /\ WellPlaced(r)
    BY <1>2, <2>1 DEF Request, WellPlaced
  <2> HIDE DEF r
  <2> QED  BY <1>1, <2>1, <2>2
<1>6. CASE request' = [request EXCEPT ![q] = Over]
  BY <1>1, <1>3, <1>6
<1> QED  BY <1>4, <1>5, <1>6 DEF Cancel, GiveUp

\* These requests, and those that join or begin a refresh.
LEMMA RequestsTyped ==
  ASSUME TypeOK, NEW q \in Requests,
         \/ \E t \in Tabs : Send(q, t)
         \/ Serve(q) \/ Cancel(q) \/ Handle(q)
  PROVE  TypeOK'
<1> USE DEF TypeOK
<1>1. request[q] \in Request
  OBVIOUS
<1>2. CASE \/ \E t \in Tabs : Send(q, t)
           \/ Serve(q) \/ Cancel(q) \/ GiveUp(q)
  <2>1. UNCHANGED <<session, jar, tab, refresh, signIn, leaving>> /\ faults' \in Nat
    BY <1>2, RequestMoves
  <2>2. request' \in [Requests -> Request] /\ \A k \in Requests : WellPlaced(request'[k])
    <3> HIDE DEF TypeOK
    <3> QED  BY <1>2, RequestMoves, OneRequest
  <2> QED  BY <2>1, <2>2
<1>6. ASSUME NEW f \in Requests, MayRefresh(q), Waits(q, f)
      PROVE  /\ request' \in [Requests -> Request]
             /\ \A k \in Requests : WellPlaced(request'[k])
             /\ request[q].tab \in Tabs
  <2>1. request[q].tab \in Tabs
    <3> HIDE DEF TypeOK
    <3> QED  BY <1>6, Parts DEF MayRefresh
  <2>2. tab[request[q].tab].generation \in Nat
    BY <2>1 DEF Tab
  <2> DEFINE r == [request[q] EXCEPT !.pc = "waiting", !.flight = f,
                                     !.generation = tab[request[q].tab].generation]
  <2>3. r \in Request /\ WellPlaced(r)
    BY <1>1, <2>1, <2>2, Names DEF Request, WellPlaced
  <2>4. request' = [request EXCEPT ![q] = r]
    BY <1>6 DEF Waits
  <2> HIDE DEF r
  <2> QED  BY <2>1, <2>3, <2>4, OneRequest
<1>7. CASE Join(q)
  <2>1. request[q].tab \in Tabs /\ tab[request[q].tab].promise # None
    <3> HIDE DEF TypeOK
    <3> QED  BY <1>7, Parts DEF Join, MayRefresh, Shares
  <2>2. tab[request[q].tab].promise \in Requests
    BY <2>1 DEF Tab
  <2> QED  BY <1>6, <1>7, <2>2 DEF Join
<1>8. CASE StartRefresh(q)
  <2>1. request[q].tab \in Tabs /\ jar.session \in Sessions \cup {None}
    BY <1>6, <1>8 DEF StartRefresh, Jar
  <2>2. refresh' \in [Requests -> Refresh]
    BY <1>8, <2>1 DEF StartRefresh, Refresh, Tab
  <2>3. tab' \in [Tabs -> Tab]
    BY <1>8, <2>1 DEF StartRefresh, Tab
  <2> QED  BY <1>6, <1>8, <2>2, <2>3 DEF StartRefresh
<1> QED  BY <1>2, <1>7, <1>8 DEF Handle

\* A refresh is read, rotated, stored, lost and resolved.
LEMMA RefreshesTyped ==
  ASSUME TypeOK, NEW f \in Requests, Travel(f) \/ RefreshLost(f)
  PROVE  TypeOK'
<1> USE DEF TypeOK
<1>1. refresh[f] \in Refresh /\ NoRefresh \in Refresh
  BY DEF Refresh, NoRefresh
<1>2. CASE RefreshRead(f)
  BY <1>1, <1>2 DEF RefreshRead, Refresh, Answered
<1>3. CASE RefreshRotate(f)
  <2>1. refresh' \in [Requests -> Refresh]
    <3>1. ASSUME NEW answer \in {"granted", "refused"}
          PROVE  [refresh[f] EXCEPT !.server = "over", !.answer = Answered(f, answer)] \in Refresh
      BY <1>1 DEF Refresh, Answered
    <3> QED  BY <1>3, <3>1 DEF RefreshRotate
  <2>2. session' \in [Sessions -> Session]
    <3>1. CASE Rotates(f)
      <4> DEFINE old == refresh[f].sent
      <4>1. old \in Sessions /\ session[old] \in Session
        BY <1>1, <3>1 DEF Rotates, Live, Refresh
      <4>2. Ended(old, refresh[f].tab) \in Session /\ LiveSession(session[old].login) \in Session
        BY <1>1, <4>1 DEF Ended, LiveSession, Session, Refresh
      <4> QED  BY <1>3, <3>1, <4>2 DEF RefreshRotate
    <3> QED  BY <1>3, <3>1 DEF RefreshRotate
  <2> QED  BY <1>3, <2>1, <2>2 DEF RefreshRotate
<1>4. CASE RefreshStored(f)
  BY <1>1, <1>4, Names DEF RefreshStored, Refresh, Jar
<1>5. CASE RefreshLost(f)
  <2>1. [refresh[f] EXCEPT !.answer = "lost"] \in Refresh
    BY <1>1 DEF Refresh
  <2> QED  BY <1>5, <2>1 DEF RefreshLost
<1>6. CASE Resolve(f)
  <2>1. refresh' \in [Requests -> Refresh]
    <3>1. [refresh[f] EXCEPT !.pending = FALSE] \in Refresh
      BY <1>1 DEF Refresh
    <3> QED  BY <1>1, <1>6, <3>1 DEF Resolve
  <2>2. tab' \in [Tabs -> Tab]
    <3> DEFINE t == refresh[f].tab
    <3>1. SUFFICES ASSUME t \in Tabs PROVE tab' \in [Tabs -> Tab]
      BY <1>6 DEF Resolve
    <3>2. tab[t] \in Tab /\ PromiseAfter(f) \in Requests \cup {None}
      BY <3>1 DEF Tab, PromiseAfter
    <3>3. /\ [user |-> None, generation |-> tab[t].generation + 1, promise |-> PromiseAfter(f)] \in Tab
          /\ [tab[t] EXCEPT !.promise = PromiseAfter(f)] \in Tab
      BY <3>2 DEF Tab
    <3> QED  BY <1>6, <3>1, <3>3 DEF Resolve
  <2>3. AccessToken \in Sessions \cup {None} /\ Over \in Request
    BY DEF AccessToken, Jar, Over, NewRequest, Request
  <2>4. ASSUME NEW q \in Requests
        PROVE  request'[q] \in Request /\ WellPlaced(request'[q])
    <3>1. request[q] \in Request /\ WellPlaced(request[q])
      BY DEF WellPlaced
    <3>2. CASE q \in Waiters(f)
      <4> DEFINE r == [request[q] EXCEPT !.pc = "sent", !.retried = TRUE, !.token = AccessToken]
      <4>1. request'[q] \in {r, Over}
        BY <1>6, <3>2 DEF Resolve
      <4>2. r \in Request /\ WellPlaced(r)
        BY <2>3, <3>1, <3>2 DEF Request, WellPlaced, Waiters
      <4>3. WellPlaced(Over)
        BY DEF Over, NewRequest, WellPlaced
      <4> HIDE DEF r
      <4> QED  BY <2>3, <4>1, <4>2, <4>3
    <3>3. CASE q \notin Waiters(f)
      BY <1>6, <3>1, <3>3 DEF Resolve
    <3> QED  BY <3>2, <3>3
  <2>5. request' = [q \in Requests |-> request'[q]]
    BY <1>6 DEF Resolve
  <2>6. request' \in [Requests -> Request]
    <3>1. \A q \in Requests : request'[q] \in Request
      BY <2>4
    <3> HIDE DEF TypeOK
    <3> QED  BY <2>5, <3>1
  <2>7. \A q \in Requests : WellPlaced(request'[q])
    BY <2>4
  <2>8. UNCHANGED <<session, jar, signIn, leaving, faults>>
    BY <1>6 DEF Resolve
  <2> QED  BY <2>1, <2>2, <2>6, <2>7, <2>8
<1> QED  BY <1>2, <1>3, <1>4, <1>5, <1>6 DEF Travel

\* The rest.
LEMMA UsersTyped ==
  ASSUME TypeOK,
         \/ \E t \in Tabs : Leave(t) \/ \E a \in SignIns : BeginSignIn(a, t)
         \/ \E a \in SignIns : Enter(a)
         \/ \E i \in Sessions : RevokeElsewhere(i)
         \/ Expire
  PROVE  TypeOK'
<1> USE DEF TypeOK
<1>1. ASSUME NEW t \in Tabs, Leave(t)
      PROVE  TypeOK'
  <2>1. leaving[t] \in Leaving /\ NoLogout \in Leaving
    BY DEF Leaving, NoLogout
  <2>2. CASE BeginLogout(t)
    BY <2>1, <2>2 DEF BeginLogout, Leaving, Tab
  <2>3. CASE SendLogout(t)
    <3>1. [pc |-> "sent", sent |-> jar.session] \in Leaving
      BY DEF Leaving, Jar
    <3> QED  BY <2>3, <3>1 DEF SendLogout
  <2>4. CASE EndSession(t)
    <3>1. session' \in [Sessions -> Session]
      <4> DEFINE i == leaving[t].sent
      <4>1. SUFFICES ASSUME Live(i) PROVE session' \in [Sessions -> Session]
        BY <2>4 DEF EndSession
      <4>2. i \in Sessions /\ session[i] \in Session
        BY <2>1, <4>1 DEF Live, Leaving
      <4>3. Ended(i, t) \in Session
        BY <4>2 DEF Ended, Session
      <4> QED  BY <2>4, <4>1, <4>3 DEF EndSession
    <3>2. leaving' \in [Tabs -> Leaving]
      BY <2>1, <2>4 DEF EndSession, Leaving
    <3> QED  BY <2>4, <3>1, <3>2 DEF EndSession
  <2>5. CASE LogoutStored(t)
    <3>1. jar' \in Jar
      <4>1. [session |-> None, fresh |-> FALSE] \in Jar
        BY DEF Jar
      <4> QED  BY <2>5, <4>1 DEF LogoutStored
    <3>2. faults' \in Nat
      BY <2>5 DEF LogoutStored
    <3> QED  BY <2>1, <2>5, <3>1, <3>2 DEF LogoutStored
  <2> QED  BY <1>1, <2>2, <2>3, <2>4, <2>5 DEF Leave
<1>2. ASSUME NEW a \in SignIns, NEW t \in Tabs, BeginSignIn(a, t)
      PROVE  TypeOK'
  BY <1>2 DEF BeginSignIn, SignIn
<1>3. ASSUME NEW a \in SignIns, Enter(a)
      PROVE  TypeOK'
  <2>1. signIn[a] \in SignIn
    OBVIOUS
  <2>2. CASE OpenSession(a)
    <3>1. LiveSession(a) \in Session
      BY DEF LiveSession, Session
    <3>2. session' \in [Sessions -> Session]
      BY <2>2, <3>1 DEF OpenSession
    <3>3. signIn' \in [SignIns -> SignIn]
      BY <2>1, <2>2 DEF OpenSession, SignIn
    <3> QED  BY <2>2, <3>2, <3>3 DEF OpenSession
  <2>3. CASE SignInStored(a)
    <3>1. jar' \in Jar
      BY <2>3, Names DEF SignInStored, Jar
    <3>2. signIn' \in [SignIns -> SignIn]
      BY <2>1, <2>3 DEF SignInStored, SignIn
    <3> QED  BY <2>3, <3>1, <3>2 DEF SignInStored
  <2>4. CASE ShowUser(a)
    <3>1. tab' \in [Tabs -> Tab]
      <4> DEFINE t == signIn[a].tab
      <4>1. SUFFICES ASSUME t \in Tabs PROVE tab' \in [Tabs -> Tab]
        BY <2>4 DEF ShowUser
      <4>2. tab[t] \in Tab
        BY <4>1
      <4>3. [tab[t] EXCEPT !.user = a, !.generation = tab[t].generation + 1] \in Tab
        <5> HIDE DEF TypeOK
        <5>1. tab[t].generation + 1 \in Nat
          BY <4>2 DEF Tab
        <5> QED  BY <4>2, <5>1 DEF Tab
      <4> QED  BY <2>4, <4>1, <4>3 DEF ShowUser
    <3>2. signIn' \in [SignIns -> SignIn]
      BY <2>1, <2>4 DEF ShowUser, SignIn
    <3> QED  BY <2>4, <3>1, <3>2 DEF ShowUser
  <2> QED  BY <1>3, <2>2, <2>3, <2>4 DEF Enter
<1>4. ASSUME NEW i \in Sessions, RevokeElsewhere(i)
      PROVE  TypeOK'
  <2>1. session[i] \in Session
    OBVIOUS
  <2>2. Ended(i, Elsewhere) \in Session
    BY <2>1 DEF Ended, Session
  <2>3. session' \in [Sessions -> Session] /\ faults' \in Nat
    BY <1>4, <2>2 DEF RevokeElsewhere
  <2> QED  BY <1>4, <2>3 DEF RevokeElsewhere
<1>5. CASE Expire
  <2>1. [jar EXCEPT !.fresh = FALSE] \in Jar
    BY DEF Jar
  <2>2. jar' \in Jar /\ faults' \in Nat
    BY <1>5, <2>1 DEF Expire
  <2> QED  BY <1>5, <2>2 DEF Expire
<1> QED  BY <1>1, <1>2, <1>3, <1>4, <1>5

LEMMA InitTyped == Init => TypeOK
<1> SUFFICES ASSUME Init PROVE TypeOK
  OBVIOUS
<1>1. request \in [Requests -> Request] /\ refresh \in [Requests -> Refresh]
      /\ leaving \in [Tabs -> Leaving] /\ faults \in Nat
  BY DEF Init, NewRequest, Request, NoRefresh, Refresh, NoLogout, Leaving
<1>2. \A q \in Requests : request[q].pc = "new"
  BY DEF Init, NewRequest
<1>3. session \in [Sessions -> Session] /\ jar \in Jar
      /\ tab \in [Tabs -> Tab] /\ signIn \in [SignIns -> SignIn]
  BY Names DEF Init, LiveSession, NoSession, Session, Jar, Tab, SignIn
<1> QED  BY <1>1, <1>2, <1>3 DEF TypeOK, WellPlaced

LEMMA StepTyped == TypeOK /\ [Next]_vars => TypeOK'
<1> SUFFICES ASSUME TypeOK, [Next]_vars PROVE TypeOK'
  OBVIOUS
<1>1. CASE Next
  BY <1>1, RequestsTyped, RefreshesTyped, UsersTyped DEF Next
<1>2. CASE UNCHANGED vars
  BY <1>2 DEF vars, TypeOK
<1> QED  BY <1>1, <1>2

\* Sessions, cookies, tabs, requests and refreshes stay well formed.
THEOREM TypeCorrect == Spec => []TypeOK
  BY InitTyped, StepTyped, PTL DEF Spec

-----------------------------------------------------------------------------
(* One refresh for each generation of a tab                                *)

\* A refresh under way is not newer than its tab, and shared if it is not older.
Flights ==
  \A f \in Requests : refresh[f].pending =>
    /\ refresh[f].tab \in Tabs
    /\ refresh[f].generation <= tab[refresh[f].tab].generation
    /\ refresh[f].generation = tab[refresh[f].tab].generation
       => tab[refresh[f].tab].promise = f

\* What a tab shares is a refresh of its own that is under way.
Promised ==
  \A t \in Tabs : tab[t].promise # None =>
    refresh[tab[t].promise].pending /\ refresh[tab[t].promise].tab = t

\* A request refreshes at most once: not before its first 401.
Unused ==
  \A q \in Requests :
    \/ request[q].pc \in {"new", "refused"}
    \/ request[q].pc = "sent" /\ ~request[q].retried
    => ~refresh[q].pending

\* Who waits, waits for a refresh of its tab of the generation in which it was refused.
Faithful ==
  \A q \in Requests : request[q].pc = "waiting" =>
    LET f == request[q].flight
    IN /\ f \in Requests /\ refresh[f].pending /\ refresh[f].tab = request[q].tab
       /\ request[q].generation = refresh[f].generation

\* The inductive invariant of the tabs.
TabInv == TypeOK /\ SingleFlight /\ Flights /\ Promised /\ Unused /\ Faithful

\* A refresh as its tab sees it.
SameFlight(f) ==
  /\ refresh'[f].pending = refresh[f].pending
  /\ refresh'[f].tab = refresh[f].tab
  /\ refresh'[f].generation = refresh[f].generation

\* The server and the browser's cookies are nothing to a tab.
LEMMA Unseen ==
  ASSUME TypeOK, Next
  PROVE  \/ UNCHANGED <<tab, request>> /\ \A f \in Requests : SameFlight(f)
         \/ \E q \in Requests : \/ \E t \in Tabs : Send(q, t)
                                \/ Serve(q) \/ Cancel(q) \/ Handle(q) \/ Resolve(q)
         \/ \E t \in Tabs : BeginLogout(t)
         \/ \E a \in SignIns : ShowUser(a)
<1> USE Parts
<1>1. (\A f \in Requests : refresh'[f] = refresh[f]) => \A f \in Requests : SameFlight(f)
  BY DEF SameFlight
<1>2. ASSUME NEW f \in Requests,
             RefreshRead(f) \/ RefreshRotate(f) \/ RefreshStored(f) \/ RefreshLost(f)
      PROVE  UNCHANGED <<tab, request>> /\ \A g \in Requests : SameFlight(g)
  <2>1. UNCHANGED <<tab, request>>
    BY <1>2 DEF RefreshRead, RefreshRotate, RefreshStored, RefreshLost
  <2>2. ASSUME NEW g \in Requests, g # f
        PROVE  refresh'[g] = refresh[g]
    BY <1>2, <2>2 DEF RefreshRead, RefreshRotate, RefreshStored, RefreshLost
  <2>3. refresh[f] \in Refresh
    OBVIOUS
  <2>4. SameFlight(f)
    BY <1>2, <2>3 DEF RefreshRead, RefreshRotate, RefreshStored, RefreshLost, SameFlight, Refresh
  <2>5. \A g \in Requests : g # f => SameFlight(g)
    BY <2>2 DEF SameFlight
  <2> QED  BY <2>1, <2>4, <2>5
<1>3. ASSUME \/ \E t \in Tabs : \/ SendLogout(t) \/ EndSession(t) \/ LogoutStored(t)
                                \/ \E a \in SignIns : BeginSignIn(a, t)
             \/ \E a \in SignIns : OpenSession(a) \/ SignInStored(a)
             \/ \E i \in Sessions : RevokeElsewhere(i)
             \/ Expire
      PROVE  UNCHANGED <<tab, request, refresh>>
  BY <1>3 DEF SendLogout, EndSession, LogoutStored, BeginSignIn, OpenSession, SignInStored,
              RevokeElsewhere, Expire
<1> QED  BY <1>1, <1>2, <1>3 DEF Next, Travel, Leave, Enter

LEMMA InitTab == Init => TabInv
<1> SUFFICES ASSUME Init PROVE TabInv
  OBVIOUS
<1>1. TypeOK
  BY InitTyped
<1>2. \A q \in Requests : request[q] = NewRequest /\ refresh[q] = NoRefresh
  BY DEF Init
<1>3. \A q \in Requests : request[q].pc = "new" /\ ~refresh[q].pending
  BY <1>2 DEF NewRequest, NoRefresh
<1>4. \A t \in Tabs : tab[t].promise = None
  <2>1. PICK a \in SignIns : tab = [t \in Tabs |-> [user |-> a, generation |-> 0, promise |-> None]]
    BY DEF Init
  <2> QED  BY <2>1
<1> QED  BY <1>1, <1>3, <1>4 DEF TabInv, SingleFlight, Flights, Promised, Unused, Faithful

\* A step no tab sees.
LEMMA UnseenKeeps ==
  ASSUME TabInv, TypeOK', UNCHANGED <<tab, request>>, \A f \in Requests : SameFlight(f)
  PROVE  TabInv'
<1>1. SingleFlight' /\ Flights' /\ Unused' /\ Faithful'
  BY DEF TabInv, SingleFlight, Flights, Unused, Faithful, SameFlight
<1>2. Promised'
  BY Parts DEF TabInv, Promised, SameFlight, Tab
<1> QED  BY <1>1, <1>2 DEF TabInv

\* Requests that are sent, served, given up or aborted.
LEMMA RequestKeeps ==
  ASSUME TabInv, TypeOK', NEW q \in Requests,
         \/ \E t \in Tabs : Send(q, t)
         \/ Serve(q) \/ Cancel(q) \/ GiveUp(q)
  PROVE  TabInv'
<1> USE DEF TabInv
<1>1. PICK r \in Request :
        /\ request' = [request EXCEPT ![q] = r]
        /\ r.pc \in {"sent", "refused", "over"}
        /\ r.pc = "sent" => request[q].pc = "new"
        /\ r.pc = "refused" => request[q].pc = "sent" /\ ~request[q].retried
  BY RequestMoves
<1>2. UNCHANGED <<tab, refresh>>
  BY RequestMoves
<1>3. \A k \in Requests : request'[k] = IF k = q THEN r ELSE request[k]
  BY <1>1, Parts
<1>4. SingleFlight' /\ Flights' /\ Promised'
  BY <1>2 DEF SingleFlight, Flights, Promised
<1>5. Unused'
  BY <1>1, <1>2, <1>3 DEF Unused
<1>6. Faithful'
  BY <1>1, <1>2, <1>3 DEF Faithful
<1> QED  BY <1>4, <1>5, <1>6

\* What a request looks like that waits for f.
LEMMA WaitsFor ==
  ASSUME TypeOK, NEW q \in Requests, NEW f \in Requests, Waits(q, f)
  PROVE  /\ \A k \in Requests \ {q} : request'[k] = request[k]
         /\ request'[q].pc = "waiting" /\ request'[q].flight = f
         /\ request'[q].tab = request[q].tab
         /\ request'[q].generation = tab[request[q].tab].generation
  BY Parts DEF Waits, Request

\* A request that joins the refresh of its tab.
LEMMA JoinKeeps ==
  ASSUME TabInv, TypeOK', NEW q \in Requests, Join(q)
  PROVE  TabInv'
<1> USE Parts DEF TabInv
<1> DEFINE t == request[q].tab
           f == tab[t].promise
<1>1. UNCHANGED <<tab, refresh>> /\ Waits(q, f)
  BY DEF Join
<1>2. t \in Tabs /\ f # None
  BY DEF Join, MayRefresh, Shares
<1>3. /\ f \in Requests /\ refresh[f].pending /\ refresh[f].tab = t
      /\ refresh[f].generation = tab[t].generation
  BY <1>2 DEF Promised, Tab, Join, Shares
<1>4. SingleFlight' /\ Flights' /\ Promised'
  BY <1>1 DEF SingleFlight, Flights, Promised
<1> HIDE DEF f
<1>5. Unused'
  BY <1>1, <1>3, WaitsFor DEF Unused
<1>6. Faithful'
  BY <1>1, <1>3, WaitsFor DEF Faithful
<1> QED  BY <1>4, <1>5, <1>6

\* A request that begins a refresh: those of its tab under way are of older generations.
LEMMA StartKeeps ==
  ASSUME TabInv, TypeOK', NEW q \in Requests, StartRefresh(q)
  PROVE  TabInv'
<1> USE Parts DEF TabInv
<1> DEFINE t == request[q].tab
<1>1. t \in Tabs /\ Waits(q, q) /\ ~Shares(t) /\ request[q].pc = "refused"
  BY DEF StartRefresh, MayRefresh
<1>2. /\ refresh'[q].pending /\ refresh'[q].tab = t
      /\ refresh'[q].generation = tab[t].generation
      /\ \A k \in Requests \ {q} : refresh'[k] = refresh[k]
  BY DEF StartRefresh
<1>3. /\ tab'[t].promise = q /\ tab'[t].generation = tab[t].generation /\ tab'[t].user = tab[t].user
      /\ \A v \in Tabs \ {t} : tab'[v] = tab[v]
  BY <1>1 DEF StartRefresh, Tab
<1>4. ~refresh[q].pending
  BY <1>1 DEF Unused
<1>5. tab[t].generation \in Nat
  BY <1>1 DEF Tab
<1>6. ASSUME NEW f \in Requests, refresh[f].pending, refresh[f].tab = t
      PROVE  f # q /\ refresh[f].generation # tab[t].generation
  BY <1>1, <1>4, <1>6, Names DEF Flights, Shares
<1>7. SingleFlight'
  BY <1>2, <1>6 DEF SingleFlight
<1>8. Flights'
  <2>1. ASSUME NEW f \in Requests, f # q, refresh[f].pending
        PROVE  /\ refresh[f].tab \in Tabs
               /\ refresh[f].generation <= tab'[refresh[f].tab].generation
               /\ refresh[f].generation = tab'[refresh[f].tab].generation
                  => tab'[refresh[f].tab].promise = f
    <3>1. CASE refresh[f].tab = t
      BY <1>1, <1>3, <1>6, <2>1, <3>1 DEF Flights
    <3>2. CASE refresh[f].tab # t
      BY <1>3, <2>1, <3>2 DEF Flights
    <3> QED  BY <3>1, <3>2
  <2> QED  BY <1>1, <1>2, <1>3, <1>5, <2>1 DEF Flights
<1>9. Promised'
  <2>1. ASSUME NEW v \in Tabs, v # t, tab[v].promise # None
        PROVE  tab[v].promise \in Requests \ {q}
    BY <1>4, <2>1 DEF Promised, Tab
  <2> QED  BY <1>2, <1>3, <2>1 DEF Promised
<1>10. Unused'
  BY <1>1, <1>2, WaitsFor DEF Unused
<1>11. Faithful'
  <2>1. ASSUME NEW k \in Requests, k # q, request[k].pc = "waiting"
        PROVE  /\ request'[k] = request[k] /\ request[k].flight # q
    BY <1>1, <1>4, <2>1, WaitsFor DEF Faithful
  <2> QED  BY <1>1, <1>2, <1>3, <2>1, WaitsFor DEF Faithful
<1> QED  BY <1>7, <1>8, <1>9, <1>10, <1>11

\* A tab that begins a generation, with a user or with nobody.
LEMMA GenerationKeeps ==
  ASSUME TabInv, TypeOK', NEW t \in Tabs, UNCHANGED <<request, refresh>>,
         tab'[t].generation = tab[t].generation + 1, tab'[t].promise = tab[t].promise,
         \A v \in Tabs \ {t} : tab'[v] = tab[v]
  PROVE  TabInv'
<1> USE DEF TabInv
<1>1. tab[t].generation \in Nat
  BY Parts DEF Tab
<1>2. ASSUME NEW f \in Requests, refresh[f].pending, refresh[f].tab = t
      PROVE  refresh[f].generation <= tab[t].generation /\ refresh[f].generation \in Nat
  <2>1. refresh[f] \in Refresh
    BY Parts
  <2> QED  BY <1>2, <2>1 DEF Flights, Refresh
<1>3. SingleFlight' /\ Unused'
  BY DEF SingleFlight, Unused
<1>4. Flights'
  <2>1. ASSUME NEW f \in Requests, refresh[f].pending
        PROVE  /\ refresh[f].tab \in Tabs
               /\ refresh[f].generation <= tab'[refresh[f].tab].generation
               /\ refresh[f].generation = tab'[refresh[f].tab].generation
                  => tab'[refresh[f].tab].promise = f
    <3>1. CASE refresh[f].tab = t
      BY <1>1, <1>2, <2>1, <3>1 DEF Flights
    <3>2. CASE refresh[f].tab # t
      BY <2>1, <3>2 DEF Flights
    <3> QED  BY <3>1, <3>2
  <2> QED  BY <2>1 DEF Flights
<1>5. Promised'
  BY DEF Promised
<1>6. Faithful'
  BY DEF Faithful
<1> QED  BY <1>3, <1>4, <1>5, <1>6

\* What the answer of a refresh does to the requests, the refresh and its tab.
LEMMA Resolved ==
  ASSUME TabInv, NEW f \in Requests, Resolve(f)
  PROVE  LET t == refresh[f].tab
         IN /\ t \in Tabs /\ refresh[f].pending /\ ~refresh'[f].pending
            /\ \A g \in Requests \ {f} : refresh'[g] = refresh[g]
            /\ \A q \in Waiters(f) :
                 \/ request'[q].pc = "sent" /\ request'[q].retried
                    /\ Active(t) /\ refresh[f].generation = tab[t].generation
                 \/ request'[q].pc = "over"
            /\ \A q \in Requests \ Waiters(f) : request'[q] = request[q]
            /\ \A v \in Tabs \ {t} : tab'[v] = tab[v]
            /\ tab'[t].promise = PromiseAfter(f)
            /\ \/ tab'[t].user = tab[t].user /\ tab'[t].generation = tab[t].generation
               \/ tab'[t].generation = tab[t].generation + 1
<1> USE Parts DEF TabInv
<1> DEFINE t == refresh[f].tab
<1>1. t \in Tabs /\ refresh[f].pending
  BY DEF Resolve, Flights
<1>2. ~refresh'[f].pending /\ \A g \in Requests \ {f} : refresh'[g] = refresh[g]
  <2>1. refresh[f] \in Refresh
    OBVIOUS
  <2>2. ~NoRefresh.pending /\ ~[refresh[f] EXCEPT !.pending = FALSE].pending
    BY <2>1 DEF NoRefresh, Refresh
  <2> QED  BY <2>2 DEF Resolve
<1>3. ASSUME NEW q \in Waiters(f)
      PROVE  \/ request'[q].pc = "sent" /\ request'[q].retried
                /\ Active(t) /\ refresh[f].generation = tab[t].generation
             \/ request'[q].pc = "over"
  <2>1. request[q] \in Request /\ q \in Requests
    BY DEF Waiters
  <2> DEFINE r == [request[q] EXCEPT !.pc = "sent", !.retried = TRUE, !.token = AccessToken]
  <2>2. r.pc = "sent" /\ r.retried /\ Over.pc = "over"
    BY <2>1 DEF Request, Over, NewRequest
  <2>3. (request'[q] = r /\ Current(f)) \/ request'[q] = Over
    BY <2>1 DEF Resolve
  <2> HIDE DEF r
  <2> QED  BY <2>2, <2>3 DEF Current
<1>4. \A q \in Requests \ Waiters(f) : request'[q] = request[q]
  BY DEF Resolve
<1>5. \A v \in Tabs \ {t} : tab'[v] = tab[v]
  BY DEF Resolve
<1>6. /\ tab'[t].promise = PromiseAfter(f)
      /\ \/ tab'[t].user = tab[t].user /\ tab'[t].generation = tab[t].generation
         \/ tab'[t].generation = tab[t].generation + 1
  <2>1. tab[t] \in Tab
    BY <1>1
  <2>2. \/ tab'[t] = [user |-> None, generation |-> tab[t].generation + 1,
                      promise |-> PromiseAfter(f)]
        \/ tab'[t] = [tab[t] EXCEPT !.promise = PromiseAfter(f)]
    BY <1>1 DEF Resolve
  <2> QED  BY <2>1, <2>2 DEF Tab
<1> QED  BY <1>1, <1>2, <1>3, <1>4, <1>5, <1>6

\* The answer of a refresh: the tab's promise is kept for the refresh that owns it.
LEMMA ResolveKeeps ==
  ASSUME TabInv, TypeOK', NEW f \in Requests, Resolve(f)
  PROVE  TabInv'
<1> USE DEF TabInv
<1> DEFINE t == refresh[f].tab
<1>1. /\ t \in Tabs /\ refresh[f].pending /\ ~refresh'[f].pending
      /\ \A g \in Requests \ {f} : refresh'[g] = refresh[g]
      /\ \A q \in Waiters(f) : \/ request'[q].pc = "sent" /\ request'[q].retried
                               \/ request'[q].pc = "over"
      /\ \A q \in Requests \ Waiters(f) : request'[q] = request[q]
      /\ \A v \in Tabs \ {t} : tab'[v] = tab[v]
      /\ tab'[t].promise = PromiseAfter(f)
      /\ \/ tab'[t].user = tab[t].user /\ tab'[t].generation = tab[t].generation
         \/ tab'[t].generation = tab[t].generation + 1
  BY Resolved
<1>2. tab[t].generation \in Nat
  BY <1>1, Parts DEF Tab
<1>3. ASSUME NEW g \in Requests, g # f, refresh[g].pending, refresh[g].tab = t
      PROVE  /\ refresh[g].generation <= tab[t].generation /\ refresh[g].generation \in Nat
             /\ refresh[g].generation = tab[t].generation => tab'[t].promise = g
  <2>1. refresh[g] \in Refresh
    BY Parts
  <2> QED  BY <1>1, <1>3, <2>1 DEF Flights, Refresh, PromiseAfter
<1>4. SingleFlight'
  BY <1>1 DEF SingleFlight
<1>5. Flights'
  <2>1. ASSUME NEW g \in Requests, g # f, refresh[g].pending
        PROVE  /\ refresh[g].tab \in Tabs
               /\ refresh[g].generation <= tab'[refresh[g].tab].generation
               /\ refresh[g].generation = tab'[refresh[g].tab].generation
                  => tab'[refresh[g].tab].promise = g
    <3>1. CASE refresh[g].tab = t
      BY <1>1, <1>2, <1>3, <2>1, <3>1
    <3>2. CASE refresh[g].tab # t
      BY <1>1, <2>1, <3>2 DEF Flights
    <3> QED  BY <3>1, <3>2
  <2> QED  BY <1>1, <2>1 DEF Flights
<1>6. Promised'
  <2>1. ASSUME NEW v \in Tabs, tab'[v].promise # None
        PROVE  /\ tab'[v].promise = tab[v].promise
               /\ tab[v].promise \in Requests \ {f}
    <3>1. CASE v = t
      BY <1>1, <2>1, <3>1, Parts DEF PromiseAfter, Tab
    <3>2. CASE v # t
      BY <1>1, <2>1, <3>2, Parts DEF Promised, Tab
    <3> QED  BY <3>1, <3>2
  <2> QED  BY <1>1, <2>1 DEF Promised
<1>7. Unused'
  <2>1. \A q \in Waiters(f) : request'[q].pc # "new" /\ request'[q].pc # "refused"
                              /\ ~(request'[q].pc = "sent" /\ ~request'[q].retried)
    BY <1>1
  <2>2. \A q \in Requests : refresh'[q].pending => refresh[q].pending
    BY <1>1
  <2> QED  BY <1>1, <2>1, <2>2 DEF Unused
<1>8. Faithful'
  <2>1. ASSUME NEW q \in Requests, request'[q].pc = "waiting"
        PROVE  request'[q] = request[q] /\ request[q].flight \in Requests \ {f}
    BY <1>1, <2>1 DEF Waiters, Faithful
  <2> QED  BY <1>1, <2>1 DEF Faithful
<1> QED  BY <1>4, <1>5, <1>6, <1>7, <1>8

LEMMA StepTab == TabInv /\ [Next]_vars => TabInv'
<1> SUFFICES ASSUME TabInv, [Next]_vars PROVE TabInv'
  OBVIOUS
<1>1. TypeOK /\ TypeOK'
  BY StepTyped DEF TabInv
<1>2. ASSUME NEW t \in Tabs, BeginLogout(t)
      PROVE  TabInv'
  BY <1>1, <1>2, Parts, GenerationKeeps DEF BeginLogout, Tab
<1>3. ASSUME NEW a \in SignIns, ShowUser(a)
      PROVE  TabInv'
  <2>1. CASE signIn[a].tab \in Tabs
    BY <1>1, <1>3, <2>1, Parts, GenerationKeeps DEF ShowUser, Tab
  <2>2. CASE signIn[a].tab \notin Tabs
    <3>1. UNCHANGED <<tab, request, refresh>>
      BY <1>1, <1>3, <2>2, Parts DEF ShowUser
    <3> QED  BY <1>1, <3>1, UnseenKeeps DEF SameFlight
  <2> QED  BY <2>1, <2>2
<1>4. CASE UNCHANGED vars
  BY <1>1, <1>4, UnseenKeeps DEF SameFlight, vars
<1>5. CASE Next
  BY <1>1, <1>2, <1>3, <1>5, Unseen, UnseenKeeps, RequestKeeps, JoinKeeps, StartKeeps, ResolveKeeps
     DEF Handle
<1> QED  BY <1>4, <1>5

\* Refreshes of a tab are shared: one is under way for each generation.
THEOREM OneFlight == Spec => []SingleFlight
<1>1. TabInv => SingleFlight
  BY DEF TabInv
<1> QED  BY <1>1, InitTab, StepTab, PTL DEF Spec

\* Every request that waits will be told: its refresh is under way.
THEOREM EveryWaiterServed == Spec => []NobodyStranded
<1>1. TabInv => NobodyStranded
  BY DEF TabInv, Faithful, NobodyStranded
<1> QED  BY <1>1, InitTab, StepTab, PTL DEF Spec

\* A request is repeated only while its tab is in the session in which it was refused:
\* not after that session's end in the tab, and not in the next one.
THEOREM NoRetryAcrossSessions == Spec => RetriedInItsSession
<1> DEFINE Own == \A q \in Requests :
       request[q].pc = "waiting" /\ request'[q].pc = "sent" =>
         LET t == request[q].tab
         IN tab[t].user # None /\ request[q].generation = tab[t].generation
<1>1. TabInv /\ [Next]_vars => [Own]_vars
  <2> SUFFICES ASSUME TabInv, Next, NEW q \in Requests,
                      request[q].pc = "waiting", request'[q].pc = "sent"
               PROVE  /\ tab[request[q].tab].user # None
                      /\ request[q].generation = tab[request[q].tab].generation
    BY DEF vars
  <2>1. TypeOK
    BY DEF TabInv
  <2>2. ~(UNCHANGED request) /\ request' # request
    OBVIOUS
  <2>3. ASSUME NEW f \in Requests, Resolve(f)
        PROVE  /\ tab[request[q].tab].user # None
               /\ request[q].generation = tab[request[q].tab].generation
    <3>1. /\ q \in Waiters(f) /\ Active(refresh[f].tab)
          /\ refresh[f].generation = tab[refresh[f].tab].generation
      BY <2>3, Resolved
    <3> QED  BY <3>1 DEF TabInv, Faithful, Waiters, Active
  <2>4. ASSUME NEW k \in Requests,
               \/ \E t \in Tabs : Send(k, t)
               \/ Serve(k) \/ Cancel(k) \/ Handle(k)
        PROVE  FALSE
    <3>1. CASE GiveUp(k) \/ Serve(k) \/ Cancel(k) \/ \E t \in Tabs : Send(k, t)
      <4>1. PICK r \in Request : /\ request' = [request EXCEPT ![k] = r]
                                 /\ r.pc = "sent" => request[k].pc = "new"
        BY <2>1, <3>1, RequestMoves
      <4> QED  BY <2>1, <4>1, Parts
    <3>2. CASE Join(k) \/ StartRefresh(k)
      BY <2>1, <3>2, Parts DEF Join, StartRefresh, Waits, MayRefresh, Request
    <3> QED  BY <2>4, <3>1, <3>2 DEF Handle
  <2>5. ASSUME (\E t \in Tabs : BeginLogout(t)) \/ \E a \in SignIns : ShowUser(a)
        PROVE  FALSE
    BY <2>2, <2>5 DEF BeginLogout, ShowUser
  <2> QED  BY <2>1, <2>2, <2>3, <2>4, <2>5, Unseen
<1> QED  BY <1>1, InitTab, StepTab, PTL DEF Spec, RetriedInItsSession

-----------------------------------------------------------------------------
(* Rotation                                                                *)

\* A live session belongs to a sign-in that has been granted.
Owned ==
  \A i \in Sessions : session[i].state = "live" =>
    /\ session[i].login \in SignIns
    /\ signIn[session[i].login].pc \in {"granted", "stored", "done"}

SessionInv == TypeOK /\ OneSessionPerSignIn /\ Owned

\* Whatever a sign-in does, once granted it stays so.
Granted(a) == signIn[a].pc \in {"granted", "stored", "done"}

LEMMA StepSessions == SessionInv /\ [Next]_vars => SessionInv'
<1> SUFFICES ASSUME SessionInv, [Next]_vars PROVE SessionInv'
  OBVIOUS
<1> USE DEF SessionInv
<1>1. TypeOK'
  BY StepTyped
<1>2. session \in [Sessions -> Session] /\ signIn \in [SignIns -> SignIn]
  BY DEF TypeOK
<1>3. ASSUME \A i \in Sessions : session'[i].state = "live" => session'[i] = session[i],
             \A a \in SignIns : Granted(a) => Granted(a)'
      PROVE  SessionInv'
  BY <1>1, <1>3 DEF OneSessionPerSignIn, Owned, Granted
<1>4. ASSUME NEW f \in Requests, RefreshRotate(f), Rotates(f)
      PROVE  SessionInv'
  <2> DEFINE old == refresh[f].sent
  <2>1. old \in Sessions /\ f \in Sessions /\ session[old].state = "live"
    BY <1>4, Names, Parts DEF Rotates, Live, Refresh
  <2>2. /\ session' = [session EXCEPT ![old] = Ended(old, refresh[f].tab),
                                      ![f] = LiveSession(session[old].login)]
        /\ UNCHANGED signIn
    BY <1>4 DEF RefreshRotate
  <2>3. \A i \in Sessions : session'[i].state = "live" =>
          \/ i = f /\ session'[i].login = session[old].login
          \/ i # f /\ i # old /\ session'[i] = session[i]
    <3>1. Ended(old, refresh[f].tab).state # "live"
      BY <1>2, <2>1 DEF Ended, Session
    <3>2. LiveSession(session[old].login).login = session[old].login
      BY DEF LiveSession
    <3> QED  BY <1>2, <2>1, <2>2, <3>1, <3>2
  <2> HIDE DEF old
  <2>4. \A i \in Sessions : session[i].state = "live" /\ session[i].login = session[old].login
                           => i = old
    BY <2>1 DEF OneSessionPerSignIn
  <2>5. OneSessionPerSignIn'
    BY <2>3, <2>4 DEF OneSessionPerSignIn
  <2>6. Owned'
    BY <2>1, <2>2, <2>3 DEF Owned
  <2> QED  BY <1>1, <2>5, <2>6
<1>5. ASSUME NEW a \in SignIns, OpenSession(a)
      PROVE  SessionInv'
  <2>1. a \in Sessions /\ ~Granted(a)
    BY <1>5, Names DEF OpenSession, Granted
  <2>2. \A i \in Sessions : session'[i].state = "live" =>
          \/ i = a /\ session'[i].login = a
          \/ i # a /\ session'[i] = session[i]
    BY <1>2, <1>5, <2>1 DEF OpenSession, LiveSession
  <2>3. \A i \in Sessions : session[i].state = "live" => session[i].login # a
    BY <2>1 DEF Owned, Granted
  <2>4. Granted(a)' /\ \A b \in SignIns : Granted(b) => Granted(b)'
    BY <1>2, <1>5 DEF OpenSession, Granted, SignIn
  <2> QED  BY <1>1, <2>1, <2>2, <2>3, <2>4 DEF OneSessionPerSignIn, Owned, Granted
<1>6. ASSUME NEW i \in Sessions, NEW by, session' = [session EXCEPT ![i] = Ended(i, by)]
      PROVE  \A k \in Sessions : session'[k].state = "live" => session'[k] = session[k]
  BY <1>2, <1>6 DEF Ended, Session
<1>7. ASSUME NEW t \in Tabs, Leave(t)
      PROVE  SessionInv'
  <2>1. leaving[t].sent \in Sessions \/ ~Live(leaving[t].sent)
    BY DEF TypeOK, Leaving, Live
  <2>2. \/ UNCHANGED session
        \/ /\ leaving[t].sent \in Sessions
           /\ session' = [session EXCEPT ![leaving[t].sent] = Ended(leaving[t].sent, t)]
    <3>1. EndSession(t) \/ UNCHANGED session
      BY <1>7 DEF Leave, BeginLogout, SendLogout, LogoutStored
    <3> QED  BY <2>1, <3>1 DEF EndSession
  <2>3. UNCHANGED signIn
    BY <1>7 DEF Leave, BeginLogout, SendLogout, EndSession, LogoutStored
  <2> QED  BY <1>3, <1>6, <2>2, <2>3 DEF Granted
<1>8. ASSUME NEW i \in Sessions, RevokeElsewhere(i)
      PROVE  SessionInv'
  BY <1>3, <1>6, <1>8 DEF RevokeElsewhere, Granted
<1>9. ASSUME UNCHANGED session,
             \/ UNCHANGED signIn
             \/ \E a \in SignIns : \/ SignInStored(a) \/ ShowUser(a)
                                   \/ \E t \in Tabs : BeginSignIn(a, t)
      PROVE  SessionInv'
  <2>1. \A a \in SignIns : Granted(a) => Granted(a)'
    <3>1. ASSUME NEW a \in SignIns, SignInStored(a) \/ ShowUser(a)
          PROVE  \A b \in SignIns : Granted(b) => Granted(b)'
      BY <1>2, <3>1 DEF SignInStored, ShowUser, Granted, SignIn
    <3>2. ASSUME NEW a \in SignIns, NEW t \in Tabs, BeginSignIn(a, t)
          PROVE  \A b \in SignIns : Granted(b) => Granted(b)'
      BY <1>2, <3>2 DEF BeginSignIn, Granted, SignIn
    <3>3. CASE UNCHANGED signIn
      BY <3>3 DEF Granted
    <3> QED  BY <1>9, <3>1, <3>2, <3>3
  <2> QED  BY <1>3, <1>9, <2>1
<1>10. ASSUME NEW q \in Requests,
              \/ \E t \in Tabs : Send(q, t)
              \/ Serve(q) \/ Cancel(q) \/ Handle(q) \/ RefreshLost(q)
              \/ RefreshRead(q) \/ RefreshStored(q) \/ Resolve(q)
              \/ RefreshRotate(q) /\ ~Rotates(q)
       PROVE  UNCHANGED <<session, signIn>>
  BY <1>10 DEF Send, Serve, Cancel, Handle, GiveUp, Join, StartRefresh, RefreshLost, RefreshRead,
               RefreshStored, Resolve, RefreshRotate
<1>11. ASSUME \/ \E a \in SignIns : \/ SignInStored(a) \/ ShowUser(a)
                                    \/ \E t \in Tabs : BeginSignIn(a, t)
              \/ Expire
       PROVE  UNCHANGED session /\ (Expire => UNCHANGED signIn)
  BY <1>11 DEF SignInStored, ShowUser, BeginSignIn, Expire
<1>12. CASE Next
  BY <1>4, <1>5, <1>7, <1>8, <1>9, <1>10, <1>11, <1>12 DEF Next, Travel, Enter
<1>13. CASE UNCHANGED vars
  BY <1>9, <1>13 DEF vars
<1> QED  BY <1>12, <1>13

\* Rotation leaves at most one live session of every sign-in.
THEOREM RotationExclusive == Spec => []OneSessionPerSignIn
<1>1. Init => SessionInv
  <2> SUFFICES ASSUME Init PROVE SessionInv
    OBVIOUS
  <2>1. PICK a \in SignIns :
          /\ session = [i \in Sessions |-> IF i = a THEN LiveSession(a) ELSE NoSession]
          /\ signIn = [b \in SignIns |-> [pc |-> IF b = a THEN "done" ELSE "new", tab |-> None]]
    BY DEF Init
  <2>2. /\ \A i \in Sessions : session[i].state = "live" => i = a /\ session[i].login = a
        /\ signIn[a].pc = "done"
    BY <2>1, Names DEF LiveSession, NoSession
  <2> QED  BY <2>2, InitTyped DEF SessionInv, OneSessionPerSignIn, Owned
<1>2. SessionInv => OneSessionPerSignIn
  BY DEF SessionInv
<1> QED  BY <1>1, <1>2, StepSessions, PTL DEF Spec
-----------------------------------------------------------------------------
(* A tab and the session it refreshes                                      *)

\* The browser has yet to store the cookies of session i.
Coming(i) ==
  \/ i \in SignIns /\ signIn[i].pc \in {"new", "sent", "granted"}
  \/ i \in Requests /\ \/ request[i].pc \in {"new", "refused"}
                       \/ request[i].pc = "sent" /\ ~request[i].retried
                       \/ refresh[i].pending /\ refresh[i].answer \in {"none", "granted"}

\* Until its cookies are stored, no tab refreshes, leaves or ends a session.
Past ==
  \A i \in Sessions : Coming(i) =>
    /\ session[i].by \notin Tabs /\ jar.session # i
    /\ \A f \in Requests : refresh[f].sent # i
    /\ \A t \in Tabs : leaving[t].sent # i

\* The server has not finished with refresh f of tab t.
Served(f, t) == refresh[f].server # "over" /\ refresh[f].tab = t

\* Refresh f is under way, and tab t is still signed in as the user it was begun for.
Ours(f, t) ==
  /\ refresh[f].pending /\ refresh[f].tab = t
  /\ Active(t) /\ refresh[f].generation = tab[t].generation

\* Tab t has asked the server to end session i.
Parting(i, t) == leaving[t].pc = "sent" /\ leaving[t].sent = i

\* A refresh that the server has not finished with has no answer.
Unanswered ==
  \A f \in Requests : refresh[f].server # "over" =>
    refresh[f].tab \in Tabs /\ refresh[f].answer \in {"none", "lost"}

\* A tab in which one user signs in has nobody signed in and begins no logout.
Entering(a) == signIn[a].pc \in {"sent", "granted", "stored"}
Doors ==
  /\ \A t \in Tabs : leaving[t].pc = "begun" => ~Active(t)
  /\ \A a \in SignIns : Entering(a) =>
       /\ signIn[a].tab \in Tabs /\ ~Active(signIn[a].tab)
       /\ leaving[signIn[a].tab].pc # "begun"
       /\ \A b \in SignIns : Entering(b) /\ signIn[b].tab = signIn[a].tab => b = a

\* What a tab with a user finds in the jar is no session that the tab has ended
\* or is about to end, except by the refresh that is under way for this user.
Present(t) ==
  Active(t) /\ jar.session # None =>
    /\ ~Parting(jar.session, t)
    /\ session[jar.session].by = t =>
         \E f \in Requests : Ours(f, t) /\ refresh[f].answer \in {"granted", "lost"}
    /\ \A f \in Requests : Served(f, t) /\ refresh[f].sent = jar.session => Ours(f, t)

\* Nor is what the next user of a tab finds there when the cookies of the sign-in are stored.
Arriving(a) ==
  LET t == signIn[a].tab
  IN signIn[a].pc = "stored" /\ jar.session # None =>
       /\ ~Parting(jar.session, t)
       /\ session[jar.session].by # t
       /\ \A f \in Requests : Served(f, t) => refresh[f].sent # jar.session

\* Only the refresh itself ends the session that a tab refreshes for its user.
Sole(f, t) ==
  Ours(f, t) /\ refresh[f].sent # None =>
    /\ ~Parting(refresh[f].sent, t)
    /\ session[refresh[f].sent].by = t =>
         refresh[f].server = "over" /\ refresh[f].answer \in {"granted", "stored", "lost"}
    /\ \A g \in Requests : Served(g, t) /\ refresh[g].sent = refresh[f].sent => g = f

Alone ==
  /\ Unanswered /\ Doors
  /\ \A t \in Tabs : Present(t)
  /\ \A a \in SignIns : Arriving(a)
  /\ \A f \in Requests, t \in Tabs : Sole(f, t)

CookieInv == TabInv /\ Past /\ Alone

\* The types that the steps below look at.
LEMMA Shapes ==
  ASSUME TypeOK
  PROVE  /\ session \in [Sessions -> Session] /\ signIn \in [SignIns -> SignIn]
         /\ leaving \in [Tabs -> Leaving] /\ jar \in Jar
         /\ refresh \in [Requests -> Refresh] /\ tab \in [Tabs -> Tab]
         /\ request \in [Requests -> Request]
         /\ None \notin Tabs /\ Elsewhere \notin Tabs
         /\ Requests \subseteq Sessions /\ SignIns \subseteq Sessions
         /\ Requests \cap SignIns = {} /\ None \notin Sessions
  BY SessionClientAssumption, Names DEF TypeOK, None, Elsewhere

\* Cookies are stored once: nothing that has been stored is yet to come.
LEMMA ComingShrinks ==
  ASSUME TabInv, TypeOK', Next
  PROVE  \A i \in Sessions : Coming(i)' => Coming(i)
<1> USE Shapes DEF TabInv
<1>1. ASSUME NEW a \in SignIns, signIn'[a].pc \in {"new", "sent", "granted"}
      PROVE  signIn[a].pc \in {"new", "sent", "granted"}
  <2>1. CASE UNCHANGED signIn
    BY <1>1, <2>1
  <2>2. ASSUME NEW b \in SignIns, Enter(b) \/ \E t \in Tabs : BeginSignIn(b, t)
        PROVE  signIn[a].pc \in {"new", "sent", "granted"}
    BY <1>1, <2>2 DEF Enter, OpenSession, SignInStored, ShowUser, BeginSignIn, SignIn
  <2>3. ASSUME NEW q \in Requests,
               \/ \E t \in Tabs : Send(q, t)
               \/ Serve(q) \/ Cancel(q) \/ Handle(q) \/ Travel(q) \/ RefreshLost(q)
        PROVE  UNCHANGED signIn
    BY <2>3 DEF Send, Serve, Cancel, Handle, GiveUp, Join, StartRefresh, Travel, RefreshLost,
                RefreshRead, RefreshStored, Resolve, RefreshRotate
  <2>4. ASSUME \/ \E t \in Tabs : Leave(t)
               \/ \E i \in Sessions : RevokeElsewhere(i)
               \/ Expire
        PROVE  UNCHANGED signIn
    BY <2>4 DEF Leave, BeginLogout, SendLogout, EndSession, LogoutStored, RevokeElsewhere, Expire
  <2> QED  BY <2>1, <2>2, <2>3, <2>4 DEF Next
<1> DEFINE Idle(q) == \/ request[q].pc \in {"new", "refused"}
                      \/ request[q].pc = "sent" /\ ~request[q].retried
           Awaits(q) == refresh[q].pending /\ refresh[q].answer \in {"none", "granted"}
<1>2. ASSUME NEW q \in Requests, (Idle(q) \/ Awaits(q))'
      PROVE  Idle(q) \/ Awaits(q)
  <2>1. CASE UNCHANGED <<request, refresh>>
    BY <1>2, <2>1
  <2>2. ASSUME NEW p \in Requests,
               \/ \E t \in Tabs : Send(p, t)
               \/ Serve(p) \/ Cancel(p) \/ GiveUp(p)
        PROVE  Idle(q) \/ Awaits(q)
    <3>1. PICK r \in Request :
            /\ request' = [request EXCEPT ![p] = r]
            /\ r.pc \in {"sent", "refused", "over"}
            /\ r.pc = "sent" => request[p].pc = "new"
            /\ r.pc = "refused" => request[p].pc = "sent" /\ ~request[p].retried
      BY <2>2, RequestMoves
    <3>2. UNCHANGED refresh
      BY <2>2, RequestMoves
    <3>3. request'[q] = IF q = p THEN r ELSE request[q]
      BY <3>1
    <3>4. Idle(q)' => Idle(q)
      <4>1. CASE q = p
        BY <3>1, <3>3, <4>1
      <4>2. CASE q # p
        BY <3>3, <4>2
      <4> QED  BY <4>1, <4>2
    <3> QED  BY <1>2, <3>2, <3>4
  <2>3. ASSUME NEW p \in Requests, Join(p) \/ StartRefresh(p)
        PROVE  Idle(q) \/ Awaits(q)
    <3>1. PICK f \in Requests \cup {None} : Waits(p, f)
      BY <2>3 DEF Join, StartRefresh, Tab, MayRefresh, WellPlaced, TypeOK
    <3>2. request[p].pc = "refused"
      BY <2>3 DEF Join, StartRefresh, MayRefresh
    <3>3. p # q => request'[q] = request[q]
      BY <3>1 DEF Waits
    <3>4. p # q => refresh'[q] = refresh[q]
      BY <2>3 DEF Join, StartRefresh
    <3> QED  BY <1>2, <3>2, <3>3, <3>4
  <2>4. ASSUME NEW f \in Requests,
               RefreshRead(f) \/ RefreshRotate(f) \/ RefreshStored(f) \/ RefreshLost(f)
        PROVE  Idle(q) \/ Awaits(q)
    <3>1. UNCHANGED request /\ SameFlight(q)
      BY <2>4, Unseen DEF RefreshRead, RefreshRotate, RefreshStored, RefreshLost, SameFlight, Refresh
    <3>2. refresh'[q].answer \in {"none", "granted"} => refresh[q].answer \in {"none", "granted"}
      <4>1. refresh[q] \in Refresh
        OBVIOUS
      <4> QED  BY <2>4, <4>1 DEF RefreshRead, RefreshRotate, RefreshStored, RefreshLost, Answered, Refresh
    <3> QED  BY <1>2, <3>1, <3>2 DEF SameFlight
  <2>5. ASSUME NEW f \in Requests, Resolve(f)
        PROVE  Idle(q) \/ Awaits(q)
    <3>1. Idle(q)' => Idle(q)
      BY <2>5 DEF Resolve, Over, NewRequest, Request
    <3>2. Awaits(q)' => Awaits(q)
      BY <2>5 DEF Resolve, NoRefresh, Refresh
    <3> QED  BY <1>2, <3>1, <3>2
  <2>6. ASSUME \/ \E t \in Tabs : Leave(t) \/ \E a \in SignIns : BeginSignIn(a, t)
               \/ \E a \in SignIns : Enter(a)
               \/ \E i \in Sessions : RevokeElsewhere(i)
               \/ Expire
        PROVE  UNCHANGED <<request, refresh>>
    BY <2>6 DEF Leave, BeginLogout, SendLogout, EndSession, LogoutStored, BeginSignIn, Enter,
                OpenSession, SignInStored, ShowUser, RevokeElsewhere, Expire
  <2> HIDE DEF Idle, Awaits
  <2> QED  BY <2>1, <2>2, <2>3, <2>4, <2>5, <2>6 DEF Next, Handle, Travel
<1> QED  BY <1>1, <1>2 DEF Coming, Sessions

\* What is stored was yet to come, and has come.
LEMMA Stores ==
  ASSUME TabInv, TypeOK', Next, jar'.session \notin {jar.session, None}
  PROVE  /\ \E i \in Sessions : jar'.session = i /\ Coming(i) /\ ~Coming(i)'
         /\ UNCHANGED <<session, tab, request, leaving>>
         /\ \/ /\ UNCHANGED signIn
               /\ \E f \in Requests :
                    /\ refresh[f].pending /\ refresh[f].answer = "granted"
                    /\ refresh' = [refresh EXCEPT ![f].answer = "stored"]
            \/ /\ UNCHANGED refresh
               /\ \E a \in SignIns :
                    /\ signIn[a].pc = "granted" /\ jar'.session = a
                    /\ signIn' = [signIn EXCEPT ![a].pc = "stored"]
<1> USE Shapes DEF TabInv
<1>1. ASSUME NEW q \in Requests,
             \/ \E t \in Tabs : Send(q, t)
             \/ Serve(q) \/ Cancel(q) \/ Handle(q) \/ RefreshRead(q) \/ RefreshRotate(q)
             \/ Resolve(q) \/ RefreshLost(q)
      PROVE  FALSE
  BY <1>1 DEF Send, Serve, Cancel, Handle, GiveUp, Join, StartRefresh, RefreshRead,
              RefreshRotate, Resolve, RefreshLost
<1>2. ASSUME \/ \E t \in Tabs : \/ BeginLogout(t) \/ SendLogout(t) \/ EndSession(t)
                                \/ \E a \in SignIns : BeginSignIn(a, t)
             \/ \E a \in SignIns : OpenSession(a) \/ ShowUser(a)
             \/ \E i \in Sessions : RevokeElsewhere(i)
      PROVE  FALSE
  <2>1. UNCHANGED jar
    BY <1>2 DEF BeginLogout, SendLogout, EndSession, BeginSignIn, OpenSession, ShowUser, RevokeElsewhere
  <2> QED  BY <2>1
<1>6. ASSUME NEW t \in Tabs, LogoutStored(t)
      PROVE  FALSE
  BY <1>6 DEF LogoutStored
<1>5. CASE Expire
  <2>1. jar' = [jar EXCEPT !.fresh = FALSE]
    BY <1>5 DEF Expire
  <2> QED  BY <2>1 DEF Jar
<1>3. CASE \E f \in Requests : RefreshStored(f)
  <2>1. PICK f \in Requests : RefreshStored(f)
    BY <1>3
  <2>2. /\ jar'.session = f /\ UNCHANGED <<session, tab, request, leaving, signIn>>
        /\ refresh[f].pending /\ refresh[f].answer = "granted"
        /\ refresh' = [refresh EXCEPT ![f].answer = "stored"]
    BY <2>1 DEF RefreshStored
  <2>3. refresh'[f].answer = "stored"
    BY <2>2 DEF Refresh
  <2>4. Coming(f) /\ f \notin SignIns
    BY <2>2 DEF Coming
  <2>5. ~Coming(f)'
    BY <2>2, <2>3, <2>4 DEF Coming, Unused
  <2>6. f \in Sessions /\ jar'.session = f
    BY <2>2
  <2> QED  BY <2>2, <2>4, <2>5, <2>6
<1>4. CASE \E a \in SignIns : SignInStored(a)
  <2>1. PICK a \in SignIns : SignInStored(a)
    BY <1>4
  <2>2. /\ jar'.session = a /\ UNCHANGED <<session, tab, request, leaving, refresh>>
        /\ signIn[a].pc = "granted"
        /\ signIn' = [signIn EXCEPT ![a].pc = "stored"]
    BY <2>1 DEF SignInStored
  <2>3. signIn'[a].pc = "stored"
    BY <2>2 DEF SignIn
  <2>4. a \in Sessions /\ Coming(a)
    BY <2>2 DEF Coming
  <2>5. ~Coming(a)'
    BY <2>3 DEF Coming
  <2> QED  BY <2>2, <2>4, <2>5
<1> QED  BY <1>1, <1>2, <1>3, <1>4, <1>5, <1>6 DEF Next, Travel, Leave, Enter

\* A session is opened by nobody, and ended by a tab that had its cookies.
LEMMA Ends ==
  ASSUME TabInv, Past, TypeOK', Next, NEW i \in Sessions, session'[i].by # session[i].by
  PROVE  session'[i].by \notin Tabs \/ ~Coming(i)
<1> USE Shapes DEF TabInv
<1>1. CASE \E f \in Requests : RefreshRotate(f)
  <2>1. PICK f \in Requests : RefreshRotate(f)
    BY <1>1
  <2>2. CASE ~Rotates(f)
    BY <2>1, <2>2 DEF RefreshRotate
  <2>3. CASE Rotates(f)
    <3> DEFINE old == refresh[f].sent
    <3>1. i = old => ~Coming(i)
      BY DEF Past
    <3>2. session' = [session EXCEPT ![old] = Ended(old, refresh[f].tab),
                                     ![f] = LiveSession(session[old].login)]
      BY <2>1, <2>3 DEF RefreshRotate
    <3>3. LiveSession(session[old].login).by = None
      BY DEF LiveSession
    <3> HIDE DEF old
    <3>4. i = f => session'[i].by = None
      BY <3>2, <3>3
    <3>5. i # f /\ i # old => session'[i] = session[i]
      BY <3>2
    <3> QED  BY <3>1, <3>4, <3>5
  <2> QED  BY <2>2, <2>3
<1>2. CASE \E t \in Tabs : EndSession(t)
  <2>1. PICK t \in Tabs : EndSession(t)
    BY <1>2
  <2>2. leaving[t].sent # i => session'[i] = session[i]
    BY <2>1 DEF EndSession
  <2> QED  BY <2>2 DEF Past
<1>3. CASE \E a \in SignIns : OpenSession(a)
  BY <1>3 DEF OpenSession, LiveSession
<1>4. CASE \E k \in Sessions : RevokeElsewhere(k)
  BY <1>4 DEF RevokeElsewhere, Ended, Session
<1>5. ASSUME NEW q \in Requests,
             \/ \E t \in Tabs : Send(q, t)
             \/ Serve(q) \/ Cancel(q) \/ Handle(q) \/ RefreshRead(q) \/ RefreshStored(q)
             \/ Resolve(q) \/ RefreshLost(q)
      PROVE  FALSE
  BY <1>5 DEF Send, Serve, Cancel, Handle, GiveUp, Join, StartRefresh, RefreshRead,
              RefreshStored, Resolve, RefreshLost
<1>6. ASSUME \/ \E t \in Tabs : \/ BeginLogout(t) \/ SendLogout(t) \/ LogoutStored(t)
                                \/ \E a \in SignIns : BeginSignIn(a, t)
             \/ \E a \in SignIns : SignInStored(a) \/ ShowUser(a)
             \/ Expire
      PROVE  FALSE
  BY <1>6 DEF BeginLogout, SendLogout, LogoutStored, BeginSignIn, SignInStored, ShowUser, Expire
<1> QED  BY <1>1, <1>2, <1>3, <1>4, <1>5, <1>6 DEF Next, Travel, Leave, Enter

\* A refresh or a logout takes its session from the jar.
LEMMA Takes ==
  ASSUME TypeOK, Next
  PROVE  /\ \A f \in Requests : refresh'[f].sent \in {refresh[f].sent, jar.session, None}
         /\ \A t \in Tabs : leaving'[t].sent \in {leaving[t].sent, jar.session, None}
<1> USE Shapes
<1>1. ASSUME NEW f \in Requests PROVE refresh'[f].sent \in {refresh[f].sent, jar.session, None}
  <2>0. refresh[f] \in Refresh
    OBVIOUS
  <2>1. ASSUME NEW q \in Requests, StartRefresh(q)
        PROVE  refresh'[f].sent \in {refresh[f].sent, jar.session}
    BY <2>1 DEF StartRefresh
  <2>2. ASSUME NEW q \in Requests,
               \/ RefreshRead(q) \/ RefreshRotate(q) \/ RefreshStored(q) \/ RefreshLost(q)
        PROVE  refresh'[f].sent = refresh[f].sent
    BY <2>0, <2>2 DEF RefreshRead, RefreshRotate, RefreshStored, RefreshLost, Refresh
  <2>5. ASSUME NEW q \in Requests, Resolve(q)
        PROVE  refresh'[f].sent \in {refresh[f].sent, None}
    BY <2>0, <2>5 DEF Resolve, NoRefresh, Refresh
  <2>3. ASSUME NEW q \in Requests,
               \/ \E t \in Tabs : Send(q, t)
               \/ Serve(q) \/ Cancel(q) \/ GiveUp(q) \/ Join(q)
        PROVE  UNCHANGED refresh
    BY <2>3 DEF Send, Serve, Cancel, GiveUp, Join
  <2>4. ASSUME \/ \E t \in Tabs : Leave(t) \/ \E a \in SignIns : BeginSignIn(a, t)
               \/ \E a \in SignIns : Enter(a)
               \/ \E i \in Sessions : RevokeElsewhere(i)
               \/ Expire
        PROVE  UNCHANGED refresh
    BY <2>4 DEF Leave, BeginLogout, SendLogout, EndSession, LogoutStored, BeginSignIn, Enter,
                OpenSession, SignInStored, ShowUser, RevokeElsewhere, Expire
  <2> QED  BY <2>1, <2>2, <2>3, <2>4, <2>5 DEF Next, Handle, Travel
<1>2. ASSUME NEW t \in Tabs PROVE leaving'[t].sent \in {leaving[t].sent, jar.session, None}
  <2>0. leaving[t] \in Leaving
    OBVIOUS
  <2>1. ASSUME NEW v \in Tabs, Leave(v)
        PROVE  leaving'[t].sent \in {leaving[t].sent, jar.session, None}
    BY <2>0, <2>1 DEF Leave, BeginLogout, SendLogout, EndSession, LogoutStored, NoLogout, Leaving
  <2>2. ASSUME NEW q \in Requests,
               \/ \E v \in Tabs : Send(q, v)
               \/ Serve(q) \/ Cancel(q) \/ Handle(q) \/ Travel(q) \/ RefreshLost(q)
        PROVE  UNCHANGED leaving
    BY <2>2 DEF Send, Serve, Cancel, Handle, GiveUp, Join, StartRefresh, Travel, RefreshLost,
                RefreshRead, RefreshStored, Resolve, RefreshRotate
  <2>3. ASSUME \/ \E v \in Tabs : \E a \in SignIns : BeginSignIn(a, v)
               \/ \E a \in SignIns : Enter(a)
               \/ \E i \in Sessions : RevokeElsewhere(i)
               \/ Expire
        PROVE  UNCHANGED leaving
    BY <2>3 DEF BeginSignIn, Enter, OpenSession, SignInStored, ShowUser, RevokeElsewhere, Expire
  <2> QED  BY <2>1, <2>2, <2>3 DEF Next
<1> QED  BY <1>1, <1>2

\* What a tab deals with has been stored before.
LEMMA PastStep == ASSUME TabInv, Past, TypeOK', Next PROVE Past'
<1> USE Shapes DEF TabInv
<1>1. \A i \in Sessions : Coming(i)' => Coming(i)
  BY ComingShrinks
<1>2. ASSUME NEW i \in Sessions, Coming(i)'
      PROVE  /\ session'[i].by \notin Tabs /\ jar'.session # i
             /\ \A f \in Requests : refresh'[f].sent # i
             /\ \A t \in Tabs : leaving'[t].sent # i
  <2>1. Coming(i) /\ i # None
    BY <1>1, <1>2
  <2>2. session'[i].by \notin Tabs
    BY <2>1, Ends DEF Past
  <2>3. jar'.session # i
    BY <1>2, <2>1, Stores DEF Past
  <2>4. /\ \A f \in Requests : refresh'[f].sent # i
        /\ \A t \in Tabs : leaving'[t].sent # i
    BY <2>1, Takes DEF Past
  <2> QED  BY <2>2, <2>3, <2>4
<1> QED  BY <1>2 DEF Past

\* Refresh f goes on: nothing is granted or begun.
Onward(f) ==
  /\ SameFlight(f) /\ refresh'[f].sent = refresh[f].sent
  /\ refresh'[f].server # "over" =>
       refresh[f].server # "over" /\ refresh'[f].answer \in {"none", "lost"}
  /\ refresh[f].answer \in {"granted", "lost"} => refresh'[f].answer \in {"granted", "lost"}
  /\ refresh[f].server = "over" => refresh'[f].server = "over"
  /\ refresh[f].answer \in {"granted", "stored", "lost"}
       => refresh'[f].answer \in {"granted", "stored", "lost"}

\* Every tab is signed in as before, in the same generation.
SameUsers ==
  \A t \in Tabs : tab'[t].user = tab[t].user /\ tab'[t].generation = tab[t].generation

\* Nobody starts to sign in or has just signed in, and no logout is sent.
SameDoors ==
  /\ \A a \in SignIns :
       /\ signIn'[a].tab = signIn[a].tab /\ Entering(a)' = Entering(a)
       /\ (signIn'[a].pc = "stored") = (signIn[a].pc = "stored")
  /\ \A t \in Tabs : leaving'[t].pc \in {"begun", "sent"} => leaving'[t] = leaving[t]

\* A step that ends no session for a tab, stores nothing, and begins nothing.
LEMMA Quieter ==
  ASSUME TypeOK, TypeOK', Alone, SameUsers, SameDoors, jar'.session = jar.session,
         \A i \in Sessions : session'[i].by = session[i].by \/ session'[i].by \notin Tabs,
         \A f \in Requests : Onward(f)
  PROVE  Alone'
<1> USE Shapes
<1>1. Unanswered'
  BY DEF Alone, Unanswered, Onward, SameFlight
<1>2. Doors'
  BY DEF Alone, Doors, SameUsers, SameDoors, Active
<1>3. \A t \in Tabs, f \in Requests :
        /\ Ours(f, t)' <=> Ours(f, t)
        /\ Served(f, t)' => Served(f, t)
        /\ refresh'[f].sent = refresh[f].sent
  BY DEF SameUsers, Onward, SameFlight, Ours, Served, Active
<1>4. \A t \in Tabs : Active(t)' <=> Active(t)
  BY DEF SameUsers, Active
<1>5. jar.session \in Sessions \cup {None}
  BY DEF Jar
<1>6. ASSUME NEW t \in Tabs PROVE Present(t)'
  <2> SUFFICES ASSUME Active(t), jar.session # None
               PROVE  /\ ~(leaving'[t].pc = "sent" /\ leaving'[t].sent = jar.session)
                      /\ session'[jar.session].by = t =>
                           \E f \in Requests : Ours(f, t)' /\ refresh'[f].answer \in {"granted", "lost"}
                      /\ \A f \in Requests :
                           Served(f, t)' /\ refresh'[f].sent = jar.session => Ours(f, t)'
    BY <1>4 DEF Present, Parting
  <2>1. Present(t)
    BY DEF Alone
  <2>2. ~(leaving'[t].pc = "sent" /\ leaving'[t].sent = jar.session)
    BY <2>1 DEF Present, Parting, SameDoors
  <2>3. session'[jar.session].by = t =>
          \E f \in Requests : Ours(f, t)' /\ refresh'[f].answer \in {"granted", "lost"}
    BY <1>3, <1>5, <2>1 DEF Present, Onward
  <2>4. \A f \in Requests : Served(f, t)' /\ refresh'[f].sent = jar.session => Ours(f, t)'
    BY <1>3, <2>1 DEF Present
  <2> QED  BY <2>2, <2>3, <2>4
<1>7. ASSUME NEW a \in SignIns, signIn'[a].pc = "stored", jar'.session # None
      PROVE  Arriving(a)'
  <2>1. Arriving(a) /\ signIn[a].tab \in Tabs /\ signIn[a].pc = "stored"
    BY <1>7 DEF Alone, Doors, Entering, SameDoors
  <2>2. PICK t \in Tabs : signIn[a].tab = t /\ signIn'[a].tab = t
    BY <2>1 DEF SameDoors
  <2>3. /\ ~(leaving[t].pc = "sent" /\ leaving[t].sent = jar.session)
        /\ session[jar.session].by # t
        /\ \A f \in Requests : Served(f, t) => refresh[f].sent # jar.session
    BY <1>7, <2>1, <2>2 DEF Arriving, Parting
  <2>4. ~(leaving'[t].pc = "sent" /\ leaving'[t].sent = jar.session)
    BY <2>3 DEF SameDoors
  <2>5. session'[jar.session].by # t
    BY <1>5, <1>7, <2>3
  <2>6. \A f \in Requests : Served(f, t)' => refresh'[f].sent # jar.session
    BY <1>3, <2>3
  <2> QED  BY <2>2, <2>4, <2>5, <2>6 DEF Arriving, Parting, Served
<1>8. ASSUME NEW f \in Requests, NEW t \in Tabs PROVE Sole(f, t)'
  <2> DEFINE i == refresh[f].sent
  <2> SUFFICES ASSUME Ours(f, t), i # None
               PROVE  /\ ~(leaving'[t].pc = "sent" /\ leaving'[t].sent = i)
                      /\ session'[i].by = t =>
                           refresh'[f].server = "over" /\ refresh'[f].answer \in {"granted", "stored", "lost"}
                      /\ \A g \in Requests : Served(g, t)' /\ refresh'[g].sent = i => g = f
    BY <1>3 DEF Sole, Parting
  <2>1. Sole(f, t) /\ i \in Sessions
    BY DEF Alone, Refresh
  <2>2. ~(leaving'[t].pc = "sent" /\ leaving'[t].sent = i)
    BY <2>1 DEF Sole, Parting, SameDoors
  <2>3. session'[i].by = t => session[i].by = t
    BY <2>1
  <2>4. \A g \in Requests : Served(g, t)' /\ refresh'[g].sent = i => g = f
    BY <1>3, <2>1 DEF Sole
  <2> QED  BY <2>1, <2>2, <2>3, <2>4 DEF Sole, Onward
<1>9. \A a \in SignIns : Arriving(a)'
  BY <1>7 DEF Arriving
<1> QED  BY <1>1, <1>2, <1>6, <1>8, <1>9 DEF Alone

\* Requests on their way and the rest of the world are nothing to the sessions of a tab.
LEMMA QuietSteps ==
  ASSUME TabInv, Alone, TypeOK',
         \/ \E q \in Requests : \/ \E t \in Tabs : Send(q, t)
                                \/ Serve(q) \/ Cancel(q) \/ GiveUp(q) \/ Join(q)
         \/ \E i \in Sessions : RevokeElsewhere(i)
         \/ Expire
         \/ \E t \in Tabs : LogoutStored(t) /\ UNCHANGED jar
         \/ \E a \in SignIns : OpenSession(a)
  PROVE  Alone'
<1> USE Shapes DEF TabInv
<1>1. UNCHANGED <<tab, refresh>>
  BY DEF Send, Serve, Cancel, GiveUp, Join, RevokeElsewhere, Expire, LogoutStored, OpenSession
<1>2. SameUsers /\ \A f \in Requests : Onward(f)
  BY <1>1 DEF SameUsers, Onward, SameFlight, Alone, Unanswered
<1>3. jar'.session = jar.session
  <2>1. CASE Expire
    BY <2>1 DEF Expire, Jar
  <2>2. CASE UNCHANGED jar
    BY <2>2
  <2> QED  BY <2>1, <2>2 DEF Send, Serve, Cancel, GiveUp, Join, RevokeElsewhere, OpenSession
<1>4. \A i \in Sessions : session'[i].by = session[i].by \/ session'[i].by \notin Tabs
  <2>1. CASE \E i \in Sessions : RevokeElsewhere(i)
    BY <2>1 DEF RevokeElsewhere, Ended, Session
  <2>2. CASE \E a \in SignIns : OpenSession(a)
    BY <2>2 DEF OpenSession, LiveSession
  <2>3. CASE UNCHANGED session
    BY <2>3
  <2> QED  BY <2>1, <2>2, <2>3 DEF Send, Serve, Cancel, GiveUp, Join, Expire, LogoutStored
<1>5. SameDoors
  <2>1. CASE \E t \in Tabs : LogoutStored(t)
    BY <2>1 DEF LogoutStored, NoLogout, SameDoors, Entering
  <2>2. CASE \E a \in SignIns : OpenSession(a)
    BY <2>2 DEF OpenSession, SameDoors, Entering, SignIn
  <2>3. CASE UNCHANGED <<signIn, leaving>>
    BY <2>3 DEF SameDoors, Entering
  <2> QED  BY <2>1, <2>2, <2>3 DEF Send, Serve, Cancel, GiveUp, Join, RevokeElsewhere, Expire
<1> QED  BY <1>2, <1>3, <1>4, <1>5, Quieter

\* A refresh that is read, refused or lost.
LEMMA RefreshMoves ==
  ASSUME TabInv, Alone, TypeOK', NEW f \in Requests,
         RefreshRead(f) \/ RefreshLost(f) \/ (RefreshRotate(f) /\ ~Rotates(f))
  PROVE  Alone'
<1> USE Shapes DEF TabInv
<1>1. UNCHANGED <<session, jar, tab, signIn, leaving>>
  BY DEF RefreshRead, RefreshLost, RefreshRotate
<1>2. SameUsers /\ SameDoors
  BY <1>1 DEF SameUsers, SameDoors, Entering
<1>3. refresh[f] \in Refresh /\ \A g \in Requests : g # f => refresh'[g] = refresh[g]
  BY DEF RefreshRead, RefreshLost, RefreshRotate
<1>4. Unanswered
  BY DEF Alone
<1>5. Onward(f)
  <2>1. CASE RefreshRead(f)
    BY <1>3, <1>4, <2>1 DEF RefreshRead, Answered, Unanswered, Onward, SameFlight, Refresh
  <2>2. CASE RefreshLost(f)
    BY <1>3, <1>4, <2>2 DEF RefreshLost, Unanswered, Onward, SameFlight, Refresh
  <2>3. CASE RefreshRotate(f) /\ ~Rotates(f)
    BY <1>3, <1>4, <2>3 DEF RefreshRotate, Answered, Unanswered, Onward, SameFlight, Refresh
  <2> QED  BY <2>1, <2>2, <2>3
<1>6. ASSUME NEW g \in Requests, g # f PROVE Onward(g)
  BY <1>3, <1>4, <1>6 DEF Unanswered, Onward, SameFlight
<1> QED  BY <1>1, <1>2, <1>5, <1>6, Quieter

\* Cookies that are stored name a session that no tab has dealt with yet.
LEMMA StoreAlone ==
  ASSUME TabInv, Past, Alone, TypeOK', Next, jar'.session \notin {jar.session, None}
  PROVE  Alone'
<1> USE Shapes DEF TabInv
<1>1. PICK i \in Sessions : jar'.session = i /\ Coming(i)
  BY Stores
<1>2. /\ session[i].by \notin Tabs
      /\ \A f \in Requests : refresh[f].sent # i
      /\ \A t \in Tabs : leaving[t].sent # i
  BY <1>1 DEF Past
<1>3. UNCHANGED <<session, tab, leaving>>
  BY Stores
<1>4. /\ \A a \in SignIns : signIn'[a].tab = signIn[a].tab /\ Entering(a)' = Entering(a)
      /\ \A f \in Requests : SameFlight(f) /\ refresh'[f].sent = refresh[f].sent
                             /\ refresh'[f].server = refresh[f].server
      /\ \A f \in Requests : \/ refresh'[f].answer = refresh[f].answer
                             \/ refresh[f].answer = "granted" /\ refresh'[f].answer = "stored"
  <2>1. CASE /\ UNCHANGED signIn
             /\ \E f \in Requests :
                  /\ refresh[f].pending /\ refresh[f].answer = "granted"
                  /\ refresh' = [refresh EXCEPT ![f].answer = "stored"]
    BY <2>1 DEF Entering, SameFlight, Refresh
  <2>2. CASE /\ UNCHANGED refresh
             /\ \E a \in SignIns :
                  /\ signIn[a].pc = "granted"
                  /\ signIn' = [signIn EXCEPT ![a].pc = "stored"]
    BY <2>2 DEF Entering, SameFlight, SignIn
  <2> QED  BY <2>1, <2>2, Stores
<1>5. \A f \in Requests, t \in Tabs : (Ours(f, t)' <=> Ours(f, t)) /\ (Served(f, t)' <=> Served(f, t))
  BY <1>3, <1>4 DEF Ours, Served, SameFlight, Active
<1>6. Unanswered'
  BY <1>4 DEF Alone, Unanswered, SameFlight
<1>7. Doors'
  BY <1>3, <1>4 DEF Alone, Doors, Active
<1>8. \A t \in Tabs : Present(t)'
  BY <1>1, <1>2, <1>3, <1>4 DEF Present, Parting
<1>9. ASSUME NEW a \in SignIns, signIn'[a].pc = "stored" PROVE Arriving(a)'
  <2>1. signIn[a].tab \in Tabs /\ signIn'[a].tab = signIn[a].tab
    BY <1>4, <1>9 DEF Alone, Doors, Entering
  <2> QED  BY <1>1, <1>2, <1>3, <1>4, <2>1 DEF Arriving, Parting, Served
<1>10. ASSUME NEW f \in Requests, NEW t \in Tabs PROVE Sole(f, t)'
  <2>1. Sole(f, t)
    BY DEF Alone
  <2> QED  BY <1>3, <1>4, <1>5, <2>1 DEF Sole, Parting
<1>11. \A a \in SignIns : Arriving(a)'
  BY <1>9 DEF Arriving
<1> QED  BY <1>6, <1>7, <1>8, <1>10, <1>11 DEF Alone

\* An empty jar is no concern of a tab.
LEMMA ClearAlone ==
  ASSUME TypeOK, Alone, TypeOK', NEW t \in Tabs, LogoutStored(t), ~UNCHANGED jar
  PROVE  Alone'
<1> USE Shapes
<1>1. /\ UNCHANGED <<session, tab, refresh, signIn>> /\ jar'.session = None
      /\ leaving' = [leaving EXCEPT ![t] = NoLogout]
  BY DEF LogoutStored
<1>2. \A v \in Tabs : leaving'[v].pc \in {"begun", "sent"} => leaving'[v] = leaving[v]
  BY <1>1 DEF NoLogout
<1>3. Unanswered'
  BY <1>1 DEF Alone, Unanswered
<1>4. Doors'
  BY <1>1, <1>2 DEF Alone, Doors, Entering, Active
<1>5. (\A v \in Tabs : Present(v)') /\ \A a \in SignIns : Arriving(a)'
  BY <1>1 DEF Present, Arriving
<1>6. ASSUME NEW f \in Requests, NEW v \in Tabs PROVE Sole(f, v)'
  <2>1. Sole(f, v)
    BY DEF Alone
  <2> QED  BY <1>1, <1>2, <2>1 DEF Sole, Parting, Ours, Served, Active
<1> QED  BY <1>3, <1>4, <1>5, <1>6 DEF Alone

\* A rotation ends the session in the jar only if it is made for the user on display,
\* and the session of a refresh under way only if it is that refresh.
LEMMA RotateAlone ==
  ASSUME TabInv, Alone, TypeOK', NEW f \in Requests, RefreshRotate(f), Rotates(f)
  PROVE  Alone'
<1> USE Shapes DEF TabInv
<1> DEFINE old == refresh[f].sent
           t == refresh[f].tab
<1>1. /\ UNCHANGED <<jar, tab, signIn, leaving>>
      /\ \A g \in Requests \ {f} : refresh'[g] = refresh[g]
      /\ Served(f, t) /\ t \in Tabs
      /\ refresh[f].answer \in {"none", "lost"}
  BY DEF RefreshRotate, Served, Alone, Unanswered
<1>2. /\ SameFlight(f) /\ refresh'[f].sent = old /\ refresh'[f].server = "over"
      /\ refresh'[f].answer \in {"granted", "lost"}
  BY <1>1 DEF RefreshRotate, Answered, SameFlight, Refresh
<1>3. \A i \in Sessions : /\ i # old => session'[i].by = session[i].by \/ session'[i].by \notin Tabs
                          /\ session'[i].by \in {t, session[i].by} \/ session'[i].by \notin Tabs
  <2>1. session' = [session EXCEPT ![old] = Ended(old, t), ![f] = LiveSession(session[old].login)]
    BY DEF RefreshRotate
  <2>2. LiveSession(session[old].login).by = None /\ (old \in Sessions => Ended(old, t).by = t)
    BY DEF LiveSession, Ended, Session
  <2> HIDE DEF old, t
  <2> QED  BY <2>1, <2>2
<1>4. \A g \in Requests, v \in Tabs :
        /\ Ours(g, v)' <=> Ours(g, v)
        /\ Served(g, v)' <=> Served(g, v) /\ g # f
        /\ refresh'[g].sent = refresh[g].sent
        /\ refresh[g].answer \in {"granted", "lost"} => refresh'[g].answer \in {"granted", "lost"}
  BY <1>1, <1>2 DEF Ours, Served, SameFlight, Active
<1>5. Unanswered'
  BY <1>1, <1>2 DEF Alone, Unanswered
<1>6. Doors'
  BY <1>1 DEF Alone, Doors, Entering, Active
<1> HIDE DEF old
<1>7. ASSUME NEW v \in Tabs, Active(v), jar.session # None PROVE Present(v)'
  <2>1. Present(v) /\ jar.session \in Sessions
    BY <1>7 DEF Alone, Jar
  <2>2. ASSUME session'[jar.session].by = v
        PROVE  \E g \in Requests : Ours(g, v)' /\ refresh'[g].answer \in {"granted", "lost"}
    <3>1. CASE session[jar.session].by = v
      BY <1>4, <1>7, <2>1, <3>1 DEF Present
    <3>2. CASE session[jar.session].by # v
      <4>1. jar.session = old /\ v = t
        BY <1>3, <2>1, <2>2, <3>2
      <4>2. Ours(f, v)
        BY <1>1, <1>7, <2>1, <4>1 DEF Present, old
      <4> QED  BY <1>2, <1>4, <4>2
    <3> QED  BY <3>1, <3>2
  <2> QED  BY <1>1, <1>4, <1>7, <2>1, <2>2 DEF Present, Parting
<1>8. ASSUME NEW a \in SignIns, signIn[a].pc = "stored", jar.session # None PROVE Arriving(a)'
  <2>1. Arriving(a) /\ signIn[a].tab \in Tabs /\ jar.session \in Sessions
    BY <1>8 DEF Alone, Doors, Entering, Jar
  <2>2. PICK v \in Tabs : signIn[a].tab = v /\ signIn'[a].tab = v
    BY <1>1, <2>1
  <2>3. jar.session = old => v # t
    BY <1>1, <1>8, <2>1, <2>2 DEF Arriving, old
  <2>4. session'[jar.session].by # v
    BY <1>3, <1>8, <2>1, <2>2, <2>3 DEF Arriving
  <2>5. \A g \in Requests : Served(g, v)' => refresh'[g].sent # jar.session
    BY <1>4, <1>8, <2>1, <2>2 DEF Arriving
  <2>6. ~(leaving[v].pc = "sent" /\ leaving[v].sent = jar.session)
    BY <1>8, <2>1, <2>2 DEF Arriving, Parting
  <2> QED  BY <1>1, <2>2, <2>4, <2>5, <2>6 DEF Arriving, Parting, Served
<1>9. ASSUME NEW g \in Requests, NEW v \in Tabs, Ours(g, v), refresh[g].sent # None
      PROVE  Sole(g, v)'
  <2> DEFINE i == refresh[g].sent
  <2>1. Sole(g, v) /\ i \in Sessions
    BY <1>9 DEF Alone, Refresh
  <2>2. ~(leaving[v].pc = "sent" /\ leaving[v].sent = i)
    BY <1>9, <2>1 DEF Sole, Parting
  <2>3. ASSUME session'[i].by = v
        PROVE  refresh'[g].server = "over" /\ refresh'[g].answer \in {"granted", "stored", "lost"}
    <3>1. CASE g = f
      BY <1>2, <3>1
    <3>2. CASE g # f
      <4>1. ~(i = old /\ v = t)
        BY <1>1, <1>9, <2>1, <3>2 DEF Sole, old
      <4>2. session[i].by = v
        BY <1>3, <2>1, <2>3, <4>1
      <4> QED  BY <1>1, <1>9, <2>1, <3>2, <4>2 DEF Sole
    <3> QED  BY <3>1, <3>2
  <2>4. \A h \in Requests : Served(h, v)' /\ refresh'[h].sent = i => h = g
    BY <1>4, <1>9, <2>1 DEF Sole
  <2> QED  BY <1>1, <1>4, <2>2, <2>3, <2>4 DEF Sole, Parting
<1>10. \A v \in Tabs : Present(v)'
  BY <1>1, <1>7 DEF Present, Active
<1>11. \A a \in SignIns : Arriving(a)'
  BY <1>1, <1>8 DEF Arriving
<1>12. \A g \in Requests, v \in Tabs : Sole(g, v)'
  BY <1>4, <1>9 DEF Sole
<1> QED  BY <1>5, <1>6, <1>10, <1>11, <1>12 DEF Alone

\* A refresh that begins is the only one of its tab for this user, so the session it
\* takes from the jar is none the tab is ending otherwise.
LEMMA StartAlone ==
  ASSUME TabInv, Alone, TypeOK', NEW q \in Requests, StartRefresh(q)
  PROVE  Alone'
<1> USE Shapes, Parts DEF TabInv
<1>0. PICK t \in Tabs : t = request[q].tab /\ ~Shares(t) /\ Active(t)
  BY DEF StartRefresh, MayRefresh
<1>1. /\ UNCHANGED <<session, jar, signIn, leaving>> /\ t \in Tabs /\ ~Shares(t) /\ Active(t)
      /\ request[q].pc = "refused" /\ ~refresh[q].pending
  BY <1>0 DEF StartRefresh, MayRefresh, Unused
<1>2. /\ refresh'[q].pending /\ refresh'[q].tab = t /\ refresh'[q].sent = jar.session
      /\ refresh'[q].generation = tab[t].generation /\ refresh'[q].answer = "none"
      /\ \A k \in Requests \ {q} : refresh'[k] = refresh[k]
  BY <1>0 DEF StartRefresh
<1>3. \A v \in Tabs : tab'[v].user = tab[v].user /\ tab'[v].generation = tab[v].generation
  BY <1>0 DEF StartRefresh, Tab
<1>4. ASSUME NEW f \in Requests PROVE ~Ours(f, t)
  BY <1>1, Names DEF Ours, Flights, Shares
<1>5. \A f \in Requests \ {q}, v \in Tabs :
        (Ours(f, v)' <=> Ours(f, v)) /\ (Served(f, v)' <=> Served(f, v))
  BY <1>2, <1>3 DEF Ours, Served, Active
<1>6. \A v \in Tabs : /\ Active(v)' <=> Active(v)
                      /\ Ours(q, v)' <=> v = t
                      /\ ~Ours(q, v)
                      /\ Served(q, v)' => v = t
  BY <1>1, <1>2, <1>3 DEF Ours, Served, Active
<1>7. Unanswered'
  BY <1>1, <1>2 DEF Alone, Unanswered
<1>8. Doors'
  BY <1>1, <1>6 DEF Alone, Doors, Entering
<1>9. ASSUME NEW v \in Tabs, Active(v), jar.session # None PROVE Present(v)'
  <2>1. Present(v)
    BY DEF Alone
  <2>2. session[jar.session].by = v =>
          \E f \in Requests : Ours(f, v)' /\ refresh'[f].answer \in {"granted", "lost"}
    BY <1>2, <1>5, <1>6, <1>9, <2>1 DEF Present
  <2>3. \A f \in Requests : Served(f, v)' /\ refresh'[f].sent = jar.session => Ours(f, v)'
    BY <1>2, <1>5, <1>6, <1>9, <2>1 DEF Present
  <2> QED  BY <1>1, <1>9, <2>1, <2>2, <2>3 DEF Present, Parting
<1>10. ASSUME NEW a \in SignIns, signIn[a].pc = "stored", jar.session # None PROVE Arriving(a)'
  <2>1. Arriving(a) /\ signIn[a].tab \in Tabs /\ signIn[a].tab # t
    BY <1>1, <1>10 DEF Alone, Doors, Entering
  <2>2. PICK v \in Tabs : signIn[a].tab = v /\ signIn'[a].tab = v /\ v # t
    BY <1>1, <2>1
  <2>3. \A f \in Requests : Served(f, v)' => refresh'[f].sent # jar.session
    BY <1>2, <1>5, <1>6, <1>10, <2>1, <2>2 DEF Arriving
  <2> QED  BY <1>1, <1>10, <2>1, <2>2, <2>3 DEF Arriving, Parting, Served
<1>11. ASSUME NEW f \in Requests, NEW v \in Tabs, Ours(f, v)', refresh'[f].sent # None
       PROVE  Sole(f, v)'
  <2>1. CASE f = q
    <3>1. v = t /\ Present(t) /\ jar.session # None
      BY <1>1, <1>2, <1>6, <1>11, <2>1 DEF Alone
    <3>2. session[jar.session].by # t
      BY <1>1, <1>4, <3>1 DEF Present
    <3>3. \A g \in Requests : Served(g, t)' /\ refresh'[g].sent = jar.session => g = q
      BY <1>1, <1>2, <1>4, <1>5, <3>1 DEF Present
    <3>4. ~(leaving[t].pc = "sent" /\ leaving[t].sent = jar.session)
      BY <1>1, <3>1 DEF Present, Parting
    <3> QED  BY <1>1, <1>2, <2>1, <3>1, <3>2, <3>3, <3>4 DEF Sole, Parting
  <2>2. CASE f # q
    <3>1. Ours(f, v) /\ Sole(f, v) /\ v # t /\ refresh'[f] = refresh[f]
      BY <1>2, <1>4, <1>5, <1>11, <2>2 DEF Alone
    <3>2. \A g \in Requests : Served(g, v)' /\ refresh'[g].sent = refresh[f].sent => g = f
      BY <1>2, <1>5, <1>6, <1>11, <3>1 DEF Sole
    <3> QED  BY <1>1, <1>11, <3>1, <3>2 DEF Sole, Parting
  <2> QED  BY <2>1, <2>2
<1>12. \A v \in Tabs : Present(v)'
  BY <1>1, <1>6, <1>9 DEF Present
<1>13. \A a \in SignIns : Arriving(a)'
  BY <1>1, <1>10 DEF Arriving
<1>14. \A f \in Requests, v \in Tabs : Sole(f, v)'
  BY <1>11 DEF Sole
<1> QED  BY <1>7, <1>8, <1>12, <1>13, <1>14 DEF Alone

\* A step that changes whom a tab is signed in as, or nothing: no refresh becomes somebody's.
LEMMA Fewer ==
  ASSUME TypeOK, Alone, TypeOK', UNCHANGED <<session, jar, signIn, leaving>>,
         \A f \in Requests, t \in Tabs :
           /\ Ours(f, t)' => Ours(f, t) /\ refresh'[f] = refresh[f]
           /\ Served(f, t)' => Served(f, t) /\ refresh'[f].sent = refresh[f].sent,
         \A f \in Requests : refresh'[f].server # "over" =>
           /\ refresh[f].server # "over"
           /\ refresh'[f].tab = refresh[f].tab /\ refresh'[f].answer = refresh[f].answer,
         \A t \in Tabs : Active(t)' =>
           /\ Active(t)
           /\ \A f \in Requests :
                /\ Ours(f, t) /\ refresh[f].answer \in {"granted", "lost"} => Ours(f, t)'
                /\ Ours(f, t) /\ Served(f, t) => Ours(f, t)'
  PROVE  Alone'
<1> USE Shapes
<1>1. Unanswered'
  BY DEF Alone, Unanswered
<1>2. Doors'
  BY DEF Alone, Doors, Entering
<1>3. ASSUME NEW t \in Tabs, Active(t)', jar.session # None PROVE Present(t)'
  <2>1. Present(t) /\ Active(t)
    BY <1>3 DEF Alone
  <2>2. session[jar.session].by = t =>
          \E f \in Requests : Ours(f, t)' /\ refresh'[f].answer \in {"granted", "lost"}
    BY <1>3, <2>1 DEF Present
  <2>3. \A f \in Requests : Served(f, t)' /\ refresh'[f].sent = jar.session => Ours(f, t)'
    BY <1>3, <2>1 DEF Present
  <2> QED  BY <1>3, <2>1, <2>2, <2>3 DEF Present, Parting
<1>4. ASSUME NEW a \in SignIns, signIn[a].pc = "stored", jar.session # None PROVE Arriving(a)'
  <2>1. Arriving(a) /\ signIn[a].tab \in Tabs
    BY <1>4 DEF Alone, Doors, Entering
  <2>2. PICK v \in Tabs : signIn[a].tab = v /\ signIn'[a].tab = v
    BY <2>1
  <2>3. \A f \in Requests : Served(f, v)' => refresh'[f].sent # jar.session
    BY <1>4, <2>1, <2>2 DEF Arriving
  <2> QED  BY <1>4, <2>1, <2>2, <2>3 DEF Arriving, Parting, Served
<1>5. ASSUME NEW f \in Requests, NEW t \in Tabs, Ours(f, t)', refresh'[f].sent # None
      PROVE  Sole(f, t)'
  <2>1. Ours(f, t) /\ Sole(f, t) /\ refresh'[f] = refresh[f]
    BY <1>5 DEF Alone
  <2>2. \A g \in Requests : Served(g, t)' /\ refresh'[g].sent = refresh[f].sent => g = f
    BY <1>5, <2>1 DEF Sole
  <2> QED  BY <1>5, <2>1, <2>2 DEF Sole, Parting
<1>6. \A t \in Tabs : Present(t)'
  BY <1>3 DEF Present
<1>7. \A a \in SignIns : Arriving(a)'
  BY <1>4 DEF Arriving
<1>8. \A f \in Requests, t \in Tabs : Sole(f, t)'
  BY <1>5 DEF Sole
<1> QED  BY <1>1, <1>2, <1>6, <1>7, <1>8 DEF Alone

\* A refresh that is over expires its tab, or has stored a new session.
LEMMA ResolveAlone ==
  ASSUME TabInv, Alone, TypeOK', NEW f \in Requests, Resolve(f)
  PROVE  Alone'
<1> USE Shapes DEF TabInv
<1> DEFINE expired == refresh[f].answer # "stored" /\ Current(f)
<1>0. PICK t \in Tabs : t = refresh[f].tab
  BY DEF Resolve, Flights
<1>1. /\ UNCHANGED <<session, jar, signIn, leaving>> /\ refresh[f].pending 
      /\ refresh[f].answer \in {"stored", "refused", "lost"}
      /\ \A g \in Requests \ {f} : refresh'[g] = refresh[g]
  BY DEF Resolve
<1>2. ~refresh'[f].pending
  BY DEF Resolve, NoRefresh, Refresh
<1>3. refresh'[f].server # "over" => refresh'[f] = [refresh[f] EXCEPT !.pending = FALSE]
                                     /\ refresh[f].server # "over"
  BY DEF Resolve, NoRefresh, Refresh
<1>4. \A v \in Tabs \ {t} : tab'[v] = tab[v]
  BY <1>0 DEF Resolve
<1>5. expired => tab'[t].user = None
  BY <1>0 DEF Resolve
<1>6. ~expired => tab'[t].user = tab[t].user /\ tab'[t].generation = tab[t].generation
  <2>1. tab[t] \in Tab
    OBVIOUS
  <2>2. ~expired => tab'[t] = [tab[t] EXCEPT !.promise = PromiseAfter(f)]
    BY <1>0 DEF Resolve
  <2> QED  BY <2>1, <2>2 DEF Tab
<1>7. \A v \in Tabs : Ours(f, v) => v = t /\ Current(f)
  BY <1>0 DEF Ours, Current
<1>8. Served(f, t) => refresh[f].answer # "stored"
  BY <1>1 DEF Served, Alone, Unanswered
<1> HIDE DEF expired
<1>9. \A v \in Tabs : Active(v)' => Active(v) /\ (v = t => ~expired)
  BY <1>4, <1>5, <1>6 DEF Active
<1>10. ASSUME NEW g \in Requests, NEW v \in Tabs
       PROVE  /\ Ours(g, v)' => Ours(g, v) /\ refresh'[g] = refresh[g]
              /\ g # f /\ Active(v)' /\ Ours(g, v) => Ours(g, v)'
              /\ Served(g, v)' => Served(g, v) /\ refresh'[g].sent = refresh[g].sent
  <2>1. CASE g = f
    BY <1>2, <1>3, <2>1 DEF Ours, Served, Refresh
  <2>2. CASE g # f
    BY <1>1, <1>4, <1>5, <1>6, <1>9, <2>2 DEF Ours, Served, Active
  <2> QED  BY <2>1, <2>2
<1>11. \A v \in Tabs : Active(v)' /\ Ours(f, v) =>
         refresh[f].answer \notin {"granted", "lost"} /\ ~Served(f, v)
  BY <1>1, <1>7, <1>8, <1>9 DEF expired
<1>12. \A g \in Requests : refresh'[g].server # "over" =>
         /\ refresh[g].server # "over"
         /\ refresh'[g].tab = refresh[g].tab /\ refresh'[g].answer = refresh[g].answer
  BY <1>1, <1>3 DEF Refresh
<1> QED  BY <1>1, <1>9, <1>10, <1>11, <1>12, Fewer

\* A logout begins with the user leaving the tab; the session is taken from the jar,
\* and ended, while nobody is signed in or the jar holds another one.
LEMMA LeaveAlone ==
  ASSUME TabInv, Alone, TypeOK', NEW t \in Tabs,
         BeginLogout(t) \/ SendLogout(t) \/ EndSession(t)
  PROVE  Alone'
<1> USE Shapes DEF TabInv
<1>1. /\ UNCHANGED <<jar, refresh, signIn>>
      /\ \A v \in Tabs \ {t} : tab'[v] = tab[v] /\ leaving'[v] = leaving[v]
      /\ Active(t)' => Active(t) /\ tab'[t] = tab[t]
      /\ leaving'[t].pc = "begun" => ~Active(t)'
      /\ leaving'[t].pc # "begun" \/ Active(t)
  BY DEF BeginLogout, SendLogout, EndSession, Active, Tab, Leaving
<1>2. leaving'[t].pc = "sent" => leaving[t].pc = "begun"
  BY DEF BeginLogout, SendLogout, EndSession, Leaving
<1>3. \A i \in Sessions : session'[i].by = session[i].by \/ (session'[i].by = t /\ Parting(i, t))
  <2>1. CASE UNCHANGED session
    BY <2>1
  <2>2. CASE EndSession(t) /\ ~UNCHANGED session
    <3>1. PICK k : k = leaving[t].sent /\ Live(k) /\ session' = [session EXCEPT ![k] = Ended(k, t)]
      BY <2>2 DEF EndSession
    <3>2. Parting(k, t)
      BY <2>2, <3>1 DEF EndSession, Parting
    <3> QED  BY <3>1, <3>2 DEF Ended, Session
  <2> QED  BY <2>1, <2>2 DEF BeginLogout, SendLogout
<1>4. \A v \in Tabs : Active(v)' =>
        /\ Active(v) /\ tab'[v] = tab[v]
        /\ leaving'[v].pc = "sent" => leaving'[v] = leaving[v]
  BY <1>1, <1>2 DEF Alone, Doors, Active
<1>5. \A f \in Requests, v \in Tabs :
        /\ Ours(f, v)' => Ours(f, v)
        /\ Active(v)' /\ Ours(f, v) => Ours(f, v)'
        /\ Served(f, v)' <=> Served(f, v)
  BY <1>1, <1>4 DEF Ours, Served, Active
<1>6. Unanswered'
  BY <1>1 DEF Alone, Unanswered
<1>7. Doors'
  BY <1>1, <1>4 DEF Alone, Doors, Entering
<1>8. ASSUME NEW v \in Tabs, Active(v)', jar.session # None PROVE Present(v)'
  <2>1. Present(v) /\ Active(v) /\ jar.session \in Sessions
    BY <1>4, <1>8 DEF Alone, Jar
  <2>2. ~Parting(jar.session, v) /\ ~Parting(jar.session, v)'
    BY <1>1, <1>4, <1>8, <2>1 DEF Present, Parting
  <2>3. session'[jar.session].by = v => session[jar.session].by = v
    BY <1>3, <2>1, <2>2
  <2>4. session'[jar.session].by = v =>
          \E f \in Requests : Ours(f, v)' /\ refresh'[f].answer \in {"granted", "lost"}
    BY <1>1, <1>5, <1>8, <2>1, <2>3 DEF Present
  <2>5. \A f \in Requests : Served(f, v)' /\ refresh'[f].sent = jar.session => Ours(f, v)'
    BY <1>1, <1>5, <1>8, <2>1 DEF Present
  <2> QED  BY <1>1, <2>2, <2>4, <2>5 DEF Present
<1>9. ASSUME NEW a \in SignIns, signIn[a].pc = "stored", jar.session # None PROVE Arriving(a)'
  <2>1. Arriving(a) /\ jar.session \in Sessions
    BY <1>9 DEF Alone, Jar
  <2>2. PICK v \in Tabs : signIn[a].tab = v /\ signIn'[a].tab = v /\ leaving[v].pc # "begun"
    BY <1>1, <1>9 DEF Alone, Doors, Entering
  <2>3. /\ ~Parting(jar.session, v) /\ session[jar.session].by # v
        /\ \A f \in Requests : Served(f, v) => refresh[f].sent # jar.session
    BY <1>9, <2>1, <2>2 DEF Arriving
  <2>4. ~(leaving'[v].pc = "sent" /\ leaving'[v].sent = jar.session)
    BY <1>1, <1>2, <2>2, <2>3 DEF Parting
  <2>5. session'[jar.session].by # v
    BY <1>3, <2>1, <2>3
  <2>6. \A f \in Requests : Served(f, v)' => refresh'[f].sent # jar.session
    BY <1>1, <1>5, <2>3
  <2> QED  BY <1>1, <2>2, <2>4, <2>5, <2>6 DEF Arriving, Parting, Served
<1>10. ASSUME NEW f \in Requests, NEW v \in Tabs, Ours(f, v)', refresh[f].sent # None
       PROVE  Sole(f, v)'
  <2> DEFINE i == refresh[f].sent
  <2>1. Sole(f, v) /\ Ours(f, v) /\ i \in Sessions /\ Active(v)'
    BY <1>5, <1>10 DEF Alone, Refresh, Ours, Active
  <2>2. ~Parting(i, v) /\ ~(leaving'[v].pc = "sent" /\ leaving'[v].sent = i)
    BY <1>4, <1>10, <2>1 DEF Sole, Parting
  <2>3. session'[i].by = v => session[i].by = v
    BY <1>3, <2>1, <2>2
  <2>4. \A g \in Requests : Served(g, v)' /\ refresh'[g].sent = i => g = f
    BY <1>1, <1>5, <1>10, <2>1 DEF Sole
  <2> QED  BY <1>1, <1>10, <2>1, <2>2, <2>3, <2>4 DEF Sole, Parting
<1>11. \A v \in Tabs : Present(v)'
  BY <1>1, <1>8 DEF Present
<1>12. \A a \in SignIns : Arriving(a)'
  BY <1>1, <1>9 DEF Arriving
<1>13. \A f \in Requests, v \in Tabs : Sole(f, v)'
  BY <1>1, <1>10 DEF Sole
<1> QED  BY <1>6, <1>7, <1>11, <1>12, <1>13 DEF Alone

\* A sign-in begins in a tab in which nobody is signed in, and where no other is under way.
LEMMA SignInAlone ==
  ASSUME TypeOK, Alone, TypeOK', NEW a \in SignIns, NEW t \in Tabs, BeginSignIn(a, t)
  PROVE  Alone'
<1> USE Shapes
<1>1. /\ UNCHANGED <<session, jar, tab, refresh, leaving>>
      /\ \A b \in SignIns \ {a} : signIn'[b] = signIn[b]
      /\ signIn'[a].pc = "sent" /\ signIn'[a].tab = t
      /\ ~Active(t) /\ leaving[t].pc # "begun"
      /\ \A b \in SignIns : signIn[b].tab = t => ~Entering(b)
  BY DEF BeginSignIn, Entering
<1>2. Unanswered' /\ \A v \in Tabs : Present(v)'
  BY <1>1 DEF Alone, Unanswered, Present, Parting, Ours, Served, Active
<1>3. Doors'
  BY <1>1 DEF Alone, Doors, Entering, Active
<1>4. \A b \in SignIns : Arriving(b)'
  BY <1>1 DEF Alone, Arriving, Parting, Served
<1>5. \A f \in Requests, v \in Tabs : Sole(f, v)'
  BY <1>1 DEF Alone, Sole, Parting, Ours, Served, Active
<1> QED  BY <1>2, <1>3, <1>4, <1>5 DEF Alone

\* The user who appears finds a session in the jar that is none the tab has dealt with,
\* and the refreshes under way are another user's.
LEMMA ShowAlone ==
  ASSUME TabInv, Alone, TypeOK', NEW a \in SignIns, ShowUser(a)
  PROVE  Alone'
<1> USE Shapes DEF TabInv
<1>1. /\ UNCHANGED <<session, jar, refresh, leaving>> /\ signIn[a].pc = "stored"
      /\ \A b \in SignIns \ {a} : signIn'[b] = signIn[b]
      /\ signIn'[a].pc = "done"
  BY DEF ShowUser, SignIn
<1>2. PICK t \in Tabs :
        /\ signIn[a].tab = t /\ leaving[t].pc # "begun"
        /\ \A b \in SignIns : Entering(b) /\ signIn[b].tab = t => b = a
  BY <1>1 DEF Alone, Doors, Entering
<1>3. /\ \A v \in Tabs \ {t} : tab'[v] = tab[v]
      /\ tab'[t].generation = tab[t].generation + 1 /\ tab[t].generation \in Nat
  BY <1>2 DEF ShowUser, Tab
<1>4. ASSUME NEW f \in Requests
      PROVE  /\ ~Ours(f, t)'
             /\ \A v \in Tabs \ {t} : Ours(f, v)' <=> Ours(f, v)
             /\ \A v \in Tabs : Served(f, v)' <=> Served(f, v)
  <2>1. ~Ours(f, t)'
    <3>1. refresh[f].pending /\ refresh[f].tab = t =>
            refresh[f].generation <= tab[t].generation /\ refresh[f].generation \in Nat
      BY DEF Flights, Refresh
    <3> QED  BY <1>1, <1>3, <3>1 DEF Ours
  <2> QED  BY <1>1, <1>3, <2>1 DEF Ours, Served, Active
<1>5. Unanswered'
  BY <1>1 DEF Alone, Unanswered
<1>6. Doors'
  <2>1. \A b \in SignIns : Entering(b)' => b # a /\ Entering(b) /\ signIn'[b].tab = signIn[b].tab
                                            /\ signIn[b].tab # t
    BY <1>1, <1>2 DEF Entering
  <2> QED  BY <1>1, <1>2, <1>3, <2>1 DEF Alone, Doors, Active
<1>7. ASSUME NEW v \in Tabs, v # t PROVE Present(v)'
  <2>1. Present(v)
    BY DEF Alone
  <2> QED  BY <1>1, <1>3, <1>4, <1>7, <2>1 DEF Present, Parting, Active
<1>8. Present(t)'
  <2>1. Arriving(a)
    BY DEF Alone
  <2>2. jar.session # None =>
          /\ ~Parting(jar.session, t) /\ session[jar.session].by # t
          /\ \A f \in Requests : Served(f, t) => refresh[f].sent # jar.session
    BY <1>1, <1>2, <2>1 DEF Arriving
  <2> QED  BY <1>1, <1>4, <2>2 DEF Present, Parting
<1>9. \A b \in SignIns : Arriving(b)'
  BY <1>1 DEF Alone, Arriving, Parting, Served
<1>10. ASSUME NEW f \in Requests, NEW v \in Tabs PROVE Sole(f, v)'
  <2>1. Sole(f, v)
    BY DEF Alone
  <2> QED  BY <1>1, <1>4, <2>1 DEF Sole, Parting
<1> QED  BY <1>5, <1>6, <1>7, <1>8, <1>9, <1>10 DEF Alone

LEMMA AloneStep == ASSUME CookieInv, TypeOK', Next PROVE Alone'
<1> USE DEF CookieInv
<1>1. ASSUME NEW f \in Requests, RefreshStored(f) PROVE Alone'
  <2>1. Coming(f) /\ jar'.session = f /\ f \in Sessions
    BY <1>1, Names DEF RefreshStored, Coming
  <2>2. jar'.session \notin {jar.session, None}
    BY <2>1, Names DEF Past
  <2> QED  BY <2>2, StoreAlone
<1>2. ASSUME NEW a \in SignIns, SignInStored(a) PROVE Alone'
  <2>1. Coming(a) /\ jar'.session = a /\ a \in Sessions
    BY <1>2, Names DEF SignInStored, Coming
  <2>2. jar'.session \notin {jar.session, None}
    BY <2>1, Names DEF Past
  <2> QED  BY <2>2, StoreAlone
<1>3. ASSUME NEW t \in Tabs, Leave(t) PROVE Alone'
  <2>1. CASE LogoutStored(t)
    <3>1. TypeOK
      BY DEF TabInv
    <3>2. CASE UNCHANGED jar
      BY <2>1, <3>2, QuietSteps
    <3>3. CASE ~UNCHANGED jar
      BY <2>1, <3>1, <3>3, ClearAlone
    <3> QED  BY <3>2, <3>3
  <2> QED  BY <1>3, <2>1, LeaveAlone DEF Leave
<1>4. ASSUME NEW f \in Requests, Travel(f) \/ RefreshLost(f) PROVE Alone'
  BY <1>1, <1>4, RefreshMoves, RotateAlone, ResolveAlone DEF Travel
<1>5. ASSUME NEW q \in Requests,
             \/ \E t \in Tabs : Send(q, t)
             \/ Serve(q) \/ Cancel(q) \/ Handle(q)
      PROVE  Alone'
  BY <1>5, QuietSteps, StartAlone DEF Handle
<1>6. ASSUME NEW a \in SignIns, Enter(a) PROVE Alone'
  BY <1>2, <1>6, QuietSteps, ShowAlone DEF Enter
<1>7. ASSUME NEW a \in SignIns, NEW t \in Tabs, BeginSignIn(a, t) PROVE Alone'
  BY <1>7, SignInAlone DEF TabInv
<1>8. CASE Expire \/ \E i \in Sessions : RevokeElsewhere(i)
  BY <1>8, QuietSteps
<1> QED  BY <1>3, <1>4, <1>5, <1>6, <1>7, <1>8 DEF Next

LEMMA InitCookies == Init => CookieInv
<1> SUFFICES ASSUME Init PROVE CookieInv
  OBVIOUS
<1>1. TypeOK
  BY InitTyped
<1> USE <1>1, Shapes
<1>2. PICK a \in SignIns :
        /\ session = [i \in Sessions |-> IF i = a THEN LiveSession(a) ELSE NoSession]
        /\ jar \in [session : {a}, fresh : BOOLEAN]
        /\ signIn = [b \in SignIns |-> [pc |-> IF b = a THEN "done" ELSE "new", tab |-> None]]
  BY DEF Init
<1>3. /\ \A f \in Requests : ~refresh[f].pending /\ refresh[f].server = "over"
                             /\ refresh[f].sent = None
      /\ \A t \in Tabs : leaving[t].pc = "none" /\ leaving[t].sent = None
      /\ \A i \in Sessions : session[i].by = None
      /\ \A b \in SignIns : ~Entering(b) /\ signIn[b].pc # "stored"
      /\ jar.session = a /\ ~Coming(a)
  BY <1>2 DEF Init, NoRefresh, NoLogout, LiveSession, NoSession, Entering, Coming
<1>4. Past
  BY <1>3 DEF Past
<1>5. Alone
  <2>1. Unanswered /\ Doors
    BY <1>3 DEF Unanswered, Doors
  <2>2. \A t \in Tabs : Present(t)
    BY <1>3 DEF Present, Parting, Served
  <2>3. \A b \in SignIns : Arriving(b)
    BY <1>3 DEF Arriving
  <2>4. \A f \in Requests, t \in Tabs : Sole(f, t)
    BY <1>3 DEF Sole, Ours
  <2> QED  BY <2>1, <2>2, <2>3, <2>4 DEF Alone
<1> QED  BY <1>4, <1>5, InitTab DEF CookieInv

LEMMA StepCookies == CookieInv /\ [Next]_vars => CookieInv'
<1> SUFFICES ASSUME CookieInv, [Next]_vars PROVE CookieInv'
  OBVIOUS
<1>1. TypeOK' /\ TabInv'
  BY StepTyped, StepTab DEF CookieInv, TabInv
<1>2. CASE Next
  BY <1>1, <1>2, PastStep, AloneStep DEF CookieInv
<1>3. CASE UNCHANGED vars
  <2>1. Past'
    BY <1>3 DEF vars, CookieInv, Past, Coming
  <2>2. Unanswered' /\ Doors'
    BY <1>3 DEF vars, CookieInv, Alone, Unanswered, Doors, Entering, Active
  <2>3. (\A t \in Tabs : Present(t)') /\ \A a \in SignIns : Arriving(a)'
    BY <1>3 DEF vars, CookieInv, Alone, Present, Arriving, Parting, Served, Ours, Active
  <2>4. \A f \in Requests, t \in Tabs : Sole(f, t)'
    BY <1>3 DEF vars, CookieInv, Alone, Sole, Parting, Served, Ours, Active
  <2> QED  BY <1>1, <2>1, <2>2, <2>3, <2>4 DEF CookieInv, Alone
<1> QED  BY <1>2, <1>3

\* A session that the server refuses to refresh, so that the tab tells its user it has
\* expired, was ended by another tab or device: whatever refreshes, logouts and sign-ins
\* the tab has under way, none of them has ended it.
THEOREM NoSelfRace == Spec => NeverRacesItself
<1> DEFINE Other == \A f \in Requests :
       /\ refresh[f].pending /\ ~refresh'[f].pending /\ refresh[f].answer = "refused"
       /\ tab[refresh[f].tab].user # None /\ tab'[refresh[f].tab].user = None
       /\ refresh[f].sent # None
       => session[refresh[f].sent].by # refresh[f].tab
<1>1. CookieInv /\ [Next]_vars => [Other]_vars
  <2> SUFFICES ASSUME CookieInv, Next, NEW f \in Requests,
                      refresh[f].pending, ~refresh'[f].pending, refresh[f].answer = "refused",
                      tab[refresh[f].tab].user # None, tab'[refresh[f].tab].user = None,
                      refresh[f].sent # None
               PROVE  session[refresh[f].sent].by # refresh[f].tab
    BY DEF vars
  <2>1. TabInv /\ TypeOK /\ Alone
    BY DEF CookieInv, TabInv
  <2>2. ~SameFlight(f) /\ ~UNCHANGED refresh
    BY DEF SameFlight
  <2>3. Resolve(f)
    <3>1. ASSUME NEW q \in Requests,
                 \/ \E t \in Tabs : Send(q, t)
                 \/ Serve(q) \/ Cancel(q) \/ GiveUp(q) \/ Join(q)
          PROVE  FALSE
      BY <2>2, <3>1 DEF Send, Serve, Cancel, GiveUp, Join
    <3>2. ASSUME NEW q \in Requests, StartRefresh(q)
          PROVE  FALSE
      BY <2>1, <3>2, Shapes DEF StartRefresh
    <3>3. ASSUME NEW q \in Requests, Resolve(q)
          PROVE  q = f
      BY <2>1, <3>3, Resolved
    <3>4. ASSUME (\E t \in Tabs : BeginLogout(t)) \/ \E a \in SignIns : ShowUser(a)
          PROVE  FALSE
      BY <2>2, <3>4 DEF BeginLogout, ShowUser
    <3> QED  BY <2>1, <2>2, <3>1, <3>2, <3>3, <3>4, Unseen DEF Handle
  <2>4. PICK t \in Tabs : t = refresh[f].tab
    BY <2>1, Resolved, <2>3
  <2>5. Current(f)
    <3>1. tab[t] \in Tab
      BY <2>1, Shapes
    <3>2. ~Current(f) => tab'[t] = [tab[t] EXCEPT !.promise = PromiseAfter(f)]
      BY <2>1, <2>3, <2>4, Shapes DEF Resolve
    <3> QED  BY <2>4, <3>1, <3>2 DEF Tab
  <2>6. Ours(f, t) /\ Sole(f, t)
    BY <2>1, <2>4, <2>5 DEF Current, Ours, Alone
  <2> QED  BY <2>4, <2>6 DEF Sole
<1> QED  BY <1>1, InitCookies, StepCookies, PTL DEF Spec, NeverRacesItself

-----------------------------------------------------------------------------
(* Sessions replace each other: SessionClient implements Logins            *)

\* A request that has not refreshed: it can only still do so in its first round.
Early(q) ==
  \/ request[q].pc \in {"new", "refused"}
  \/ request[q].pc = "sent" /\ ~request[q].retried

\* A name is unused until its sign-in is granted or its refresh has rotated.
Fresh ==
  /\ \A a \in SignIns : ~Granted(a) => session[a].state = "absent"
  /\ \A q \in Requests : /\ Early(q) => refresh[q].server = "over"
                         /\ Early(q) \/ refresh[q].server # "over" => session[q].state = "absent"

\* What a step does to the table of sessions.
LEMMA SessionSteps ==
  ASSUME TypeOK, Next
  PROVE  \/ UNCHANGED session
         \/ \E a \in SignIns : OpenSession(a)
         \/ \E f \in Requests : RefreshRotate(f) /\ Rotates(f)
         \/ \E i \in Sessions, by \in Tabs \cup {Elsewhere} :
              session[i].state = "live" /\ session' = [session EXCEPT ![i] = Ended(i, by)]
<1>1. ASSUME NEW t \in Tabs, EndSession(t)
      PROVE  \/ UNCHANGED session
             \/ \E i \in Sessions, by \in Tabs \cup {Elsewhere} :
                  session[i].state = "live" /\ session' = [session EXCEPT ![i] = Ended(i, by)]
  <2>1. leaving[t].sent \in Sessions \cup {None}
    BY DEF TypeOK, Leaving
  <2> QED  BY <1>1, <2>1 DEF EndSession, Live
<1>2. ASSUME NEW i \in Sessions, RevokeElsewhere(i)
      PROVE  session[i].state = "live" /\ session' = [session EXCEPT ![i] = Ended(i, Elsewhere)]
  BY <1>2 DEF RevokeElsewhere
<1>3. ASSUME NEW q \in Requests,
             \/ \E t \in Tabs : Send(q, t)
             \/ Serve(q) \/ Cancel(q) \/ Handle(q) \/ RefreshLost(q)
             \/ RefreshRead(q) \/ RefreshStored(q) \/ Resolve(q)
             \/ RefreshRotate(q) /\ ~Rotates(q)
      PROVE  UNCHANGED session
  BY <1>3 DEF Send, Serve, Cancel, Handle, GiveUp, Join, StartRefresh, RefreshLost, RefreshRead,
              RefreshStored, Resolve, RefreshRotate
<1>4. ASSUME \/ \E t \in Tabs : BeginLogout(t) \/ SendLogout(t) \/ LogoutStored(t)
             \/ \E a \in SignIns : \/ SignInStored(a) \/ ShowUser(a)
                                   \/ \E t \in Tabs : BeginSignIn(a, t)
             \/ Expire
      PROVE  UNCHANGED session
  BY <1>4 DEF BeginLogout, SendLogout, LogoutStored, SignInStored, ShowUser, BeginSignIn, Expire
<1> QED  BY <1>1, <1>2, <1>3, <1>4 DEF Next, Travel, Leave, Enter

\* Nobody goes back to the first round, and only from there does a refresh begin.
LEMMA EarlyShrinks ==
  ASSUME TypeOK, Next, NEW q \in Requests
  PROVE  /\ Early(q)' => Early(q)
         /\ refresh'[q].server # "over" => refresh[q].server # "over" \/ (Early(q) /\ ~Early(q)')
<1> USE Parts
<1>1. request[q] \in Request /\ refresh[q] \in Refresh
  OBVIOUS
<1>2. ASSUME NEW k \in Requests,
             (\E t \in Tabs : Send(k, t)) \/ Serve(k) \/ Cancel(k) \/ GiveUp(k)
      PROVE  UNCHANGED refresh /\ (Early(q)' => Early(q))
  <2>1. UNCHANGED refresh
    BY <1>2, RequestMoves
  <2>2. PICK r \in Request :
          /\ request' = [request EXCEPT ![k] = r]
          /\ r.pc \in {"sent", "refused", "over"}
          /\ r.pc = "sent" => request[k].pc = "new"
          /\ r.pc = "refused" => request[k].pc = "sent" /\ ~request[k].retried
    BY <1>2, RequestMoves
  <2> QED  BY <2>1, <2>2 DEF Early
<1>3. ASSUME NEW k \in Requests, Join(k)
      PROVE  UNCHANGED refresh /\ (Early(q)' => Early(q))
  BY <1>1, <1>3 DEF Join, Waits, Early, Request
<1>4. ASSUME NEW k \in Requests, StartRefresh(k)
      PROVE  /\ Early(q)' => Early(q)
             /\ refresh'[q].server # "over" => refresh[q].server # "over" \/ (Early(q) /\ ~Early(q)')
  <2>1. q # k => refresh'[q] = refresh[q] /\ (Early(q)' => Early(q))
    <3>1. q # k => request'[q] = request[q]
      BY <1>4 DEF StartRefresh, Waits
    <3>2. q # k => refresh'[q] = refresh[q]
      BY <1>4 DEF StartRefresh
    <3> QED  BY <3>1, <3>2 DEF Early
  <2>2. q = k => Early(q) /\ ~Early(q)'
    <3>1. q = k => request[q].pc = "refused" /\ request'[q].pc = "waiting"
      BY <1>1, <1>4 DEF StartRefresh, MayRefresh, Waits, Request
    <3> QED  BY <3>1 DEF Early
  <2> QED  BY <2>1, <2>2
<1>5. ASSUME NEW f \in Requests,
             RefreshRead(f) \/ RefreshRotate(f) \/ RefreshStored(f) \/ RefreshLost(f)
      PROVE  UNCHANGED request /\ (refresh'[q].server # "over" => refresh[q].server # "over")
  <2>1. UNCHANGED request
    BY <1>5 DEF RefreshRead, RefreshRotate, RefreshStored, RefreshLost
  <2>2. q # f => refresh'[q] = refresh[q]
    BY <1>5 DEF RefreshRead, RefreshRotate, RefreshStored, RefreshLost
  <2>3. q = f /\ refresh'[q].server # "over" => refresh[q].server # "over"
    BY <1>1, <1>5 DEF RefreshRead, RefreshRotate, RefreshStored, RefreshLost, Refresh
  <2> QED  BY <2>1, <2>2, <2>3
<1>6. ASSUME NEW f \in Requests, Resolve(f)
      PROVE  /\ Early(q)' => Early(q)
             /\ refresh'[q].server # "over" => refresh[q].server # "over"
  <2>1. Early(q)' => Early(q)
    <3>1. q \in Waiters(f) => request'[q] \in {Over, [request[q] EXCEPT !.pc = "sent", !.retried = TRUE,
                                                             !.token = AccessToken]}
      BY <1>6 DEF Resolve
    <3>2. q \in Waiters(f) => ~Early(q)'
      BY <1>1, <3>1 DEF Early, Over, NewRequest, Request
    <3>3. q \notin Waiters(f) => request'[q] = request[q]
      BY <1>6 DEF Resolve
    <3> QED  BY <3>2, <3>3 DEF Early
  <2>2. refresh'[q].server # "over" => refresh[q].server # "over"
    <3>1. q # f => refresh'[q] = refresh[q]
      BY <1>6 DEF Resolve
    <3>2. q = f /\ refresh[q].server = "over" => refresh'[q] = NoRefresh
      BY <1>6 DEF Resolve
    <3> QED  BY <3>1, <3>2 DEF NoRefresh
  <2> QED  BY <2>1, <2>2
<1>7. ASSUME \/ \E t \in Tabs : Leave(t) \/ \E a \in SignIns : BeginSignIn(a, t)
             \/ \E a \in SignIns : Enter(a)
             \/ \E i \in Sessions : RevokeElsewhere(i)
             \/ Expire
      PROVE  UNCHANGED <<request, refresh>>
  BY <1>7 DEF Leave, BeginLogout, SendLogout, EndSession, LogoutStored, BeginSignIn, Enter,
              OpenSession, SignInStored, ShowUser, RevokeElsewhere, Expire
<1>8. UNCHANGED request => (Early(q)' => Early(q))
  BY DEF Early
<1>9. ASSUME NEW k \in Requests,
             \/ \E t \in Tabs : Send(k, t)
             \/ Serve(k) \/ Cancel(k) \/ Handle(k) \/ Travel(k) \/ RefreshLost(k)
      PROVE  /\ Early(q)' => Early(q)
             /\ refresh'[q].server # "over" => refresh[q].server # "over" \/ (Early(q) /\ ~Early(q)')
  <2>1. CASE (\E t \in Tabs : Send(k, t)) \/ Serve(k) \/ Cancel(k) \/ GiveUp(k) \/ Join(k)
    BY <1>2, <1>3, <2>1
  <2>2. CASE StartRefresh(k)
    BY <1>4, <2>2
  <2>3. CASE RefreshRead(k) \/ RefreshRotate(k) \/ RefreshStored(k) \/ RefreshLost(k)
    BY <1>5, <1>8, <2>3
  <2>4. CASE Resolve(k)
    BY <1>6, <2>4
  <2> QED  BY <1>9, <2>1, <2>2, <2>3, <2>4 DEF Handle, Travel
<1>10. CASE UNCHANGED <<request, refresh>>
  BY <1>8, <1>10
<1> QED  BY <1>7, <1>9, <1>10 DEF Next

\* A granted sign-in stays granted.
LEMMA GrantedStays ==
  ASSUME TypeOK, Next, NEW a \in SignIns, Granted(a)
  PROVE  Granted(a)'
<1>1. signIn \in [SignIns -> SignIn]
  BY DEF TypeOK
<1>2. ASSUME NEW b \in SignIns,
             OpenSession(b) \/ SignInStored(b) \/ ShowUser(b) \/ \E t \in Tabs : BeginSignIn(b, t)
      PROVE  Granted(a)'
  BY <1>1, <1>2 DEF OpenSession, SignInStored, ShowUser, BeginSignIn, Granted, SignIn
<1>3. ASSUME NEW q \in Requests,
             \/ \E t \in Tabs : Send(q, t)
             \/ Serve(q) \/ Cancel(q) \/ Handle(q) \/ Travel(q) \/ RefreshLost(q)
      PROVE  UNCHANGED signIn
  BY <1>3 DEF Send, Serve, Cancel, Handle, GiveUp, Join, StartRefresh, RefreshLost, RefreshRead,
              Travel, RefreshStored, Resolve, RefreshRotate
<1>4. ASSUME \/ \E t \in Tabs : Leave(t)
             \/ \E i \in Sessions : RevokeElsewhere(i)
             \/ Expire
      PROVE  UNCHANGED signIn
  BY <1>4 DEF Leave, BeginLogout, SendLogout, EndSession, LogoutStored, RevokeElsewhere, Expire
<1>5. UNCHANGED signIn => Granted(a)'
  BY DEF Granted
<1> QED  BY <1>2, <1>3, <1>4, <1>5 DEF Next, Enter

LEMMA FreshStep ==
  ASSUME TypeOK, Fresh, [Next]_vars
  PROVE  Fresh'
<1>1. CASE UNCHANGED vars
  BY <1>1 DEF vars, Fresh, Granted, Early
<1>2. CASE Next
  <2>1. ASSUME NEW i \in Sessions, session[i].state = "absent", session'[i].state # "absent"
        PROVE  \/ i \in SignIns /\ Granted(i)'
               \/ i \in Requests /\ ~Early(i)' /\ refresh'[i].server = "over"
    <3>1. session \in [Sessions -> Session] /\ signIn \in [SignIns -> SignIn]
      BY DEF TypeOK
    <3>2. ASSUME NEW a \in SignIns, OpenSession(a)
          PROVE  i = a /\ Granted(a)'
      BY <2>1, <3>1, <3>2, Names DEF OpenSession, Granted, SignIn
    <3>3. ASSUME NEW f \in Requests, RefreshRotate(f), Rotates(f)
          PROVE  i = f /\ ~Early(i)' /\ refresh'[i].server = "over"
      <4>1. refresh[f].sent # i
        BY <2>1, <3>3 DEF Rotates, Live
      <4>2. i = f
        BY <2>1, <3>1, <3>3, <4>1 DEF RefreshRotate
      <4>3. refresh[f].server # "over" /\ refresh'[f].server = "over"
        BY <3>3, Parts DEF RefreshRotate, Refresh
      <4>4. ~Early(f)
        BY <4>3 DEF Fresh
      <4> QED  BY <1>2, <4>2, <4>3, <4>4, EarlyShrinks
    <3>4. ASSUME NEW k \in Sessions, NEW by, session[k].state = "live",
                 session' = [session EXCEPT ![k] = Ended(k, by)]
          PROVE  FALSE
      BY <2>1, <3>1, <3>4
    <3> QED  BY <1>2, <2>1, <3>2, <3>3, <3>4, SessionSteps
  <2>2. ASSUME NEW a \in SignIns, ~Granted(a)'
        PROVE  session'[a].state = "absent"
    <3>1. session[a].state = "absent"
      BY <1>2, <2>2, GrantedStays DEF Fresh
    <3>2. a \in Sessions /\ a \notin Requests
      BY Names, SessionClientAssumption
    <3> QED  BY <2>1, <2>2, <3>1, <3>2
  <2>3. ASSUME NEW q \in Requests
        PROVE  /\ Early(q)' => refresh'[q].server = "over"
               /\ Early(q)' \/ refresh'[q].server # "over" => session'[q].state = "absent"
    <3>1. Early(q)' => Early(q)
      BY <1>2, EarlyShrinks
    <3>2. refresh'[q].server # "over" => refresh[q].server # "over" \/ (Early(q) /\ ~Early(q)')
      BY <1>2, EarlyShrinks
    <3>3. Early(q)' => refresh'[q].server = "over"
      BY <3>1, <3>2 DEF Fresh
    <3>4. Early(q)' \/ refresh'[q].server # "over" => session[q].state = "absent"
      BY <3>1, <3>2 DEF Fresh
    <3>5. q \in Sessions /\ q \notin SignIns
      BY Names, SessionClientAssumption
    <3> QED  BY <2>1, <3>3, <3>4, <3>5
  <2> QED  BY <2>2, <2>3 DEF Fresh
<1> QED  BY <1>1, <1>2

LEMMA InitSessions == Init => SessionInv /\ Fresh
<1> SUFFICES ASSUME Init PROVE SessionInv /\ Fresh
  OBVIOUS
<1>1. PICK a \in SignIns :
        /\ session = [i \in Sessions |-> IF i = a THEN LiveSession(a) ELSE NoSession]
        /\ signIn = [b \in SignIns |-> [pc |-> IF b = a THEN "done" ELSE "new", tab |-> None]]
  BY DEF Init
<1>2. /\ \A i \in Sessions : session[i].state = "live" => i = a /\ session[i].login = a
      /\ \A i \in Sessions : i # a => session[i].state = "absent"
      /\ signIn[a].pc = "done"
  BY <1>1, Names DEF LiveSession, NoSession
<1>3. SessionInv
  BY <1>2, InitTyped DEF SessionInv, OneSessionPerSignIn, Owned
<1>4. \A q \in Requests : q # a /\ refresh[q].server = "over"
  BY SessionClientAssumption DEF Init, NoRefresh
<1>5. Fresh
  BY <1>2, <1>4, Names DEF Fresh, Granted
<1> QED  BY <1>3, <1>5

-----------------------------------------------------------------------------
accepted ==
  [a \in SignIns |-> {i \in Sessions : session[i].state = "live" /\ session[i].login = a}]
begun == {i \in Sessions : session[i].state # "absent"}

\* A live session is the whole of its sign-in.
LEMMA OnlyOne ==
  ASSUME SessionInv, NEW i \in Sessions, session[i].state = "live"
  PROVE  /\ session[i].login \in SignIns /\ accepted[session[i].login] = {i}
         /\ \A k \in Sessions :
              session[k].state = "live" /\ session[k].login = session[i].login => k = i
  BY DEF SessionInv, Owned, OneSessionPerSignIn, accepted

\* Every step of a session is a step of Logins or changes nothing it sees.
LEMMA StepReplaces ==
  ASSUME SessionInv, Fresh, Next
  PROVE  Chains!Next \/ UNCHANGED <<accepted, begun>>
<1>0. session \in [Sessions -> Session]
  BY DEF SessionInv, TypeOK
<1>1. ASSUME UNCHANGED session PROVE UNCHANGED <<accepted, begun>>
  BY <1>1 DEF accepted, begun
<1>2. ASSUME NEW a \in SignIns, OpenSession(a) PROVE Chains!Next
  <2>1. a \in Sessions /\ session[a].state = "absent"
        /\ session' = [session EXCEPT ![a] = LiveSession(a)]
        /\ \A i \in Sessions : session[i].state = "live" => session[i].login # a
    BY <1>2, Names DEF Fresh, OpenSession, Granted, SessionInv, Owned
  <2>2. /\ session'[a].state = "live" /\ session'[a].login = a
        /\ \A i \in Sessions : i # a => session'[i] = session[i]
    BY <1>0, <2>1 DEF LiveSession
  <2>3. accepted'[a] = {a}
    BY <2>1, <2>2 DEF accepted
  <2>4. \A b \in SignIns : b # a => accepted'[b] = accepted[b]
    BY <2>1, <2>2 DEF accepted
  <2>5. accepted' = [accepted EXCEPT ![a] = {a}]
    BY <2>3, <2>4 DEF accepted
  <2>6. begun' = begun \cup {a} /\ a \notin begun
    BY <2>1, <2>2 DEF begun
  <2>7. Chains!Open(a)
    BY <2>5, <2>6 DEF Chains!Open, accepted, begun
  <2> QED  BY <2>7 DEF Chains!Next
<1>3. ASSUME NEW i \in Sessions, NEW by, session[i].state = "live",
             session' = [session EXCEPT ![i] = Ended(i, by)]
      PROVE  Chains!Next
  <2>1. PICK a \in SignIns : a = session[i].login
    BY <1>3, OnlyOne
  <2>2. /\ session'[i].state = "ended"
        /\ \A k \in Sessions : k # i => session'[k] = session[k]
    BY <1>0, <1>3 DEF Ended, Session
  <2>3. accepted[a] = {i} /\ accepted'[a] = {}
    BY <1>3, <2>1, <2>2, OnlyOne DEF accepted
  <2>4. \A b \in SignIns : b # a => accepted'[b] = accepted[b]
    BY <1>3, <2>1, <2>2 DEF accepted
  <2>5. accepted' = [accepted EXCEPT ![a] = {}]
    BY <2>3, <2>4 DEF accepted
  <2>6. begun' = begun
    BY <1>3, <2>2 DEF begun
  <2>7. Chains!End(a)
    BY <2>3, <2>5, <2>6 DEF Chains!End, accepted, begun
  <2> QED  BY <2>7 DEF Chains!Next
<1>4. ASSUME NEW f \in Requests, RefreshRotate(f), Rotates(f) PROVE Chains!Next
  <2>1. PICK old \in Sessions : old = refresh[f].sent /\ session[old].state = "live"
    <3>1. refresh[f].sent \in Sessions
      BY <1>4, Parts DEF SessionInv, Rotates, Live, Refresh
    <3> QED  BY <1>4, <3>1 DEF Rotates, Live
  <2>2. PICK a \in SignIns : a = session[old].login
    BY <2>1, OnlyOne
  <2>3. f \in Sessions /\ session[f].state = "absent"
    BY <1>4, Names DEF RefreshRotate, Fresh
  <2>4. session' = [session EXCEPT ![old] = Ended(old, refresh[f].tab), ![f] = LiveSession(a)]
    BY <1>4, <2>1, <2>2 DEF RefreshRotate
  <2>5. /\ session'[f].state = "live" /\ session'[f].login = a /\ f # old
        /\ session'[old].state = "ended"
        /\ \A k \in Sessions : k # f /\ k # old => session'[k] = session[k]
    <3>1. f # old
      BY <2>1, <2>3
    <3>2. Ended(old, refresh[f].tab).state = "ended"
      BY <1>0 DEF Ended, Session
    <3> QED  BY <1>0, <2>3, <2>4, <3>1, <3>2 DEF LiveSession
  <2>6. accepted[a] = {old}
    BY <2>1, <2>2, OnlyOne
  <2>7. accepted'[a] = {f}
    <3>1. \A k \in Sessions : k # f => ~(session'[k].state = "live" /\ session'[k].login = a)
      BY <2>1, <2>2, <2>5, OnlyOne
    <3> QED  BY <2>3, <2>5, <3>1 DEF accepted
  <2>8. \A b \in SignIns : b # a => accepted'[b] = accepted[b]
    BY <2>1, <2>2, <2>3, <2>5 DEF accepted
  <2>9. accepted' = [accepted EXCEPT ![a] = {f}]
    BY <2>7, <2>8 DEF accepted
  <2>10. begun' = begun \cup {f} /\ f \notin begun
    BY <2>1, <2>3, <2>5 DEF begun
  <2>11. Chains!Replace(a, old, f)
    BY <2>6, <2>9, <2>10 DEF Chains!Replace, accepted, begun
  <2>12. old \in accepted[a] /\ f \in Sessions \ begun
    BY <2>3, <2>6, <2>10
  <2> QED  BY <2>11, <2>12 DEF Chains!Next, accepted, begun
<1> QED  BY <1>1, <1>2, <1>3, <1>4, SessionSteps DEF SessionInv

\* Whatever tabs refresh at once, whatever answers are lost or late and whoever logs out
\* meanwhile, the sessions of a sign-in replace each other one by one; none comes back,
\* and none follows the one that was ended.
THEOREM SessionsImplementLogins == Spec => SessionsReplaced
<1>1. Init => Chains!Init
  <2> SUFFICES ASSUME Init PROVE Chains!Init
    OBVIOUS
  <2>1. PICK a \in SignIns :
          session = [i \in Sessions |-> IF i = a THEN LiveSession(a) ELSE NoSession]
    BY DEF Init
  <2>2. accepted = [b \in SignIns |-> IF b = a THEN {a} ELSE {}] /\ begun = {a}
    BY <2>1, Names DEF LiveSession, NoSession, accepted, begun
  <2> QED  BY <2>2 DEF Chains!Init, accepted, begun
<1>2. SessionInv /\ Fresh /\ [Next]_vars => [Chains!Next]_<<accepted, begun>>
  <2>1. ASSUME UNCHANGED vars PROVE UNCHANGED <<accepted, begun>>
    BY <2>1 DEF vars, accepted, begun
  <2> QED  BY <2>1, StepReplaces
<1>3. SessionInv /\ Fresh /\ [Next]_vars => Fresh'
  BY FreshStep DEF SessionInv
<1> QED  BY <1>1, <1>2, <1>3, InitSessions, StepSessions, PTL
            DEF Spec, SessionsReplaced, Chains!Spec, accepted, begun
=============================================================================
