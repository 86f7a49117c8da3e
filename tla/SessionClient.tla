---------------------------- MODULE SessionClient ----------------------------
(***************************************************************************)
(* The browser's side of a session, frontend/src/api/client.ts, against    *)
(* the refresh sessions of backend/modules/identity_access: tabs that      *)
(* share one cookie jar send requests; a 401 makes a tab refresh the       *)
(* session once for all its requests and send them again; users log out    *)
(* and sign in meanwhile.                                                  *)
(*                                                                         *)
(* A step is a run of a tab's event loop, a database transaction, or the   *)
(* moment the browser stores an answer's cookies. An access token names    *)
(* its session and is refused once that has ended. A session is called     *)
(* after the sign-in or the request whose refresh created it.              *)
(***************************************************************************)
EXTENDS Integers

CONSTANTS Tabs,      \* tabs of one browser, each with the module state of client.ts
          Requests,  \* calls of apiFetch, apiFetchStream and apiUpload, each made once
          SignIns,   \* sign-ins, each made once
          MaxFaults  \* bound: tokens that run out, calls that are aborted, answers
                     \* that are lost and sessions revoked elsewhere

ASSUME SessionClientAssumption ==
  /\ MaxFaults \in Nat /\ Requests \cap SignIns = {}
  /\ "none" \notin Requests \cup SignIns \cup Tabs /\ "elsewhere" \notin Tabs

VARIABLES session,  \* refresh_sessions
          jar,      \* the browser's cookies: refresh session, and whether the access token is fresh
          tab,      \* per tab refreshPromise, authSessionGeneration, and whom it is signed in as
          request,  \* local state of every request
          refresh,  \* the refresh a request has begun
          signIn,   \* local state of every sign-in
          leaving,  \* local state of every tab's logout
          faults    \* faults so far

vars == <<session, jar, tab, request, refresh, signIn, leaving, faults>>

None == "none"
Sessions == SignIns \cup Requests
Elsewhere == "elsewhere"

\* by records who ended the session: more than is_revoked does.
Session == [state : {"absent", "live", "ended"}, login : SignIns \cup {None},
            by : Tabs \cup {None, Elsewhere}]
Jar == [session : Sessions \cup {None}, fresh : BOOLEAN]

\* user is the sign-in by which authSessionActive was last set, None while it is not: the
\* user a tab shows may differ, as the identity's own fetch sets it (see ClientCache).
\* refreshPromiseGeneration is the promise's generation.
Tab == [user : SignIns \cup {None}, generation : Nat, promise : Requests \cup {None}]

\* token is the session of the access token sent, flight the refresh waited for,
\* generation the tab's when the 401 was handled: nothing in the code reads it.
Request == [pc : {"new", "sent", "refused", "waiting", "over"},
            tab : Tabs \cup {None}, token : Sessions \cup {None}, retried : BOOLEAN,
            flight : Requests \cup {None}, generation : Nat]
Refresh == [pending : BOOLEAN, tab : Tabs \cup {None}, generation : Nat,
            sent : Sessions \cup {None}, server : {"sent", "read", "over"},
            answer : {"none", "granted", "stored", "refused", "lost"}]
SignIn == [pc : {"new", "sent", "granted", "stored", "done"}, tab : Tabs \cup {None}]
Leaving == [pc : {"none", "begun", "sent", "revoked"}, sent : Sessions \cup {None}]

NoSession == [state |-> "absent", login |-> None, by |-> None]
LiveSession(a) == [state |-> "live", login |-> a, by |-> None]
NewRequest == [pc |-> "new", tab |-> None, token |-> None, retried |-> FALSE,
               flight |-> None, generation |-> 0]
Over == [NewRequest EXCEPT !.pc = "over"]
NoRefresh == [pending |-> FALSE, tab |-> None, generation |-> 0, sent |-> None,
              server |-> "over", answer |-> "none"]
NoLogout == [pc |-> "none", sent |-> None]

\* Every tab is signed in as the first sign-in, whose access token may have run out.
Init ==
  /\ \E a \in SignIns :
       /\ session = [i \in Sessions |-> IF i = a THEN LiveSession(a) ELSE NoSession]
       /\ jar \in [session : {a}, fresh : BOOLEAN]
       /\ tab = [t \in Tabs |-> [user |-> a, generation |-> 0, promise |-> None]]
       /\ signIn = [b \in SignIns |-> [pc |-> IF b = a THEN "done" ELSE "new", tab |-> None]]
  /\ request = [q \in Requests |-> NewRequest]
  /\ refresh = [q \in Requests |-> NoRefresh]
  /\ leaving = [t \in Tabs |-> NoLogout]
  /\ faults = 0

Live(i) == i # None /\ session[i].state = "live"
Active(t) == tab[t].user # None
-----------------------------------------------------------------------------
(* Faults the checks must notice, each named for the definition it         *)
(* resembles.                                                              *)

SharesNothing(t) == FALSE
CurrentIfActive(f) == Active(refresh[f].tab)
RotatesUnchecked(f) == TRUE
WaitersOfShared(f) ==
  {q \in Requests : request[q].pc = "waiting" /\ request[q].flight = f
                    /\ tab[refresh[f].tab].promise = f}
-----------------------------------------------------------------------------
(* Requests                                                                *)

\* The access token that goes with a request; one that has run out is as good as none.
AccessToken == IF jar.fresh THEN jar.session ELSE None

Send(q, t) ==
  /\ request[q].pc = "new"
  /\ request' = [request EXCEPT ![q].pc = "sent", ![q].tab = t, ![q].token = AccessToken]
  /\ UNCHANGED <<session, jar, tab, refresh, signIn, leaving, faults>>

\* get_current_user: the session named by the token must be live. A second 401 is final.
Serve(q) ==
  /\ request[q].pc = "sent"
  /\ request' = IF Live(request[q].token) \/ request[q].retried
                THEN [request EXCEPT ![q] = Over]
                ELSE [request EXCEPT ![q].pc = "refused"]
  /\ UNCHANGED <<session, jar, tab, refresh, signIn, leaving, faults>>

\* The caller aborts, or the tab's queries are cancelled; a shared refresh goes on.
Cancel(q) ==
  /\ faults < MaxFaults /\ faults' = faults + 1
  /\ request[q].pc \in {"sent", "refused", "waiting"}
  /\ request' = [request EXCEPT ![q] = Over]
  /\ UNCHANGED <<session, jar, tab, refresh, signIn, leaving>>

\* There is a refresh to share: refreshPromise, of the current generation.
Shares(t) ==
  tab[t].promise # None /\ refresh[tab[t].promise].generation = tab[t].generation

\* refreshForRetry after a 401, up to its await.
GiveUp(q) ==
  /\ request[q].pc = "refused" /\ ~Active(request[q].tab)
  /\ request' = [request EXCEPT ![q] = Over]
  /\ UNCHANGED <<session, jar, tab, refresh, signIn, leaving, faults>>

MayRefresh(q) == request[q].pc = "refused" /\ Active(request[q].tab)

Waits(q, f) ==
  request' = [request EXCEPT ![q].pc = "waiting", ![q].flight = f,
                             ![q].generation = tab[request[q].tab].generation]

Join(q) ==
  LET t == request[q].tab
  IN /\ MayRefresh(q) /\ Shares(t)
     /\ Waits(q, tab[t].promise)
     /\ UNCHANGED <<session, jar, tab, refresh, signIn, leaving, faults>>

StartRefresh(q) ==
  LET t == request[q].tab
  IN /\ MayRefresh(q) /\ ~Shares(t)
     /\ Waits(q, q)
     /\ refresh' = [refresh EXCEPT ![q] =
          [pending |-> TRUE, tab |-> t, generation |-> tab[t].generation,
           sent |-> jar.session, server |-> "sent", answer |-> "none"]]
     /\ tab' = [tab EXCEPT ![t].promise = q]
     /\ UNCHANGED <<session, jar, signIn, leaving, faults>>
-----------------------------------------------------------------------------
(* IdentityService.refresh, and the way of its answer                      *)

\* What the server answers, if anybody still listens.
Answered(f, answer) == IF refresh[f].answer = "none" THEN answer ELSE refresh[f].answer

\* get_refresh_session_by_hash, and the checks of what it found.
RefreshRead(f) ==
  /\ refresh[f].pending /\ refresh[f].server = "sent"
  /\ refresh' = IF Live(refresh[f].sent)
                THEN [refresh EXCEPT ![f].server = "read"]
                ELSE [refresh EXCEPT ![f].server = "over", ![f].answer = Answered(f, "refused")]
  /\ UNCHANGED <<session, jar, tab, request, signIn, leaving, faults>>

\* The compare-and-set of rotate_refresh_session finds the session unrevoked.
Rotates(f) == Live(refresh[f].sent)

Ended(i, by) == [session[i] EXCEPT !.state = "ended", !.by = by]

\* The rest of the transaction: the old session ends and a new one begins, or neither.
RefreshRotate(f) ==
  LET old == refresh[f].sent
  IN /\ refresh[f].server = "read"
     /\ IF Rotates(f)
        THEN /\ session' = [session EXCEPT ![old] = Ended(old, refresh[f].tab),
                                           ![f] = LiveSession(session[old].login)]
             /\ refresh' = [refresh EXCEPT ![f].server = "over", ![f].answer = Answered(f, "granted")]
        ELSE /\ refresh' = [refresh EXCEPT ![f].server = "over", ![f].answer = Answered(f, "refused")]
             /\ UNCHANGED session
     /\ UNCHANGED <<jar, tab, request, signIn, leaving, faults>>

\* The answer's cookies are stored, whoever has signed in or out meanwhile.
RefreshStored(f) ==
  /\ refresh[f].pending /\ refresh[f].answer = "granted"
  /\ jar' = [session |-> f, fresh |-> TRUE]
  /\ refresh' = [refresh EXCEPT ![f].answer = "stored"]
  /\ UNCHANGED <<session, tab, request, signIn, leaving, faults>>

\* The call fails on its way, or the client's timeout ends it.
RefreshLost(f) ==
  /\ faults < MaxFaults /\ faults' = faults + 1
  /\ refresh[f].pending /\ refresh[f].answer \in {"none", "granted"}
  /\ refresh' = [refresh EXCEPT ![f].answer = "lost"]
  /\ UNCHANGED <<session, jar, tab, request, signIn, leaving>>

\* The tab is still in the session in which the refresh began.
Current(f) ==
  LET t == refresh[f].tab IN Active(t) /\ refresh[f].generation = tab[t].generation

Waiters(f) == {q \in Requests : request[q].pc = "waiting" /\ request[q].flight = f}

\* finally: the shared promise is forgotten, unless another took its place.
PromiseAfter(f) ==
  LET p == tab[refresh[f].tab].promise IN IF p = f THEN None ELSE p

\* The tab learns of the answer: a refresh that failed expires the session it was made
\* for; who waited for it fails, or is sent again.
Resolve(f) ==
  LET t == refresh[f].tab
      succeeded == refresh[f].answer = "stored"
  IN /\ refresh[f].pending /\ refresh[f].answer \in {"stored", "refused", "lost"}
     /\ refresh' = [refresh EXCEPT ![f] =
          IF @.server = "over" THEN NoRefresh ELSE [@ EXCEPT !.pending = FALSE]]
     /\ tab' = [tab EXCEPT ![t] =
          IF ~succeeded /\ Current(f)
          THEN [user |-> None, generation |-> @.generation + 1, promise |-> PromiseAfter(f)]
          ELSE [@ EXCEPT !.promise = PromiseAfter(f)]]
     /\ request' = [q \in Requests |->
          IF q \notin Waiters(f) THEN request[q]
          ELSE IF succeeded /\ Current(f)
          THEN [request[q] EXCEPT !.pc = "sent", !.retried = TRUE, !.token = AccessToken]
          ELSE Over]
     /\ UNCHANGED <<session, jar, signIn, leaving, faults>>
-----------------------------------------------------------------------------
(* Logout, sign-in, and the rest of the world                              *)

\* beginAuthLogout; the shared promise stays, under a generation that is over. One
\* logout of a tab at a time.
BeginLogout(t) ==
  /\ Active(t) /\ leaving[t].pc = "none"
  /\ tab' = [tab EXCEPT ![t].user = None, ![t].generation = @ + 1]
  /\ leaving' = [leaving EXCEPT ![t].pc = "begun"]
  /\ UNCHANGED <<session, jar, request, refresh, signIn, faults>>

\* Once the queries are cancelled the request is sent.
SendLogout(t) ==
  /\ leaving[t].pc = "begun"
  /\ leaving' = [leaving EXCEPT ![t] = [pc |-> "sent", sent |-> jar.session]]
  /\ UNCHANGED <<session, jar, tab, request, refresh, signIn, faults>>

\* IdentityService.logout.
EndSession(t) ==
  LET i == leaving[t].sent
  IN /\ leaving[t].pc = "sent"
     /\ session' = IF Live(i) THEN [session EXCEPT ![i] = Ended(i, t)] ELSE session
     /\ leaving' = [leaving EXCEPT ![t].pc = "revoked"]
     /\ UNCHANGED <<jar, tab, request, refresh, signIn, faults>>

\* The answer clears the cookies, or does not arrive.
LogoutStored(t) ==
  /\ leaving[t].pc = "revoked"
  /\ \/ jar' = [session |-> None, fresh |-> FALSE] /\ UNCHANGED faults
     \/ faults < MaxFaults /\ faults' = faults + 1 /\ UNCHANGED jar
  /\ leaving' = [leaving EXCEPT ![t] = NoLogout]
  /\ UNCHANGED <<session, tab, request, refresh, signIn>>

\* The form of a tab in which nobody is signed in, submitted once at a time.
BeginSignIn(a, t) ==
  /\ signIn[a].pc = "new" /\ ~Active(t) /\ leaving[t].pc # "begun"
  /\ \A b \in SignIns : signIn[b].tab = t => signIn[b].pc = "done"
  /\ signIn' = [signIn EXCEPT ![a] = [pc |-> "sent", tab |-> t]]
  /\ UNCHANGED <<session, jar, tab, request, refresh, leaving, faults>>

\* IdentityService.sign_in; older sessions stay.
OpenSession(a) ==
  /\ signIn[a].pc = "sent"
  /\ session' = [session EXCEPT ![a] = LiveSession(a)]
  /\ signIn' = [signIn EXCEPT ![a].pc = "granted"]
  /\ UNCHANGED <<jar, tab, request, refresh, leaving, faults>>

SignInStored(a) ==
  /\ signIn[a].pc = "granted"
  /\ jar' = [session |-> a, fresh |-> TRUE]
  /\ signIn' = [signIn EXCEPT ![a].pc = "stored"]
  /\ UNCHANGED <<session, tab, request, refresh, leaving, faults>>

\* setAuthenticated: markAuthSessionActive.
ShowUser(a) ==
  LET t == signIn[a].tab
  IN /\ signIn[a].pc = "stored"
     /\ tab' = [tab EXCEPT ![t].user = a, ![t].generation = @ + 1]
     /\ signIn' = [signIn EXCEPT ![a].pc = "done"]
     /\ UNCHANGED <<session, jar, request, refresh, leaving, faults>>

\* The access token runs out.
Expire ==
  /\ faults < MaxFaults /\ faults' = faults + 1
  /\ jar.fresh /\ jar' = [jar EXCEPT !.fresh = FALSE]
  /\ UNCHANGED <<session, tab, request, refresh, signIn, leaving>>

\* Another device revokes a session, or its own user ends it by other means than a
\* logout (a changed password, the list of sessions), or it is too old.
RevokeElsewhere(i) ==
  /\ faults < MaxFaults /\ faults' = faults + 1
  /\ session[i].state = "live"
  /\ session' = [session EXCEPT ![i] = Ended(i, Elsewhere)]
  /\ UNCHANGED <<jar, tab, request, refresh, signIn, leaving>>
-----------------------------------------------------------------------------
Handle(q) == GiveUp(q) \/ Join(q) \/ StartRefresh(q)
Travel(f) == RefreshRead(f) \/ RefreshRotate(f) \/ RefreshStored(f) \/ Resolve(f)
Leave(t) == BeginLogout(t) \/ SendLogout(t) \/ EndSession(t) \/ LogoutStored(t)
Enter(a) == OpenSession(a) \/ SignInStored(a) \/ ShowUser(a)

Next ==
  \/ \E q \in Requests : \/ \E t \in Tabs : Send(q, t)
                         \/ Serve(q) \/ Cancel(q) \/ Handle(q) \/ Travel(q) \/ RefreshLost(q)
  \/ \E t \in Tabs : Leave(t) \/ \E a \in SignIns : BeginSignIn(a, t)
  \/ \E a \in SignIns : Enter(a)
  \/ \E i \in Sessions : RevokeElsewhere(i)
  \/ Expire

Spec == Init /\ [][Next]_vars

-----------------------------------------------------------------------------
(* Properties                                                              *)

\* A request under way belongs to a tab.
WellPlaced(r) == r.pc \in {"sent", "refused", "waiting"} => r.tab \in Tabs

\* The state is well formed.
TypeOK ==
  /\ session \in [Sessions -> Session]
  /\ jar \in Jar
  /\ tab \in [Tabs -> Tab]
  /\ request \in [Requests -> Request]
  /\ \A q \in Requests : WellPlaced(request[q])
  /\ refresh \in [Requests -> Refresh]
  /\ signIn \in [SignIns -> SignIn]
  /\ leaving \in [Tabs -> Leaving]
  /\ faults \in Nat

\* README.md, "a single shared refresh operation": whatever 401s, logouts and sign-ins
\* come in between, a tab has one refresh under way for each generation.
SingleFlight ==
  \A f, g \in Requests :
    /\ refresh[f].pending /\ refresh[g].pending
    /\ refresh[f].tab = refresh[g].tab /\ refresh[f].generation = refresh[g].generation
    => f = g

\* No request waits for ever: the refresh it waits for is one of its tab and under way,
\* whatever logout, sign-in or newer refresh has come in between.
NobodyStranded ==
  \A q \in Requests : request[q].pc = "waiting" =>
    \E f \in Requests : request[q].flight = f /\ refresh[f].pending
                        /\ refresh[f].tab = request[q].tab

\* Rotation is exclusive: tabs that refresh at once, lost answers and logouts leave
\* at most one live session of every sign-in.
OneSessionPerSignIn ==
  \A i, k \in Sessions :
    session[i].state = "live" /\ session[k].state = "live" /\ session[i].login = session[k].login
      => i = k

\* client.refresh.test.ts, "does not retry queued callers after logout wins the race",
\* and not after the next sign-in either: who waits for a refresh is sent again only
\* while the tab is in the session in which it was refused. That session is the tab's
\* own idea: which user's cookies the retry carries is not said, as another tab may have
\* signed in as somebody else, or a late refresh have stored its answer, in one jar.
RetriedInItsSession ==
  [][\A q \in Requests :
       request[q].pc = "waiting" /\ request'[q].pc = "sent" =>
         LET t == request[q].tab
         IN tab[t].user # None /\ request[q].generation = tab[t].generation]_vars

\* README.md, the refresh comes "before declaring the browser session expired": a tab
\* never brings that about itself. If the server refuses the session it refreshes, and
\* the tab's user is told so, that session was replaced or ended by another tab, from
\* another device, or by its user otherwise than with this tab's logout.
NeverRacesItself ==
  [][\A f \in Requests :
       /\ refresh[f].pending /\ ~refresh'[f].pending /\ refresh[f].answer = "refused"
       /\ tab[refresh[f].tab].user # None /\ tab'[refresh[f].tab].user = None
       /\ refresh[f].sent # None
       => session[refresh[f].sent].by # refresh[f].tab]_vars

\* The server's side implements Logins: the sessions of a sign-in read off the table.
Chains == INSTANCE Logins WITH
  live <- [a \in SignIns |-> {i \in Sessions : session[i].state = "live" /\ session[i].login = a}],
  used <- {i \in Sessions : session[i].state # "absent"}

\* However tabs refresh at once, answers are lost or late, and users log out meanwhile,
\* a sign-in's sessions replace each other one by one, none comes back, and none
\* follows the one that was ended by a logout or from elsewhere.
SessionsReplaced == Chains!Spec

=============================================================================
