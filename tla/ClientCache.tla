--------------------------- MODULE ClientCache ---------------------------
(***************************************************************************)
(* The server data one browser tab holds (src/frontend/src): the query     *)
(* cache, the mutations that write to it before and after the server       *)
(* answers, and what a logout, an expired session and a sign-in do to it.  *)
(* Whom the tab shows as signed in is itself a fetched query, auth.me.     *)
(* Other tabs are left out: the cookies are changed by this one only.      *)
(*                                                                         *)
(* The cache is TanStack Query 5 and is external: a query's fetch, its     *)
(* cancellation (which puts back the invalid mark the fetch found), its    *)
(* invalidation (which restarts the fetch of an observed query, or joins   *)
(* the one that is running when the query has no data yet) and its direct  *)
(* update are modelled from how the code in src/ uses them.                *)
(*                                                                         *)
(* A list is the set of the calls whose effect it shows: `server[u][k]' is *)
(* what the server holds for a user, `entry[k].value' what the tab shows   *)
(* under the key. A handler (onMutate, onSuccess, onError, onSettled) awaits *)
(* nothing but the cancellation of fetches, so it is one step.             *)
(***************************************************************************)
EXTENDS Naturals, FiniteSets

CONSTANTS
    Users,          \* the users who sign in on this tab
    Calls,          \* the mutations sent, one request each
    Keys,           \* the query keys of the instance
    Hooks,          \* the mutations of the instance, by name
    Screens,        \* the sets of keys that the routes observe together
    Signalled,      \* the keys whose query function takes the abort signal
    MaxEvents,      \* bound on mutations, sign-ins, failed fetches and repeated
                    \* fetches of the identity, all together
    NoUser

-----------------------------------------------------------------------------
(* The mutations: which fetches onMutate cancels, which entries it writes,  *)
(* whether it also writes an entry that has no data, which entries          *)
(* onSuccess stores into (one item, or the whole list of the answer), and   *)
(* what is invalidated on success and once the call is settled.             *)

Optimistic(cancelled, written, onEmpty, settled) ==
    [cancels |-> cancelled, writes |-> written, creates |-> onEmpty,
     stores |-> {}, whole |-> FALSE, succeeded |-> {}, settled |-> settled]

Stored(key, all, invalidated) ==
    [cancels |-> {}, writes |-> {}, creates |-> FALSE,
     stores |-> {key}, whole |-> all, succeeded |-> invalidated, settled |-> {}]

\* The keys under the prefix ["notifications"].
NotificationKeys == {"notifications", "unread", "preferences"}

\* A fault the checks must notice: only what was written is settled.
MarkSettlingWritten ==
    Optimistic(NotificationKeys, {"notifications", "unread"}, TRUE, {"notifications", "unread"})

Mark == Optimistic(NotificationKeys, {"notifications", "unread"}, TRUE, NotificationKeys)

SetPreferences == Optimistic({"preferences"}, {"preferences"}, TRUE, {"preferences"})

ToggleUser == Optimistic({"users"}, {"users"}, FALSE, {"users"})

ToggleWebhook == Optimistic({"webhooks"}, {"webhooks"}, FALSE, {"webhooks"})

UpdateFlag == Optimistic({"flags"}, {"flags"}, FALSE, {"flags"})

ReorderTasks ==
    [Optimistic({"tasks"}, {"tasks"}, TRUE, {"tasks"}) EXCEPT
        !.stores = {"tasks"}, !.whole = TRUE]

CreateTask == Stored("tasks", FALSE, {"tasks"})

ChangeTask == Stored("tasks", FALSE, {})

SaveConfig == Stored("config", TRUE, {})

Hook ==
    [markRead |-> Mark, markAllRead |-> Mark, setPreferences |-> SetPreferences,
     toggleUser |-> ToggleUser, toggleWebhook |-> ToggleWebhook,
     updateFlag |-> UpdateFlag, reorderTasks |-> ReorderTasks,
     createTask |-> CreateTask, updateTask |-> ChangeTask,
     deleteTask |-> ChangeTask, saveConfig |-> SaveConfig]

\* The mutations of an item: its row is on display (a count has no rows).
OfARow == {"markRead", "toggleUser", "toggleWebhook", "updateFlag", "reorderTasks",
           "updateTask", "deleteTask"}

ASSUME CacheAssumption ==
    /\ Hooks \subseteq DOMAIN Hook
    /\ Screens \subseteq SUBSET Keys
    /\ Signalled \subseteq Keys
    /\ MaxEvents \in Nat
    /\ NoUser \notin Users

-----------------------------------------------------------------------------
VARIABLES
    user,           \* the data of auth.me: whom the tab shows as signed in
    jar,            \* whose session the browser's cookies hold
    active,         \* authSessionActive
    leaving,        \* whether a logout request has no answer yet
    identity,       \* whose cookies the running fetch of auth.me carries
    mounted,        \* the keys that the screens on display observe
    entry,          \* the cached query of each key
    fetch,          \* the fetch that is running for each key
    call,           \* the mutations
    server,         \* what the server holds for each user, under each key
    events,         \* how many of the bounded events there were
    failed,         \* history: whether a fetch has failed
    doubtful        \* history: keys an answer may have left out of date

session == <<user, jar, active, leaving, identity>>

counts == <<events, failed>>

vars == <<session, mounted, entry, fetch, call, server, counts, doubtful>>

Entry == [st : {"absent", "empty", "data"}, owner : Users \cup {NoUser},
          value : SUBSET Calls, invalid : BOOLEAN, from : {"none", "fetch", "mutation"}]

Absent == [st |-> "absent", owner |-> NoUser, value |-> {}, invalid |-> FALSE, from |-> "none"]

Empty == [Absent EXCEPT !.st = "empty"]

Fetch == [st : {"none", "asked", "read"}, owner : Users \cup {NoUser},
          value : SUBSET Calls, before : BOOLEAN]

NoFetch == [st |-> "none", owner |-> NoUser, value |-> {}, before |-> FALSE]

Call == [st : {"idle", "sent", "applied", "abandoned", "over"},
         hook : Hooks \cup {"none"}, user : Users \cup {NoUser},
         snap : [Keys -> Entry], answer : SUBSET Calls]

NewCall == [st |-> "idle", hook |-> "none", user |-> NoUser,
            snap |-> [k \in Keys |-> Absent], answer |-> {}]

OverCall == [NewCall EXCEPT !.st = "over"]

Pending(c) == call[c].st \in {"sent", "applied"}

HasData(k) == entry[k].st = "data"

Running(k) == fetch[k].st # "none"

-----------------------------------------------------------------------------
(* What the library does to one query.  A pair [entry, fetch] of a key.     *)

Query(k) == [entry |-> entry[k], fetch |-> fetch[k]]

\* A query without a fetch begins one, with the cookies there are; one that
\* fetches goes on with it. Without a session the request is refused, which
\* marks data that is shown as invalid.
Ask(q) ==
    LET kept == IF q.entry.st = "absent" THEN Empty ELSE q.entry
    IN  IF q.fetch.st # "none" THEN q
        ELSE IF jar = NoUser
        THEN [q EXCEPT !.entry = [kept EXCEPT !.invalid = kept.st = "data"]]
        ELSE [entry |-> kept,
              fetch |-> [st |-> "asked", owner |-> jar, value |-> {},
                         before |-> q.entry.invalid]]

\* cancelQueries: the fetch is dropped, its query is as it was before it.
CancelFetch(q) ==
    IF q.fetch.st = "none" THEN q
    ELSE [entry |-> [q.entry EXCEPT !.invalid = q.fetch.before], fetch |-> NoFetch]

\* setQueryData: the data is new, and a later cancellation keeps it.
SetData(q, value, owner, from) ==
    [entry |-> [st |-> "data", owner |-> owner, value |-> value, invalid |-> FALSE, from |-> from],
     fetch |-> [q.fetch EXCEPT !.before = FALSE]]

\* invalidateQueries: an observed query is fetched again at once.  A running
\* fetch is replaced, except the first one of a query that has no data.
Invalidate(q, observed) ==
    CASE q.entry.st = "absent" -> q
      [] q.entry.st = "empty"  -> IF observed THEN Ask(q) ELSE q
      [] q.entry.st = "data"   ->
            LET marked == [q.entry EXCEPT !.invalid = TRUE]
            IN  IF observed THEN Ask([entry |-> marked, fetch |-> NoFetch])
                            ELSE [q EXCEPT !.entry = marked]

\* All keys take their new query.
Become(queries) ==
    /\ entry' = [k \in Keys |-> queries[k].entry]
    /\ fetch' = [k \in Keys |-> queries[k].fetch]

-----------------------------------------------------------------------------
(* Mutations.                                                               *)

\* One more of the events that are bounded.
OneMore == events < MaxEvents /\ events' = events + 1

\* The keys a mutation's handlers put data under.
Touches(h) == Hook[h].writes \cup Hook[h].stores

\* The entry that onMutate writes: the cached one with the call's effect, or
\* one made from nothing.
Wrote(c, h, k) ==
    LET q == CancelFetch(Query(k))
    IN  IF HasData(k)
        THEN SetData(q, entry[k].value \cup {c}, entry[k].owner, entry[k].from)
        ELSE IF Hook[h].creates THEN SetData(q, {c}, user, "mutation") ELSE q

\* mutate(): onMutate, then the request is sent.
Start(c, h) ==
    LET begun == [k \in Keys |->
            IF k \in Hook[h].writes THEN Wrote(c, h, k)
            ELSE IF k \in Hook[h].cancels THEN CancelFetch(Query(k))
            ELSE Query(k)]
    IN  /\ call[c].st = "idle"
        /\ user # NoUser /\ OneMore
        /\ Touches(h) \cap Keys # {} /\ Touches(h) \cap Keys \subseteq mounted
        /\ h \in OfARow => \A k \in (Touches(h) \cap Keys) \ {"unread"} : HasData(k)
        /\ call' = [call EXCEPT ![c] =
                [st |-> "sent", hook |-> h, user |-> jar, answer |-> {},
                 snap |-> [k \in Keys |-> IF k \in Hook[h].writes THEN entry[k] ELSE Absent]]]
        /\ Become(begun)
        /\ UNCHANGED <<session, mounted, server, failed, doubtful>>

\* What the server holds once it has applied a call.
Held(c) ==
    [server EXCEPT ![call[c].user] =
        [k \in Keys |-> @[k] \cup IF k \in Touches(call[c].hook) THEN {c} ELSE {}]]

\* The server applies the call; its answer carries the list that was changed.
\* One that carries no session is refused.
Serve(c) ==
    /\ call[c].st = "sent" /\ call[c].user # NoUser
    /\ server' = Held(c)
    /\ call' = [call EXCEPT
            ![c].st = "applied",
            ![c].answer = UNION {Held(c)[call[c].user][k] : k \in Hook[call[c].hook].stores \cap Keys}]
    /\ UNCHANGED <<session, mounted, entry, fetch, counts, doubtful>>

\* A call that the tab has given up is applied all the same.
ServeLate(c) ==
    /\ call[c].st = "abandoned" /\ call[c].user # NoUser
    /\ server' = Held(c)
    /\ call' = [call EXCEPT ![c] = OverCall]
    /\ doubtful' = doubtful \cup (Touches(call[c].hook) \cap Keys)
    /\ UNCHANGED <<session, mounted, entry, fetch, counts>>

\* onSuccess: the answer is stored, then invalidations; onSettled's follow.
Succeeded(c, k) ==
    LET h == Hook[call[c].hook]
        kept == IF k \notin h.stores THEN Query(k)
                ELSE SetData(Query(k),
                        IF h.whole THEN call[c].answer
                        ELSE entry[k].value \cup {c},
                        IF HasData(k) /\ ~h.whole THEN entry[k].owner ELSE call[c].user,
                        "mutation")
    IN  IF k \in h.succeeded \cup h.settled THEN Invalidate(kept, k \in mounted) ELSE kept

\* A fault: a call that failed is not settled.
FailedUnsettled(c, k) ==
    LET snap == call[c].snap[k]
    IN  IF snap.st = "data" THEN SetData(Query(k), snap.value, snap.owner, "mutation")
        ELSE Query(k)

\* onError: what onMutate found is put back, if it found data; then onSettled.
Failed(c, k) ==
    LET h == Hook[call[c].hook]
        snap == call[c].snap[k]
        restored == IF snap.st = "data"
                    THEN SetData(Query(k), snap.value, snap.owner, "mutation") ELSE Query(k)
    IN  IF k \in h.settled THEN Invalidate(restored, k \in mounted) ELSE restored

\* The answer of a call, whoever is signed in by then: clearing the mutation
\* cache forgets the mutation, its handlers run all the same.
AnswerSuccess(c) ==
    /\ call[c].st = "applied"
    /\ Become([k \in Keys |-> Succeeded(c, k)])
    /\ call' = [call EXCEPT ![c] = OverCall]
    /\ UNCHANGED <<session, mounted, server, counts, doubtful>>

\* A refusal, an answer that is lost, or a request that times out before the
\* server applies it.  A refused call stays abandoned.
AnswerError(c) ==
    /\ Pending(c)
    /\ Become([k \in Keys |-> Failed(c, k)])
    /\ call' = [call EXCEPT ![c] =
            IF call[c].st = "sent"
            THEN [NewCall EXCEPT !.st = "abandoned", !.hook = call[c].hook,
                                 !.user = call[c].user]
            ELSE OverCall]
    /\ UNCHANGED <<session, mounted, server, counts, doubtful>>

-----------------------------------------------------------------------------
(* Fetches.                                                                 *)

\* An interval, a reconnection, data that is stale when it is mounted, or a
\* screen rendered again asks for a key on display that is not being fetched.
Refetch(k) ==
    /\ k \in mounted /\ ~Running(k)
    /\ entry' = [entry EXCEPT ![k] = Ask(Query(k)).entry]
    /\ fetch' = [fetch EXCEPT ![k] = Ask(Query(k)).fetch]
    /\ UNCHANGED <<session, mounted, call, server, counts, doubtful>>

\* The server reads the list that the answer will carry.
Read(k) ==
    /\ fetch[k].st = "asked"
    /\ fetch' = [fetch EXCEPT ![k].st = "read", ![k].value = server[fetch[k].owner][k]]
    /\ UNCHANGED <<session, mounted, entry, call, server, counts, doubtful>>

Arrive(k) ==
    /\ fetch[k].st = "read"
    /\ entry' = [entry EXCEPT ![k] = [st |-> "data", owner |-> fetch[k].owner,
                                      value |-> fetch[k].value, invalid |-> FALSE,
                                      from |-> "fetch"]]
    /\ fetch' = [fetch EXCEPT ![k] = NoFetch]
    /\ UNCHANGED <<session, mounted, call, server, counts, doubtful>>

\* The fetch and its retry fail: data that is shown is marked as invalid.
FetchFails(k) ==
    /\ Running(k) /\ OneMore
    /\ entry' = [entry EXCEPT ![k].invalid = HasData(k)]
    /\ fetch' = [fetch EXCEPT ![k] = NoFetch]
    /\ failed' = TRUE
    /\ UNCHANGED <<session, mounted, call, server, doubtful>>

-----------------------------------------------------------------------------
(* Screens and sessions.                                                    *)

\* A key no longer observed: its fetch ends if it takes the abort signal.
Left(k) == IF k \in Signalled THEN CancelFetch(Query(k)) ELSE Query(k)

LeftRunning(k) == Running(k) /\ k \notin Signalled

\* Another route: what it observes for the first time is fetched if it is
\* missing or invalid.  A fetch because the data is stale is a Refetch.
Navigate(S) ==
    LET seen == [k \in Keys |->
            CASE k \in mounted \ S -> Left(k)
              [] k \in S \ mounted ->
                    IF ~HasData(k) \/ entry[k].invalid THEN Ask(Query(k)) ELSE Query(k)
              [] OTHER -> Query(k)]
    IN  /\ user # NoUser
        /\ S # mounted
        /\ mounted' = S
        /\ Become(seen)
        /\ doubtful' = doubtful \cup {k \in mounted \ S : LeftRunning(k)}
        /\ UNCHANGED <<session, call, server, counts>>

\* clearUserScopedQueryState: fetches are cancelled and every query but the
\* identity's is removed.
Cleared ==
    /\ entry' = [k \in Keys |-> Absent]
    /\ fetch' = [k \in Keys |-> NoFetch]
    /\ doubtful' = doubtful \cup
            UNION {Touches(call[c].hook) \cap Keys : c \in {d \in Calls : Pending(d)}}

\* logout(): the cache is cleared, then the identity, then the request is sent.
\* One logout is under way at a time.
Logout ==
    /\ user # NoUser /\ ~leaving
    /\ leaving' = TRUE
    /\ user' = NoUser /\ active' = FALSE
    /\ Cleared
    /\ UNCHANGED <<jar, identity, mounted, call, server, counts>>

\* The protected screens unmount when the missing identity is rendered.
Unmount ==
    /\ user = NoUser /\ mounted # {}
    /\ mounted' = {}
    /\ Become([k \in Keys |-> IF k \in mounted THEN Left(k) ELSE Query(k)])
    /\ doubtful' = doubtful \cup {k \in mounted : LeftRunning(k)}
    /\ UNCHANGED <<session, call, server, counts>>

\* The session ends, whosever it is by now, or the request failed.
Ended == jar' \in {jar, NoUser}

\* A fault: the cache is cleared only before the request.
LogoutAnsweredOnce ==
    /\ leaving
    /\ user = NoUser => mounted = {}
    /\ leaving' = FALSE
    /\ Ended
    /\ UNCHANGED <<user, active, identity, mounted, entry, fetch, call, server, counts, doubtful>>

\* The logout request is answered, or fails: the cache is cleared once more.
LogoutAnswered ==
    /\ leaving
    /\ user = NoUser => mounted = {}
    /\ leaving' = FALSE
    /\ Ended
    /\ Cleared
    /\ UNCHANGED <<user, active, identity, mounted, call, server, counts>>

\* expireAuthSession after the refresh for a screen's request, or for the fetch of
\* the identity, was refused or failed, and clearExpiredSession: the identity
\* first, so the screens are gone before the cleared cache is rendered.
Expire ==
    /\ active
    /\ \/ user # NoUser /\ UNCHANGED identity
       \/ identity # NoUser /\ identity' = NoUser
    /\ active' = FALSE /\ user' = NoUser
    /\ Ended
    /\ mounted' = {}
    /\ Cleared
    /\ UNCHANGED <<leaving, call, server, counts>>

\* setAuthenticated: the sign-in screen is the only one on display, and not
\* before the first fetch of the identity is over (isReady).
SignIn(u) ==
    /\ user = NoUser /\ mounted = {}
    /\ active => identity = NoUser
    /\ OneMore
    /\ user' = u /\ jar' = u /\ active' = TRUE
    /\ UNCHANGED <<leaving, identity, mounted, entry, fetch, call, server, failed, doubtful>>

-----------------------------------------------------------------------------
(* The identity.                                                            *)

\* invalidateUserIdentity after a change of the profile, or a reconnection:
\* auth.me is fetched, anew if it already is.
AskIdentity ==
    /\ jar # NoUser /\ OneMore
    /\ identity' = jar
    /\ UNCHANGED <<user, jar, active, leaving, mounted, entry, fetch, call, server, failed, doubtful>>

\* The server's answer, read when the request came in: no logout, expiry or
\* sign-in has cancelled it, for isUserScopedQuery excludes auth.me.
ArriveIdentity ==
    /\ identity # NoUser
    /\ user' = identity
    /\ identity' = NoUser
    /\ UNCHANGED <<jar, active, leaving, mounted, entry, fetch, call, server, counts, doubtful>>

\* The data of auth.me stays what it is.
IdentityFails ==
    /\ identity # NoUser
    /\ identity' = NoUser
    /\ UNCHANGED <<user, jar, active, leaving, mounted, entry, fetch, call, server, counts, doubtful>>

-----------------------------------------------------------------------------
(* What could go wrong.                                                     *)

TypeOK ==
    /\ user \in Users \cup {NoUser} /\ jar \in Users \cup {NoUser}
    /\ identity \in Users \cup {NoUser} /\ active \in BOOLEAN /\ leaving \in BOOLEAN
    /\ mounted \subseteq Keys /\ doubtful \subseteq Keys
    /\ entry \in [Keys -> Entry]
    /\ fetch \in [Keys -> Fetch]
    /\ call \in [Calls -> Call]
    /\ server \in [Users -> [Keys -> SUBSET Calls]]
    /\ events \in 0 .. MaxEvents /\ failed \in BOOLEAN

\* The keys whose every mutation invalidates them once it is settled.
Followed(k) == \A h \in Hooks : k \in Touches(h) => k \in Hook[h].settled

\* The list a key shows is the one the server holds for its owner.
Current(k) == entry[k].value = server[entry[k].owner][k]

\* When no mutation of a list is under way and the cache presents it as up to
\* date, it is what the server holds: however optimistic writes, restored
\* snapshots, refetches and cancellations of several mutations interleaved
\* (NotificationsView, useAdminUsers, usePlatformView, usePlatformAdminMutations).
SettledListsAreCurrent ==
    \A k \in Keys \ doubtful :
        /\ Followed(k)
        /\ HasData(k) /\ ~entry[k].invalid
        /\ ~Running(k)
        /\ \A c \in Calls : Pending(c) => k \notin Touches(call[c].hook)
        => Current(k)

\* A list fetched with a session's cookies is gone, and so are the fetches that
\* run, once that session has left the browser or nobody is shown any more: also
\* what a screen fetched again between the first clearing of the cache and its
\* unmounting, and whoever has signed in meanwhile (AuthContext.tsx:42-56). It is
\* about the lists: the identity is not cleared, see ShownUserHasSession.
FetchedListsLeave ==
    ~leaving =>
        \A k \in Keys :
            /\ entry[k].from = "fetch" => entry[k].owner = jar /\ user # NoUser
            /\ Running(k) => fetch[k].owner = jar /\ user # NoUser

\* "Clear local identity first so protected screens unmount immediately; network
\* logout must not keep the previous user's data visible" (AuthContext.tsx:43): once
\* a logout or an expiry has ended the session, its user is not shown again.
ShownUserHasSession == user # NoUser => active \/ jar # NoUser

\* No entry is one user's while another, or nobody, is signed in, because a
\* mutation wrote it: "Prevent late mutation observers from repopulating removed
\* user data" (config/queryKeys.ts:111).
LateMutationsRepopulateNothing ==
    ~leaving =>
        \A k \in Keys : entry[k].from = "mutation" => entry[k].owner = user

\* A list on display that is missing or marked as invalid is being fetched, or
\* a mutation under way will have it fetched: the fetch that a mutation cancelled,
\* also one of a key that it does not write, is always taken up again when it is
\* settled.  Only a fetch that failed is not, or one without a session.
CancelledFetchesResume ==
    \A k \in mounted :
        entry[k].st = "empty" \/ entry[k].invalid =>
            \/ Running(k)
            \/ \E c \in Calls : Pending(c) /\ k \in Hook[call[c].hook].settled
            \/ failed \/ jar = NoUser

-----------------------------------------------------------------------------
\* The page is loaded with the session of an earlier visit, whose identity is being
\* fetched, or without one, which the refused fetch of the identity has shown.
Init ==
    /\ user = NoUser /\ leaving = FALSE /\ mounted = {}
    /\ jar \in Users \cup {NoUser} /\ active = (jar # NoUser) /\ identity = jar
    /\ entry = [k \in Keys |-> Absent]
    /\ fetch = [k \in Keys |-> NoFetch]
    /\ call = [c \in Calls |-> NewCall]
    /\ server = [u \in Users |-> [k \in Keys |-> {}]]
    /\ events = 0 /\ failed = FALSE
    /\ doubtful = {}

Next ==
    \/ \E c \in Calls, h \in Hooks : Start(c, h)
    \/ \E c \in Calls : Serve(c) \/ ServeLate(c) \/ AnswerSuccess(c) \/ AnswerError(c)
    \/ \E k \in Keys : Refetch(k) \/ Read(k) \/ Arrive(k) \/ FetchFails(k)
    \/ \E S \in Screens : Navigate(S)
    \/ Logout \/ Unmount \/ LogoutAnswered \/ Expire
    \/ \E u \in Users : SignIn(u)
    \/ AskIdentity \/ ArriveIdentity \/ IdentityFails

Spec == Init /\ [][Next]_vars
=============================================================================
