------------------------ MODULE ClientCacheProofs ------------------------
(* Proofs about the query cache, for any users, mutations, keys, screens    *)
(* and bounds.                                                              *)
EXTENDS ClientCache, TLAPS

Pair == [entry : Entry, fetch : Fetch]

\* A mutation of k is under way.
Busy(k) == \E c \in Calls : Pending(c) /\ k \in Touches(call[c].hook)

\* A request that was applied carried somebody's cookies; each belongs to a known
\* mutation, and what it puts back if it fails has an owner.
CallsHaveUsers ==
    \A c \in Calls :
        /\ call[c].st = "applied" => call[c].user \in Users
        /\ Pending(c) \/ call[c].st = "abandoned" =>
            /\ call[c].hook \in Hooks
            /\ \A k \in Keys : call[c].snap[k].st = "data" => call[c].snap[k].owner \in Users

\* A call puts back nothing but what its mutation writes.
Restores ==
    \A c \in Calls : Pending(c) =>
        \A k \in Keys : call[c].snap[k].st = "data" => k \in Hook[call[c].hook].writes

\* Nobody is shown and no logout is under way: nothing is on display.
Quiet == user = NoUser /\ ~leaving => mounted = {}

\* What is cached and what is fetched has an owner.
Owned(q) ==
    /\ q.entry.st = "data" => q.entry.owner \in Users
    /\ q.fetch.st # "none" => q.fetch.owner \in Users

\* While no logout is under way, what was fetched is of the session that the
\* cookies hold, and somebody is shown.
Mine(q) ==
    ~leaving =>
        /\ q.entry.from = "fetch" => q.entry.owner = jar /\ user # NoUser
        /\ q.fetch.st # "none" => q.fetch.owner = jar /\ user # NoUser

\* What a fetch of k has read is what the server holds, and so is what is valid
\* now, or would be if the fetch that runs were cancelled.
Faithful(q, k) ==
    /\ q.fetch.st = "read" => q.fetch.value = server[q.fetch.owner][k]
    /\ /\ q.entry.st = "data"
       /\ IF q.fetch.st = "none" THEN ~q.entry.invalid ELSE ~q.fetch.before
       => q.entry.value = server[q.entry.owner][k]

\* A key free of doubt is fetched only while it is on display, is never without
\* data while it is being changed, and is faithful when it is not.
Trusted(k) ==
    /\ Running(k) => k \in mounted
    /\ Busy(k) => HasData(k)
    /\ ~Busy(k) => Faithful(Query(k), k)

Sure(k) == Followed(k) /\ k \notin doubtful

Inv ==
    /\ TypeOK
    /\ CallsHaveUsers
    /\ Restores
    /\ Quiet
    /\ \A k \in Keys : Owned(Query(k)) /\ Mine(Query(k))
    /\ \A k \in Keys : Sure(k) => Trusted(k)

-----------------------------------------------------------------------------
(* The table of mutations, and types.                                       *)

\* Every optimistic mutation settles what it cancels and what it writes, what it
\* stores and settles it also writes, and it writes a key without data only if
\* it can make the data.
LEMMA HookShape ==
    ASSUME NEW h \in Hooks
    PROVE  /\ Hook[h].cancels \cup Hook[h].writes \subseteq Hook[h].settled
           /\ Hook[h].stores \cap Hook[h].settled \subseteq Hook[h].writes
           /\ Hook[h].writes # {} => Hook[h].creates \/ (h \in OfARow /\ "unread" \notin Hook[h].writes)
           /\ Hook[h].creates \in BOOLEAN /\ Hook[h].whole \in BOOLEAN
<1> DEFINE Names == {"markRead", "markAllRead", "setPreferences", "toggleUser", "toggleWebhook",
                     "updateFlag", "reorderTasks", "createTask", "updateTask", "deleteTask",
                     "saveConfig"}
<1>1. h \in Names
  BY CacheAssumption DEF Hook
<1>2. CASE h \in {"markRead", "markAllRead"}
  <2>1. Hook[h] = Mark
    BY <1>2 DEF Hook
  <2> QED BY <2>1 DEF Mark, Optimistic, NotificationKeys
<1>3. CASE h = "setPreferences"
  <2>1. Hook[h] = SetPreferences
    BY <1>3 DEF Hook
  <2> QED BY <2>1 DEF SetPreferences, Optimistic
<1>4. CASE h = "toggleUser"
  <2>1. Hook[h] = ToggleUser
    BY <1>4 DEF Hook
  <2> QED BY <1>4, <2>1 DEF ToggleUser, Optimistic, OfARow
<1>5. CASE h = "toggleWebhook"
  <2>1. Hook[h] = ToggleWebhook
    BY <1>5 DEF Hook
  <2> QED BY <1>5, <2>1 DEF ToggleWebhook, Optimistic, OfARow
<1>6. CASE h = "updateFlag"
  <2>1. Hook[h] = UpdateFlag
    BY <1>6 DEF Hook
  <2> QED BY <1>6, <2>1 DEF UpdateFlag, Optimistic, OfARow
<1>7. CASE h = "reorderTasks"
  <2>1. Hook[h] = ReorderTasks
    BY <1>7 DEF Hook
  <2> QED BY <2>1 DEF ReorderTasks, Optimistic
<1>8. CASE h = "createTask"
  <2>1. Hook[h] = CreateTask
    BY <1>8 DEF Hook
  <2> QED BY <2>1 DEF CreateTask, Stored
<1>9. CASE h \in {"updateTask", "deleteTask"}
  <2>1. Hook[h] = ChangeTask
    BY <1>9 DEF Hook
  <2> QED BY <2>1 DEF ChangeTask, Stored
<1>10. CASE h = "saveConfig"
  <2>1. Hook[h] = SaveConfig
    BY <1>10 DEF Hook
  <2> QED BY <2>1 DEF SaveConfig, Stored
<1> QED BY <1>1, <1>2, <1>3, <1>4, <1>5, <1>6, <1>7, <1>8, <1>9, <1>10

LEMMA SettledIsWritten ==
    \A k \in Keys, h \in Hooks :
        Followed(k) /\ k \in Touches(h) => k \in Hook[h].writes /\ k \in Hook[h].settled
<1> SUFFICES ASSUME NEW k \in Keys, NEW h \in Hooks, Followed(k), k \in Touches(h)
             PROVE  k \in Hook[h].writes /\ k \in Hook[h].settled
  OBVIOUS
<1>1. k \in Hook[h].settled
  BY DEF Followed
<1>2. k \in Hook[h].writes \/ k \in Hook[h].stores
  BY DEF Touches
<1>3. Hook[h].stores \cap Hook[h].settled \subseteq Hook[h].writes
  BY HookShape
<1> QED BY <1>1, <1>2, <1>3

LEMMA Constants ==
    /\ Absent \in Entry /\ Empty \in Entry /\ NoFetch \in Fetch
    /\ NewCall \in Call /\ OverCall \in Call
    /\ Absent.st = "absent" /\ Absent.from = "none" /\ NoFetch.st = "none"
    /\ OverCall.st = "over" /\ NewCall.st = "idle"
<1>1. Absent \in Entry /\ Empty \in Entry /\ NoFetch \in Fetch
  BY DEF Absent, Empty, NoFetch, Entry, Fetch
<1>2. NewCall \in Call /\ OverCall \in Call
  BY <1>1 DEF NewCall, OverCall, Call
<1> QED BY <1>1, <1>2 DEF Absent, NoFetch, OverCall, NewCall

LEMMA QueryType ==
    ASSUME TypeOK, NEW k \in Keys
    PROVE  Query(k) \in Pair
BY DEF TypeOK, Query, Pair

LEMMA AskType ==
    ASSUME TypeOK, NEW q \in Pair
    PROVE  Ask(q) \in Pair
BY Constants DEF TypeOK, Ask, Pair, Entry, Fetch

LEMMA CancelType ==
    ASSUME NEW q \in Pair
    PROVE  CancelFetch(q) \in Pair
BY Constants DEF CancelFetch, Pair, Entry, Fetch

LEMMA SetType ==
    ASSUME NEW q \in Pair, NEW value \in SUBSET Calls, NEW owner \in Users \cup {NoUser},
           NEW from \in {"fetch", "mutation", "none"}
    PROVE  SetData(q, value, owner, from) \in Pair
BY DEF SetData, Pair, Entry, Fetch

LEMMA InvalidateType ==
    ASSUME TypeOK, NEW q \in Pair, NEW observed \in BOOLEAN
    PROVE  Invalidate(q, observed) \in Pair
<1> DEFINE marked == [q.entry EXCEPT !.invalid = TRUE]
           restarted == [entry |-> marked, fetch |-> NoFetch]
<1>1. restarted \in Pair /\ [q EXCEPT !.entry = marked] \in Pair
  BY Constants DEF Pair, Entry
<1>2. q.entry.st \in {"absent", "empty", "data"}
  BY DEF Pair, Entry
<1>3. Ask(q) \in Pair /\ Ask(restarted) \in Pair
  BY <1>1, AskType
<1> HIDE DEF restarted
<1> QED BY <1>1, <1>2, <1>3 DEF Invalidate, restarted

-----------------------------------------------------------------------------
(* What the library's operations preserve.                                  *)

\* A query that is asked for without a session is only marked.
LEMMA AskRefused ==
    ASSUME NEW q \in Pair, q.fetch.st = "none", jar = NoUser
    PROVE  /\ Ask(q).fetch = q.fetch
           /\ Ask(q).entry.st = IF q.entry.st = "absent" THEN "empty" ELSE q.entry.st
           /\ Ask(q).entry.invalid <=> q.entry.st = "data"
           /\ q.entry.st # "absent" =>
                /\ Ask(q).entry.from = q.entry.from
                /\ Ask(q).entry.owner = q.entry.owner
                /\ Ask(q).entry.value = q.entry.value
           /\ q.entry.st = "absent" => Ask(q).entry.from = "none"
<1> DEFINE kept == IF q.entry.st = "absent" THEN Empty ELSE q.entry
           marked == [kept EXCEPT !.invalid = kept.st = "data"]
<1>1. Ask(q) = [q EXCEPT !.entry = marked]
  BY DEF Ask
<1>2. Ask(q).entry = marked /\ Ask(q).fetch = q.fetch
  BY <1>1 DEF Pair
<1>3. kept \in Entry
  BY Constants DEF Pair
<1>4. /\ marked.st = kept.st /\ marked.from = kept.from /\ marked.owner = kept.owner
      /\ marked.value = kept.value /\ (marked.invalid <=> kept.st = "data")
  BY <1>3 DEF Entry
<1>5. q.entry.st = "absent" => kept.st = "empty" /\ kept.from = "none"
  BY DEF Empty, Absent
<1>6. q.entry.st # "absent" => kept = q.entry
  OBVIOUS
<1> HIDE DEF kept, marked
<1> QED BY <1>2, <1>4, <1>5, <1>6

LEMMA AskKeeps ==
    ASSUME TypeOK, NEW q \in Pair, NEW k \in Keys
    PROVE  /\ Ask(q).entry.from \in {q.entry.from, "none"}
           /\ Ask(q).entry.st = "data" <=> q.entry.st = "data"
           /\ Owned(q) => Owned(Ask(q))
           /\ Mine(q) /\ (~leaving => user # NoUser) => Mine(Ask(q))
           /\ Faithful(q, k) => Faithful(Ask(q), k)
<1>1. CASE q.fetch.st # "none"
  BY <1>1 DEF Ask
<1>2. CASE q.fetch.st = "none" /\ jar # NoUser
  <2> DEFINE e == IF q.entry.st = "absent" THEN Empty ELSE q.entry
             f == [st |-> "asked", owner |-> jar, value |-> {}, before |-> q.entry.invalid]
  <2>1. Ask(q) = [entry |-> e, fetch |-> f]
    BY <1>2 DEF Ask
  <2>2. e = q.entry \/ (q.entry.st = "absent" /\ e.st = "empty" /\ e.from = "none" /\ e.owner = NoUser)
    BY DEF Empty, Absent
  <2>3. jar \in Users
    BY <1>2 DEF TypeOK
  <2> QED BY <1>2, <2>1, <2>2, <2>3 DEF Owned, Mine, Faithful
<1>3. CASE q.fetch.st = "none" /\ jar = NoUser
  <2> DEFINE r == Ask(q)
  <2>1. /\ r.fetch = q.fetch
        /\ r.entry.st = IF q.entry.st = "absent" THEN "empty" ELSE q.entry.st
        /\ r.entry.invalid <=> q.entry.st = "data"
        /\ q.entry.st # "absent" => /\ r.entry.from = q.entry.from
                                    /\ r.entry.owner = q.entry.owner
                                    /\ r.entry.value = q.entry.value
        /\ q.entry.st = "absent" => r.entry.from = "none"
    BY <1>3, AskRefused
  <2> HIDE DEF r
  <2>2. r.entry.from \in {q.entry.from, "none"} /\ (r.entry.st = "data" <=> q.entry.st = "data")
    BY <2>1
  <2>3. Owned(q) => Owned(r)
    BY <2>1 DEF Owned
  <2>4. Mine(q) => Mine(r)
    BY <2>1 DEF Mine
  <2>5. Faithful(r, k)
    BY <1>3, <2>1 DEF Faithful
  <2> QED BY <2>2, <2>3, <2>4, <2>5 DEF r
<1> QED BY <1>1, <1>2, <1>3

LEMMA CancelKeeps ==
    ASSUME NEW q \in Pair, NEW k \in Keys
    PROVE  /\ CancelFetch(q).fetch.st = "none"
           /\ CancelFetch(q).entry.st = q.entry.st
           /\ CancelFetch(q).entry.from = q.entry.from
           /\ CancelFetch(q).entry.owner = q.entry.owner
           /\ CancelFetch(q).entry.value = q.entry.value
           /\ Owned(q) => Owned(CancelFetch(q))
           /\ Mine(q) => Mine(CancelFetch(q))
           /\ Faithful(q, k) => Faithful(CancelFetch(q), k)
<1>1. CASE q.fetch.st = "none"
  BY <1>1 DEF CancelFetch
<1>2. CASE q.fetch.st # "none"
  <2>1. CancelFetch(q) = [entry |-> [q.entry EXCEPT !.invalid = q.fetch.before], fetch |-> NoFetch]
    BY <1>2 DEF CancelFetch
  <2> QED BY <1>2, <2>1 DEF Owned, Mine, Faithful, NoFetch, Pair, Entry
<1> QED BY <1>1, <1>2

LEMMA SetKeeps ==
    ASSUME NEW q \in Pair, NEW value \in SUBSET Calls, NEW owner \in Users,
           NEW from \in {"none", "fetch", "mutation"}
    PROVE  LET r == SetData(q, value, owner, from)
           IN  /\ r.entry.st = "data" /\ r.entry.from = from /\ r.entry.owner = owner
               /\ r.fetch.st = q.fetch.st
               /\ Owned(q) => Owned(r)
               /\ Mine(q) /\ (from = "fetch" => (owner = jar /\ user # NoUser) \/ leaving) => Mine(r)
<1> DEFINE r == SetData(q, value, owner, from)
<1>1. /\ r.entry.st = "data" /\ r.entry.from = from /\ r.entry.owner = owner
      /\ r.fetch = [q.fetch EXCEPT !.before = FALSE]
  BY DEF SetData
<1>2. r.fetch.st = q.fetch.st /\ r.fetch.owner = q.fetch.owner
  BY <1>1 DEF Pair, Fetch
<1> HIDE DEF r
<1>3. Owned(q) => Owned(r)
  BY <1>1, <1>2 DEF Owned
<1>4. Mine(q) /\ (from = "fetch" => (owner = jar /\ user # NoUser) \/ leaving) => Mine(r)
  BY <1>1, <1>2 DEF Mine
<1> QED BY <1>1, <1>2, <1>3, <1>4 DEF r

\* The last conjunct is why invalidating makes a changed key sure again: its
\* fetch starts anew, or its data is marked.
LEMMA InvalidateKeeps ==
    ASSUME TypeOK, NEW q \in Pair, NEW k \in Keys, NEW observed \in BOOLEAN,
           Owned(q), Mine(q),
           observed /\ ~leaving => user # NoUser
    PROVE  LET r == Invalidate(q, observed)
           IN  /\ Owned(r) /\ Mine(r)
               /\ r.entry.st = "data" <=> q.entry.st = "data"
               /\ r.entry.from \in {q.entry.from, "none"}
               /\ r.fetch.st # "none" => q.fetch.st # "none" \/ observed
               /\ Faithful(q, k) => Faithful(r, k)
               /\ q.entry.st = "data" /\ (q.fetch.st # "none" => observed) => Faithful(r, k)
<1> DEFINE r == Invalidate(q, observed)
           marked == [q.entry EXCEPT !.invalid = TRUE]
           restarted == [entry |-> marked, fetch |-> NoFetch]
<1>1. q.entry.st \in {"absent", "empty", "data"}
  BY DEF Pair, Entry
<1>2. CASE q.entry.st = "absent" \/ (q.entry.st = "empty" /\ ~observed)
  <2>1. r = q
    BY <1>2 DEF Invalidate
  <2> QED BY <1>2, <2>1
<1>3. CASE q.entry.st = "empty" /\ observed
  <2>1. r = Ask(q)
    BY <1>3 DEF Invalidate
  <2> QED BY <1>3, <2>1, AskKeeps
<1>4. CASE q.entry.st = "data" /\ observed
  <2>1. r = Ask(restarted)
    BY <1>4 DEF Invalidate
  <2>2. restarted \in Pair /\ restarted.entry.st = "data" /\ restarted.entry.from = q.entry.from
    BY <1>4, Constants DEF Pair, Entry
  <2>3. Owned(restarted) /\ Mine(restarted) /\ Faithful(restarted, k)
    BY <1>4 DEF Owned, Mine, Faithful, NoFetch, Pair, Entry
  <2> HIDE DEF r, restarted
  <2> QED BY <1>4, <2>1, <2>2, <2>3, AskKeeps DEF r
<1>5. CASE q.entry.st = "data" /\ ~observed
  <2>1. r = [q EXCEPT !.entry = marked]
    BY <1>5 DEF Invalidate
  <2>2. r.entry = marked /\ r.fetch = q.fetch
    BY <2>1 DEF Pair
  <2>3. marked.st = "data" /\ marked.owner = q.entry.owner /\ marked.from = q.entry.from
        /\ marked.value = q.entry.value /\ marked.invalid = TRUE
    BY <1>5 DEF Pair, Entry
  <2> HIDE DEF r, marked
  <2> QED BY <1>5, <2>2, <2>3 DEF Owned, Mine, Faithful, r
<1> QED BY <1>1, <1>2, <1>3, <1>4, <1>5

-----------------------------------------------------------------------------
(* The invariant is inductive: one lemma per action.                        *)

LEMMA BecomeStep ==
    ASSUME TypeOK, NEW queries, Become(queries), \A k \in Keys : queries[k] \in Pair
    PROVE  /\ entry' \in [Keys -> Entry] /\ fetch' \in [Keys -> Fetch]
           /\ \A k \in Keys : Query(k)' = queries[k]
<1>1. ASSUME NEW k \in Keys PROVE Query(k)' = queries[k]
  <2>1. entry'[k] = queries[k].entry /\ fetch'[k] = queries[k].fetch
    BY DEF Become
  <2>2. queries[k] = [entry |-> queries[k].entry, fetch |-> queries[k].fetch]
    BY DEF Pair
  <2>3. Query(k)' = [entry |-> entry'[k], fetch |-> fetch'[k]]
    BY DEF Query
  <2> QED BY <2>1, <2>2, <2>3
<1> QED BY <1>1 DEF Become, Pair

\* The invariants of a key, once its next query is known.
LEMMA QueryFacts ==
    ASSUME NEW k \in Keys
    PROVE  /\ HasData(k) <=> Query(k).entry.st = "data"
           /\ Running(k) <=> Query(k).fetch.st # "none"
           /\ Query(k).entry = entry[k] /\ Query(k).fetch = fetch[k]
BY DEF HasData, Running, Query

LEMMA OneMoreCounts ==
    ASSUME TypeOK, OneMore
    PROVE  events' \in 0 .. MaxEvents
BY CacheAssumption DEF TypeOK, OneMore

LEMMA StartKeeps ==
    ASSUME Inv, NEW c \in Calls, NEW h \in Hooks, Start(c, h)
    PROVE  Inv'
<1> DEFINE begun == [k \in Keys |->
                IF k \in Hook[h].writes THEN Wrote(c, h, k)
                ELSE IF k \in Hook[h].cancels THEN CancelFetch(Query(k))
                ELSE Query(k)]
           new == [st |-> "sent", hook |-> h, user |-> jar, answer |-> {},
                   snap |-> [k \in Keys |-> IF k \in Hook[h].writes THEN entry[k] ELSE Absent]]
<1>1. /\ call[c].st = "idle"
      /\ user # NoUser
      /\ h \in OfARow => \A k \in (Touches(h) \cap Keys) \ {"unread"} : HasData(k)
      /\ call' = [call EXCEPT ![c] = new]
      /\ Become(begun)
      /\ UNCHANGED <<user, jar, active, leaving, identity, mounted, server, failed, doubtful>>
      /\ OneMore
  BY DEF Start, session
<1>2. TypeOK /\ user \in Users /\ CallsHaveUsers /\ events' \in 0 .. MaxEvents
  BY <1>1, OneMoreCounts DEF Inv, TypeOK
<1>3. ASSUME NEW k \in Keys
      PROVE  /\ begun[k] \in Pair /\ Owned(begun[k]) /\ Mine(begun[k])
             /\ begun[k].fetch.st # "none" => Running(k)
             /\ HasData(k) => begun[k].entry.st = "data"
             /\ k \in Hook[h].writes => begun[k].entry.st = "data"
             /\ k \notin Touches(h) /\ Faithful(Query(k), k) => Faithful(begun[k], k)
  <2> DEFINE q == CancelFetch(Query(k))
  <2>1. Query(k) \in Pair /\ Owned(Query(k)) /\ Mine(Query(k))
    BY <1>2, QueryType DEF Inv
  <2>2. q \in Pair /\ Owned(q) /\ Mine(q) /\ q.fetch.st = "none" /\ q.entry.st = Query(k).entry.st
        /\ (Faithful(Query(k), k) => Faithful(q, k))
    BY <2>1, CancelType, CancelKeeps
  <2>3. CASE k \notin Hook[h].writes
    <3>1. begun[k] = q \/ begun[k] = Query(k)
      BY <2>3
    <3> HIDE DEF begun, q
    <3> QED BY <2>1, <2>2, <2>3, <3>1, QueryFacts
  <2>4. CASE k \in Hook[h].writes
    <3>1. k \in Touches(h) /\ begun[k] = Wrote(c, h, k)
      BY <2>4 DEF Touches
    <3>2. CASE HasData(k)
      <4>1. begun[k] = SetData(q, entry[k].value \cup {c}, entry[k].owner, entry[k].from)
        BY <3>1, <3>2 DEF Wrote
      <4>2. /\ entry[k].value \cup {c} \in SUBSET Calls
            /\ entry[k].owner \in Users
            /\ entry[k].from \in {"none", "fetch", "mutation"}
            /\ entry[k].from = "fetch" => (entry[k].owner = jar /\ user # NoUser) \/ leaving
        BY <1>2, <2>1, <3>2, QueryFacts DEF TypeOK, Entry, Owned, Mine
      <4> HIDE DEF begun, q
      <4> QED BY <2>2, <3>1, <4>1, <4>2, SetKeeps, SetType
    <3>3. CASE ~HasData(k)
      <4>1. Hook[h].creates
        BY <1>1, <2>4, <3>1, <3>3, HookShape
      <4>2. begun[k] = SetData(q, {c}, user, "mutation")
        BY <3>1, <3>3, <4>1 DEF Wrote
      <4> HIDE DEF begun, q
      <4> QED BY <1>2, <2>2, <3>1, <4>2, SetKeeps, SetType
    <3> QED BY <3>2, <3>3
  <2> QED BY <2>3, <2>4
<1>4. /\ entry' \in [Keys -> Entry] /\ fetch' \in [Keys -> Fetch]
      /\ \A k \in Keys : Query(k)' = begun[k]
  <2> HIDE DEF begun
  <2> QED BY <1>1, <1>2, <1>3, BecomeStep
<1> HIDE DEF begun
<1>5. new \in Call
  BY <1>2, Constants DEF Call, TypeOK
<1>6. TypeOK'
  <2> HIDE DEF new
  <2>1. call' \in [Calls -> Call]
    BY <1>1, <1>2, <1>5 DEF TypeOK
  <2> QED BY <1>1, <1>2, <1>4, <2>1 DEF TypeOK
<1>7. /\ \A d \in Calls \ {c} : call'[d] = call[d]
      /\ call'[c].st = "sent" /\ call'[c].hook = h
      /\ \A k \in Keys : call'[c].snap[k].st = "data" => /\ call'[c].snap[k].owner \in Users
                                                        /\ k \in Hook[h].writes
  <2>1. \A k \in Keys : entry[k].st = "data" => entry[k].owner \in Users
    BY DEF Inv, Owned, Query
  <2>2. \A k \in Keys : (new.snap[k] = entry[k] /\ k \in Hook[h].writes) \/ new.snap[k] = Absent
    OBVIOUS
  <2>3. call'[c] = new /\ \A d \in Calls \ {c} : call'[d] = call[d]
    BY <1>1, <1>2 DEF TypeOK
  <2>4. \A k \in Keys : new.snap[k].st = "data" => new.snap[k].owner \in Users /\ k \in Hook[h].writes
    BY <2>1, <2>2, Constants
  <2> QED BY <2>3, <2>4
<1>8. CallsHaveUsers'
  <2> HIDE DEF new
  <2> SUFFICES ASSUME NEW d \in Calls, Pending(d)' \/ call'[d].st = "abandoned"
               PROVE  /\ call'[d].st = "applied" => call'[d].user \in Users
                      /\ call'[d].hook \in Hooks
                      /\ \A k \in Keys : call'[d].snap[k].st = "data" => call'[d].snap[k].owner \in Users
    BY DEF CallsHaveUsers, Pending
  <2>1. CASE d = c
    BY <1>2, <1>7, <2>1
  <2>2. CASE d # c
    BY <1>2, <1>7, <2>2 DEF CallsHaveUsers, Pending
  <2> QED BY <2>1, <2>2
<1>9. Quiet' /\ Restores'
  <2>1. Quiet'
    BY <1>1 DEF Quiet
  <2>2. ASSUME NEW d \in Calls, Pending(d)'
        PROVE  \A k \in Keys : call'[d].snap[k].st = "data" => k \in Hook[call'[d].hook].writes
    <3>1. CASE d = c
      BY <1>7, <3>1
    <3>2. CASE d # c
      BY <1>7, <2>2, <3>2 DEF Inv, Restores, Pending
    <3> QED BY <3>1, <3>2
  <2> QED BY <2>1, <2>2 DEF Restores
<1>10. ASSUME NEW k \in Keys PROVE (Owned(Query(k)) /\ Mine(Query(k)))'
  BY <1>1, <1>3, <1>4 DEF Owned, Mine
<1>11. ASSUME NEW k \in Keys, Sure(k)' PROVE Trusted(k)'
  <2>1. Sure(k) /\ Trusted(k)
    BY <1>1, <1>11 DEF Sure, Followed, Inv
  <2>2. Busy(k)' <=> Busy(k) \/ k \in Touches(h)
    BY <1>1, <1>7 DEF Busy, Pending
  <2>3. k \in Touches(h) => k \in Hook[h].writes
    <3>1. Followed(k)
      BY <2>1 DEF Sure
    <3> QED BY <3>1, SettledIsWritten
  <2>4. (HasData(k)' <=> begun[k].entry.st = "data") /\ (Running(k)' <=> begun[k].fetch.st # "none")
    <3>1. Query(k)' = begun[k]
      BY <1>4
    <3>2. entry'[k] = begun[k].entry /\ fetch'[k] = begun[k].fetch
      BY <3>1 DEF Query
    <3> QED BY <3>2 DEF HasData, Running
  <2>5. Faithful(begun[k], k) => Faithful(Query(k), k)'
    BY <1>1, <1>4 DEF Faithful
  <2> QED BY <1>1, <1>3, <2>1, <2>2, <2>3, <2>4, <2>5 DEF Trusted
<1> QED BY <1>6, <1>8, <1>9, <1>10, <1>11 DEF Inv

LEMMA ServeKeeps ==
    ASSUME Inv, NEW c \in Calls, Serve(c)
    PROVE  Inv'
<1> DEFINE u == call[c].user
           h == call[c].hook
           answer == UNION {Held(c)[u][k] : k \in Hook[h].stores \cap Keys}
<1>1. /\ call[c].st = "sent" /\ server' = Held(c)
      /\ call' = [call EXCEPT ![c].st = "applied", ![c].answer = answer]
      /\ UNCHANGED <<user, jar, active, leaving, identity, mounted, entry, fetch, events, failed, doubtful>>
  BY DEF Serve, session, counts
<1>0. u # NoUser
  BY DEF Serve
<1>2. TypeOK /\ CallsHaveUsers /\ u \in Users /\ h \in Hooks
  BY <1>0, <1>1 DEF Inv, CallsHaveUsers, Pending, TypeOK, Call
<1>3. Held(c) \in [Users -> [Keys -> SUBSET Calls]]
  BY <1>2 DEF Held, TypeOK
<1>4. \A k \in Keys : k \notin Touches(h) => \A w \in Users : Held(c)[w][k] = server[w][k]
  BY <1>2 DEF Held, TypeOK
<1>5. /\ call' \in [Calls -> Call]
      /\ \A d \in Calls : /\ call'[d].hook = call[d].hook /\ call'[d].user = call[d].user
                          /\ call'[d].snap = call[d].snap
                          /\ d # c => call'[d] = call[d]
      /\ call'[c].st = "applied"
  <2>1. answer \in SUBSET Calls
    BY <1>2, <1>3
  <2> DEFINE served == [call[c] EXCEPT !.st = "applied", !.answer = answer]
  <2> HIDE DEF answer
  <2>2. call[c] \in Call /\ call \in [Calls -> Call]
    BY <1>2 DEF TypeOK
  <2>3. served \in Call /\ served.st = "applied"
        /\ served.hook = call[c].hook /\ served.user = call[c].user
        /\ served.snap = call[c].snap
    BY <2>1, <2>2 DEF Call
  <2>4. call' = [call EXCEPT ![c] = served]
    BY <1>1, <2>2
  <2> HIDE DEF served
  <2> QED BY <2>2, <2>3, <2>4
<1>6. TypeOK'
  BY <1>1, <1>2, <1>3, <1>5 DEF TypeOK
<1>7. \A d \in Calls : Pending(d)' <=> Pending(d)
  BY <1>1, <1>5 DEF Pending
<1>8. CallsHaveUsers'
  <2> SUFFICES ASSUME NEW d \in Calls, Pending(d)' \/ call'[d].st = "abandoned"
               PROVE  /\ call'[d].st = "applied" => call'[d].user \in Users
                      /\ call'[d].hook \in Hooks
                      /\ \A k \in Keys : call'[d].snap[k].st = "data" => call'[d].snap[k].owner \in Users
    BY DEF CallsHaveUsers, Pending
  <2>1. Pending(d) \/ call[d].st = "abandoned"
    BY <1>5, <1>7
  <2> QED BY <1>2, <1>5, <2>1 DEF CallsHaveUsers
<1>11. Restores'
  BY <1>5, <1>7 DEF Inv, Restores
<1>9. Quiet' /\ \A k \in Keys : (Owned(Query(k)) /\ Mine(Query(k)))'
  BY <1>1 DEF Inv, Quiet, Running, Owned, Mine, Query
<1>10. ASSUME NEW k \in Keys, Sure(k)' PROVE Trusted(k)'
  <2>1. Trusted(k) /\ Owned(Query(k))
    BY <1>1, <1>10 DEF Sure, Followed, Inv
  <2>2. Busy(k)' <=> Busy(k)
    BY <1>5, <1>7 DEF Busy
  <2>3. k \in Touches(h) => Busy(k)
    BY <1>1 DEF Busy, Pending
  <2>4. k \notin Touches(h) /\ Faithful(Query(k), k) => Faithful(Query(k), k)'
    BY <1>1, <1>4, <2>1 DEF Faithful, Owned, Query
  <2> QED BY <1>1, <2>1, <2>2, <2>3, <2>4 DEF Trusted, Running, HasData
<1> QED BY <1>6, <1>8, <1>9, <1>10, <1>11 DEF Inv

LEMMA ServeLateKeeps ==
    ASSUME Inv, NEW c \in Calls, ServeLate(c)
    PROVE  Inv'
<1> DEFINE u == call[c].user
           h == call[c].hook
<1>1. /\ call[c].st = "abandoned" /\ server' = Held(c)
      /\ call' = [call EXCEPT ![c] = OverCall]
      /\ doubtful' = doubtful \cup (Touches(h) \cap Keys)
      /\ UNCHANGED <<user, jar, active, leaving, identity, mounted, entry, fetch, events, failed>>
  BY DEF ServeLate, session, counts
<1>0. u # NoUser
  BY DEF ServeLate
<1>2. TypeOK /\ CallsHaveUsers /\ u \in Users
  BY <1>0, <1>1 DEF Inv, TypeOK, Call
<1>3. Held(c) \in [Users -> [Keys -> SUBSET Calls]]
  BY <1>2 DEF Held, TypeOK
<1>4. \A k \in Keys : k \notin Touches(h) => \A w \in Users : Held(c)[w][k] = server[w][k]
  BY <1>2 DEF Held, TypeOK
<1>5. /\ call' \in [Calls -> Call]
      /\ \A d \in Calls \ {c} : call'[d] = call[d]
      /\ call'[c].st = "over"
  BY <1>1, <1>2, Constants DEF TypeOK
<1>6. TypeOK'
  BY <1>1, <1>2, <1>3, <1>5 DEF TypeOK
<1>7. ASSUME NEW d \in Calls PROVE Pending(d)' <=> Pending(d)
  <2>1. CASE d = c
    BY <1>1, <1>5, <2>1 DEF Pending
  <2>2. CASE d # c
    BY <1>5, <2>2 DEF Pending
  <2> QED BY <2>1, <2>2
<1>8. CallsHaveUsers'
  <2> SUFFICES ASSUME NEW d \in Calls, Pending(d)' \/ call'[d].st = "abandoned"
               PROVE  /\ call'[d].st = "applied" => call'[d].user \in Users
                      /\ call'[d].hook \in Hooks
                      /\ \A k \in Keys : call'[d].snap[k].st = "data" => call'[d].snap[k].owner \in Users
    BY DEF CallsHaveUsers, Pending
  <2>1. d # c
    BY <1>5 DEF Pending
  <2> QED BY <1>2, <1>5, <1>7, <2>1 DEF CallsHaveUsers
<1>11. Restores'
  <2> SUFFICES ASSUME NEW d \in Calls, Pending(d)'
               PROVE  \A k \in Keys : call'[d].snap[k].st = "data" => k \in Hook[call'[d].hook].writes
    BY DEF Restores
  <2>1. d # c
    BY <1>5 DEF Pending
  <2> QED BY <1>5, <1>7, <2>1 DEF Inv, Restores
<1>9. Quiet' /\ \A k \in Keys : (Owned(Query(k)) /\ Mine(Query(k)))'
  BY <1>1 DEF Inv, Quiet, Running, Owned, Mine, Query
<1>10. ASSUME NEW k \in Keys, Sure(k)' PROVE Trusted(k)'
  <2>1. Trusted(k) /\ Owned(Query(k)) /\ k \notin Touches(h)
    BY <1>1, <1>10 DEF Sure, Followed, Inv
  <2>2. Busy(k)' <=> Busy(k)
    BY <1>1, <1>5, <1>7 DEF Busy, Pending
  <2>3. Faithful(Query(k), k) => Faithful(Query(k), k)'
    BY <1>1, <1>4, <2>1 DEF Faithful, Owned, Query
  <2> QED BY <1>1, <2>1, <2>2, <2>3 DEF Trusted, Running, HasData
<1> QED BY <1>6, <1>8, <1>9, <1>10, <1>11 DEF Inv


\* What an answer does to a key: q is its next query.
AnswerFits(q, k, h) ==
    /\ q \in Pair /\ Owned(q) /\ Mine(q)
    /\ q.fetch.st # "none" => Running(k) \/ k \in mounted
    /\ HasData(k) => q.entry.st = "data"
    /\ q.entry.from = "fetch" => entry[k].from = "fetch"
    /\ k \notin Touches(h) /\ Faithful(Query(k), k) => Faithful(q, k)
    /\ k \in Touches(h) /\ Sure(k) => Faithful(q, k)

\* The invalidation that ends a settled key's handlers: `kept' is what they made
\* of its query before.
LEMMA SettleFits ==
    ASSUME Inv, NEW c \in Calls, Pending(c), NEW k \in Keys, NEW kept \in Pair,
           Owned(kept), Mine(kept), kept.fetch.st = Query(k).fetch.st,
           HasData(k) => kept.entry.st = "data",
           kept.entry.from = "fetch" => entry[k].from = "fetch",
           k \notin Touches(call[c].hook) => kept = Query(k),
           NEW settles \in BOOLEAN,
           k \in Touches(call[c].hook) /\ Sure(k) => settles
    PROVE  AnswerFits(IF settles THEN Invalidate(kept, k \in mounted) ELSE kept, k, call[c].hook)
<1> DEFINE h == call[c].hook
           observed == k \in mounted
           r == Invalidate(kept, observed)
<1>1. TypeOK /\ Quiet /\ h \in Hooks
  BY DEF Inv, CallsHaveUsers
<1>2. k \in mounted /\ ~leaving => user # NoUser
  BY <1>1 DEF Quiet
<1>0. observed \in BOOLEAN /\ (observed /\ ~leaving => user # NoUser)
  BY <1>2
<1> HIDE DEF observed
<1>3. r \in Pair
  BY <1>0, <1>1, InvalidateType
<1>4. /\ Owned(r) /\ Mine(r)
      /\ r.entry.st = "data" <=> kept.entry.st = "data"
      /\ r.entry.from \in {kept.entry.from, "none"}
      /\ r.fetch.st # "none" => kept.fetch.st # "none" \/ observed
      /\ Faithful(kept, k) => Faithful(r, k)
      /\ kept.entry.st = "data" /\ (kept.fetch.st # "none" => observed) => Faithful(r, k)
  BY <1>0, <1>1, InvalidateKeeps
<1>5. k \in Touches(h) /\ Sure(k) => HasData(k) /\ (Running(k) => k \in mounted)
  BY DEF Inv, Trusted, Busy
<1>6. kept.fetch.st # "none" <=> Running(k)
  BY QueryFacts
<1> HIDE DEF r, h
<1>7. CASE settles
  BY <1>3, <1>4, <1>5, <1>6, <1>7 DEF AnswerFits, r, h, observed
<1>8. CASE ~settles
  BY <1>6, <1>8 DEF AnswerFits, h
<1> QED BY <1>7, <1>8

LEMMA SucceededFits ==
    ASSUME Inv, NEW c \in Calls, call[c].st = "applied", NEW k \in Keys
    PROVE  AnswerFits(Succeeded(c, k), k, call[c].hook)
<1> DEFINE h == Hook[call[c].hook]
           value == IF h.whole THEN call[c].answer ELSE entry[k].value \cup {c}
           owner == IF HasData(k) /\ ~h.whole THEN entry[k].owner ELSE call[c].user
           kept == IF k \notin h.stores THEN Query(k) ELSE SetData(Query(k), value, owner, "mutation")
<1>1. TypeOK /\ call[c].hook \in Hooks /\ call[c].user \in Users /\ Pending(c)
  BY DEF Inv, CallsHaveUsers, Pending
<1>2. Query(k) \in Pair /\ Owned(Query(k)) /\ Mine(Query(k))
  BY <1>1, QueryType DEF Inv
<1>3. value \in SUBSET Calls /\ owner \in Users
  <2>1. call[c] \in Call /\ entry[k] \in Entry
    BY <1>1 DEF TypeOK
  <2>2. entry[k].value \in SUBSET Calls /\ call[c].answer \in SUBSET Calls
    BY <2>1 DEF Call, Entry
  <2>3. HasData(k) => entry[k].owner \in Users
    BY <1>2, QueryFacts DEF Owned
  <2> QED BY <1>1, <2>2, <2>3
<1> DEFINE stored == SetData(Query(k), value, owner, "mutation")
           settles == k \in h.succeeded \cup h.settled
<1>4. k \notin Touches(call[c].hook) => k \notin h.stores
  BY DEF Touches
<1>5. k \in Touches(call[c].hook) /\ Sure(k) => settles
  BY <1>1, SettledIsWritten DEF Sure
<1>6. Succeeded(c, k) = IF settles THEN Invalidate(kept, k \in mounted) ELSE kept
  BY DEF Succeeded
<1>7. kept = Query(k) \/ kept = stored
  OBVIOUS
<1>8. k \notin h.stores => kept = Query(k)
  OBVIOUS
<1> HIDE DEF value, owner
<1>9. /\ stored \in Pair /\ Owned(stored) /\ Mine(stored) /\ stored.entry.st = "data"
      /\ stored.entry.from = "mutation" /\ stored.fetch.st = Query(k).fetch.st
  BY <1>2, <1>3, SetType, SetKeeps
<1>10. settles \in BOOLEAN
  OBVIOUS
<1> HIDE DEF stored, kept, settles, h
<1>11. /\ kept \in Pair /\ Owned(kept) /\ Mine(kept) /\ kept.fetch.st = Query(k).fetch.st
       /\ HasData(k) => kept.entry.st = "data"
       /\ kept.entry.from = "fetch" => entry[k].from = "fetch"
  BY <1>2, <1>7, <1>9, QueryFacts
<1> QED BY <1>1, <1>4, <1>5, <1>6, <1>8, <1>10, <1>11, SettleFits

LEMMA FailedFits ==
    ASSUME Inv, NEW c \in Calls, Pending(c), NEW k \in Keys
    PROVE  AnswerFits(Failed(c, k), k, call[c].hook)
<1> DEFINE h == Hook[call[c].hook]
           snap == call[c].snap[k]
           restored == SetData(Query(k), snap.value, snap.owner, "mutation")
           kept == IF snap.st = "data" THEN restored ELSE Query(k)
           settles == k \in h.settled
<1>1. TypeOK /\ call[c].hook \in Hooks /\ (snap.st = "data" => snap.owner \in Users)
  BY DEF Inv, CallsHaveUsers
<1>2. Query(k) \in Pair /\ Owned(Query(k)) /\ Mine(Query(k))
  BY <1>1, QueryType DEF Inv
<1>3. snap.value \in SUBSET Calls
  <2>1. call[c] \in Call
    BY <1>1 DEF TypeOK
  <2>2. snap \in Entry
    BY <2>1 DEF Call
  <2> QED BY <2>2 DEF Entry
<1>4. k \notin Touches(call[c].hook) => snap.st # "data"
  BY DEF Inv, Restores, Touches
<1>5. k \in Touches(call[c].hook) /\ Sure(k) => settles
  BY <1>1, SettledIsWritten DEF Sure
<1>6. Failed(c, k) = IF settles THEN Invalidate(kept, k \in mounted) ELSE kept
  BY DEF Failed
<1>7. (snap.st # "data" => kept = Query(k)) /\ (snap.st = "data" => kept = restored)
  <2> HIDE DEF restored, snap
  <2> QED OBVIOUS
<1> HIDE DEF snap
<1>8. snap.st = "data" =>
        /\ restored \in Pair /\ Owned(restored) /\ Mine(restored) /\ restored.entry.st = "data"
        /\ restored.entry.from = "mutation" /\ restored.fetch.st = Query(k).fetch.st
  BY <1>1, <1>2, <1>3, SetType, SetKeeps
<1>9. settles \in BOOLEAN
  OBVIOUS
<1> HIDE DEF restored, kept, settles, h
<1>10. /\ kept \in Pair /\ Owned(kept) /\ Mine(kept) /\ kept.fetch.st = Query(k).fetch.st
       /\ HasData(k) => kept.entry.st = "data"
       /\ kept.entry.from = "fetch" => entry[k].from = "fetch"
  BY <1>2, <1>7, <1>8, QueryFacts
<1> QED BY <1>1, <1>4, <1>5, <1>6, <1>7, <1>9, <1>10, SettleFits

LEMMA AnswerKeeps ==
    ASSUME Inv, NEW c \in Calls, Pending(c), NEW after, Become(after),
           \A k \in Keys : AnswerFits(after[k], k, call[c].hook),
           NEW rest \in Call, call' = [call EXCEPT ![c] = rest],
           \/ rest.st = "over"
           \/ /\ rest.st = "abandoned" /\ rest.hook = call[c].hook /\ rest.user = call[c].user
              /\ \A k \in Keys : rest.snap[k] = Absent,
           UNCHANGED <<user, jar, active, leaving, identity, mounted, server, events, failed, doubtful>>
    PROVE  Inv'
<1> DEFINE h == call[c].hook
<1>1. TypeOK /\ CallsHaveUsers /\ Restores /\ Quiet
  BY DEF Inv
<1>2. \A k \in Keys : after[k] \in Pair
  BY DEF AnswerFits
<1>3. /\ entry' \in [Keys -> Entry] /\ fetch' \in [Keys -> Fetch]
      /\ \A k \in Keys : Query(k)' = after[k]
  BY <1>1, <1>2, BecomeStep
<1>4. \A k \in Keys : entry'[k] = after[k].entry /\ fetch'[k] = after[k].fetch
  <2> SUFFICES ASSUME NEW k \in Keys
               PROVE  entry'[k] = after[k].entry /\ fetch'[k] = after[k].fetch
    OBVIOUS
  <2>1. Query(k)' = after[k]
    BY <1>3
  <2> QED BY <2>1 DEF Query
<1>5. /\ call' \in [Calls -> Call] /\ call'[c] = rest
      /\ \A d \in Calls \ {c} : call'[d] = call[d]
  BY <1>1 DEF TypeOK
<1>6. TypeOK'
  BY <1>1, <1>3, <1>5 DEF TypeOK
<1>7. ~Pending(c)'
  BY <1>5 DEF Pending
<1>8. ASSUME NEW d \in Calls, d # c PROVE Pending(d)' <=> Pending(d)
  BY <1>5, <1>8 DEF Pending
<1>9. CallsHaveUsers'
  <2> SUFFICES ASSUME NEW d \in Calls, Pending(d)' \/ call'[d].st = "abandoned"
               PROVE  /\ call'[d].st = "applied" => call'[d].user \in Users
                      /\ call'[d].hook \in Hooks
                      /\ \A k \in Keys : call'[d].snap[k].st = "data" => call'[d].snap[k].owner \in Users
    BY DEF CallsHaveUsers, Pending
  <2>1. CASE d = c
    BY <1>1, <1>5, <1>7, <2>1, Constants DEF CallsHaveUsers
  <2>2. CASE d # c
    BY <1>1, <1>5, <1>8, <2>2 DEF CallsHaveUsers
  <2> QED BY <2>1, <2>2
<1>10. Restores'
  <2> SUFFICES ASSUME NEW d \in Calls, Pending(d)'
               PROVE  \A k \in Keys : call'[d].snap[k].st = "data" => k \in Hook[call'[d].hook].writes
    BY DEF Restores
  <2>1. d # c
    BY <1>7
  <2> QED BY <1>1, <1>5, <1>8, <2>1 DEF Restores
<1>11. Quiet'
  BY <1>1 DEF Quiet
<1>12. ASSUME NEW k \in Keys PROVE (Owned(Query(k)) /\ Mine(Query(k)))'
  BY <1>3 DEF AnswerFits, Owned, Mine
<1>13. ASSUME NEW k \in Keys, Sure(k)' PROVE Trusted(k)'
  <2>1. Sure(k) /\ Trusted(k) /\ AnswerFits(after[k], k, h)
    BY <1>13 DEF Sure, Followed, Inv
  <2>2. Busy(k)' => Busy(k)
    BY <1>5, <1>7, <1>8 DEF Busy
  <2>3. Busy(k) /\ ~Busy(k)' => k \in Touches(h)
    <3> SUFFICES ASSUME NEW d \in Calls, Pending(d), k \in Touches(call[d].hook), ~Busy(k)'
                 PROVE  d = c
      BY DEF Busy
    <3> QED BY <1>5, <1>8 DEF Busy
  <2>4. Faithful(after[k], k) => Faithful(Query(k), k)'
    BY <1>3 DEF Faithful
  <2>5. (HasData(k)' <=> after[k].entry.st = "data") /\ (Running(k)' <=> after[k].fetch.st # "none")
    BY <1>4 DEF HasData, Running
  <2> HIDE DEF h
  <2> QED BY <2>1, <2>2, <2>3, <2>4, <2>5 DEF Trusted, AnswerFits
<1> QED BY <1>6, <1>9, <1>10, <1>11, <1>12, <1>13 DEF Inv

LEMMA AnswerSuccessKeeps ==
    ASSUME Inv, NEW c \in Calls, AnswerSuccess(c)
    PROVE  Inv'
<1> DEFINE after == [k \in Keys |-> Succeeded(c, k)]
<1>1. /\ call[c].st = "applied" /\ Become(after) /\ call' = [call EXCEPT ![c] = OverCall]
      /\ UNCHANGED <<user, jar, active, leaving, identity, mounted, server, events, failed, doubtful>>
  BY DEF AnswerSuccess, session, counts
<1>2. \A k \in Keys : AnswerFits(after[k], k, call[c].hook)
  BY <1>1, SucceededFits
<1>3. Pending(c)
  BY <1>1 DEF Pending
<1> HIDE DEF after
<1> QED BY <1>1, <1>2, <1>3, Constants, AnswerKeeps

LEMMA AnswerErrorKeeps ==
    ASSUME Inv, NEW c \in Calls, AnswerError(c)
    PROVE  Inv'
<1> DEFINE after == [k \in Keys |-> Failed(c, k)]
           given == [NewCall EXCEPT !.st = "abandoned", !.hook = call[c].hook, !.user = call[c].user]
           rest == IF call[c].st = "sent" THEN given ELSE OverCall
<1>1. /\ Pending(c) /\ Become(after) /\ call' = [call EXCEPT ![c] = rest]
      /\ UNCHANGED <<user, jar, active, leaving, identity, mounted, server, events, failed, doubtful>>
  BY DEF AnswerError, session, counts
<1>2. \A k \in Keys : AnswerFits(after[k], k, call[c].hook)
  BY <1>1, FailedFits
<1>3. call[c].hook \in Hooks /\ call[c].user \in Users \cup {NoUser}
  BY <1>1 DEF Inv, CallsHaveUsers, TypeOK, Call
<1>4. /\ given \in Call
      /\ given.st = "abandoned" /\ given.hook = call[c].hook /\ given.user = call[c].user
      /\ \A k \in Keys : given.snap[k] = Absent
  BY <1>3, Constants DEF NewCall, Call
<1> HIDE DEF after, given
<1>5. /\ rest \in Call
      /\ \/ rest.st = "over"
         \/ /\ rest.st = "abandoned" /\ rest.hook = call[c].hook /\ rest.user = call[c].user
            /\ \A k \in Keys : rest.snap[k] = Absent
  BY <1>4, Constants
<1> HIDE DEF rest
<1> QED BY <1>1, <1>2, <1>5, AnswerKeeps

\* A step of the cache alone, which neither starts nor answers a mutation.
CacheFits(q, k) ==
    /\ q \in Pair /\ Owned(q) /\ Mine(q)
    /\ HasData(k) => q.entry.st = "data"
    /\ Faithful(Query(k), k) => Faithful(q, k)

LEMMA CacheKeeps ==
    ASSUME Inv, NEW after,
           entry' \in [Keys -> Entry], fetch' \in [Keys -> Fetch],
           \A k \in Keys : Query(k)' = after[k] /\ CacheFits(after[k], k),
           \A k \in Keys : Sure(k)' /\ after[k].fetch.st # "none" => k \in mounted',
           UNCHANGED <<user, jar, active, leaving, identity, call, server>>,
           mounted' \subseteq Keys, events' \in 0 .. MaxEvents, failed' \in BOOLEAN,
           doubtful \subseteq doubtful', doubtful' \subseteq Keys,
           Quiet'
    PROVE  Inv'
<1>1. TypeOK'
  BY DEF Inv, TypeOK
<1>2. CallsHaveUsers' /\ Restores'
  BY DEF Inv, CallsHaveUsers, Restores, Pending
<1>3. ASSUME NEW k \in Keys PROVE (Owned(Query(k)) /\ Mine(Query(k)))'
  BY DEF CacheFits, Owned, Mine
<1>4. ASSUME NEW k \in Keys, Sure(k)' PROVE Trusted(k)'
  <2>1. Sure(k) /\ Trusted(k) /\ CacheFits(after[k], k)
    BY <1>4 DEF Sure, Followed, Inv
  <2>2. Busy(k)' <=> Busy(k)
    BY DEF Busy, Pending
  <2>3. Faithful(after[k], k) => Faithful(Query(k), k)'
    BY DEF Faithful
  <2>4. entry'[k] = after[k].entry /\ fetch'[k] = after[k].fetch
    <3>1. Query(k)' = after[k]
      OBVIOUS
    <3> QED BY <3>1 DEF Query
  <2>5. (HasData(k)' <=> after[k].entry.st = "data") /\ (Running(k)' <=> after[k].fetch.st # "none")
    BY <2>4 DEF HasData, Running
  <2> QED BY <1>4, <2>1, <2>2, <2>3, <2>5 DEF Trusted, CacheFits
<1> QED BY <1>1, <1>2, <1>3, <1>4 DEF Inv

\* A step of the fetch of one key.
LEMMA FetchKeeps ==
    ASSUME Inv, NEW k \in Keys, NEW q, CacheFits(q, k),
           q.fetch.st # "none" => Running(k) \/ k \in mounted,
           entry' = [entry EXCEPT ![k] = q.entry],
           fetch' = [fetch EXCEPT ![k] = q.fetch],
           UNCHANGED <<user, jar, active, leaving, identity, mounted, call, server, doubtful>>,
           events' \in 0 .. MaxEvents, failed' \in BOOLEAN
    PROVE  Inv'
<1> DEFINE after == [j \in Keys |-> IF j = k THEN q ELSE Query(j)]
<1>1. TypeOK /\ q \in Pair
  BY DEF Inv, CacheFits
<1>2. entry' \in [Keys -> Entry] /\ fetch' \in [Keys -> Fetch]
  BY <1>1 DEF TypeOK, Pair
<1>3. ASSUME NEW j \in Keys PROVE Query(j)' = after[j] /\ CacheFits(after[j], j)
  <2>1. CASE j = k
    <3>1. q = [entry |-> q.entry, fetch |-> q.fetch]
      BY <1>1 DEF Pair
    <3>2. entry'[k] = q.entry /\ fetch'[k] = q.fetch
      BY <1>1 DEF TypeOK
    <3> QED BY <2>1, <3>1, <3>2 DEF Query
  <2>2. CASE j # k
    <3>1. entry'[j] = entry[j] /\ fetch'[j] = fetch[j] /\ after[j] = Query(j)
      BY <1>1, <2>2 DEF TypeOK
    <3>2. CacheFits(Query(j), j)
      BY <1>1, QueryType, QueryFacts DEF CacheFits, Inv
    <3> QED BY <3>1, <3>2 DEF Query
  <2> QED BY <2>1, <2>2
<1>4. ASSUME NEW j \in Keys, Sure(j)', after[j].fetch.st # "none" PROVE j \in mounted'
  <2>1. Sure(j) /\ Trusted(j)
    BY <1>4 DEF Sure, Followed, Inv
  <2>2. Running(j) \/ j \in mounted
    BY <1>4, QueryFacts
  <2> QED BY <2>1, <2>2 DEF Trusted
<1>5. Quiet'
  BY DEF Inv, Quiet
<1>6. /\ mounted' \subseteq Keys
      /\ doubtful \subseteq doubtful' /\ doubtful' \subseteq Keys
  BY <1>1 DEF TypeOK
<1> HIDE DEF after
<1> QED BY <1>2, <1>3, <1>4, <1>5, <1>6, CacheKeeps

LEMMA RefetchKeeps ==
    ASSUME Inv, NEW k \in Keys, Refetch(k)
    PROVE  Inv'
<1>1. /\ k \in mounted /\ ~Running(k)
      /\ entry' = [entry EXCEPT ![k] = Ask(Query(k)).entry]
      /\ fetch' = [fetch EXCEPT ![k] = Ask(Query(k)).fetch]
      /\ UNCHANGED <<user, jar, active, leaving, identity, mounted, call, server, events, failed, doubtful>>
  BY DEF Refetch, session, counts
<1>2. TypeOK /\ Quiet /\ Query(k) \in Pair /\ Owned(Query(k)) /\ Mine(Query(k))
  BY QueryType DEF Inv
<1>3. ~leaving => user # NoUser
  BY <1>1, <1>2 DEF Quiet
<1>4. CacheFits(Ask(Query(k)), k)
  BY <1>2, <1>3, AskType, AskKeeps, QueryFacts DEF CacheFits
<1>5. events' \in 0 .. MaxEvents /\ failed' \in BOOLEAN
  BY <1>1, <1>2 DEF TypeOK
<1> QED BY <1>1, <1>4, <1>5, FetchKeeps

LEMMA ReadKeeps ==
    ASSUME Inv, NEW k \in Keys, Read(k)
    PROVE  Inv'
<1> DEFINE value == server[fetch[k].owner][k]
           f == [fetch[k] EXCEPT !.st = "read", !.value = value]
           q == [entry |-> entry[k], fetch |-> f]
<1>1. /\ fetch[k].st = "asked"
      /\ fetch' = [fetch EXCEPT ![k].st = "read", ![k].value = value]
      /\ UNCHANGED <<user, jar, active, leaving, identity, mounted, entry, call, server, events, failed, doubtful>>
  BY DEF Read, session, counts
<1>2. TypeOK /\ Query(k) \in Pair /\ Owned(Query(k)) /\ Mine(Query(k))
  BY QueryType DEF Inv
<1>3. fetch[k] \in Fetch /\ entry[k] \in Entry /\ fetch[k].owner \in Users
  BY <1>1, <1>2 DEF TypeOK, Owned, Query
<1>4. value \in SUBSET Calls
  BY <1>2, <1>3 DEF TypeOK
<1>5. /\ f \in Fetch /\ f.st = "read" /\ f.value = value
      /\ f.owner = fetch[k].owner /\ f.before = fetch[k].before
  BY <1>3, <1>4 DEF Fetch
<1>6. fetch' = [fetch EXCEPT ![k] = f] /\ entry' = [entry EXCEPT ![k] = entry[k]]
  BY <1>1, <1>2 DEF TypeOK
<1> HIDE DEF f
<1>7. q \in Pair
  BY <1>3, <1>5 DEF Pair
<1>8. Owned(q) /\ Mine(q)
  BY <1>1, <1>2, <1>3, <1>5 DEF Owned, Mine, Query
<1>9. Faithful(Query(k), k) => Faithful(q, k)
  BY <1>1, <1>5 DEF Faithful, Query
<1>10. CacheFits(q, k)
  BY <1>7, <1>8, <1>9 DEF CacheFits, HasData
<1>11. Running(k) /\ events' \in 0 .. MaxEvents /\ failed' \in BOOLEAN
  BY <1>1, <1>2 DEF Running, TypeOK
<1>12. q.entry = entry[k] /\ q.fetch = f
  OBVIOUS
<1> HIDE DEF q
<1> QED BY <1>1, <1>6, <1>10, <1>11, <1>12, FetchKeeps

LEMMA ArriveKeeps ==
    ASSUME Inv, NEW k \in Keys, Arrive(k)
    PROVE  Inv'
<1> DEFINE e == [st |-> "data", owner |-> fetch[k].owner, value |-> fetch[k].value,
                 invalid |-> FALSE, from |-> "fetch"]
           q == [entry |-> e, fetch |-> NoFetch]
<1>1. /\ fetch[k].st = "read"
      /\ entry' = [entry EXCEPT ![k] = e] /\ fetch' = [fetch EXCEPT ![k] = NoFetch]
      /\ UNCHANGED <<user, jar, active, leaving, identity, mounted, call, server, events, failed, doubtful>>
  BY DEF Arrive, session, counts
<1>2. TypeOK /\ Query(k) \in Pair /\ Owned(Query(k)) /\ Mine(Query(k))
  BY QueryType DEF Inv
<1>3. fetch[k] \in Fetch /\ fetch[k].owner \in Users
  BY <1>1, <1>2 DEF TypeOK, Owned, Query
<1>4. q \in Pair
  BY <1>3, Constants DEF Pair, Entry, Fetch
<1>5. Owned(q) /\ Mine(q)
  BY <1>1, <1>2, <1>3, Constants DEF Owned, Mine, Query
<1>6. Faithful(Query(k), k) => Faithful(q, k)
  BY <1>1, Constants DEF Faithful, Query
<1>7. CacheFits(q, k)
  BY <1>4, <1>5, <1>6 DEF CacheFits
<1>8. Running(k) /\ events' \in 0 .. MaxEvents /\ failed' \in BOOLEAN
  BY <1>1, <1>2 DEF Running, TypeOK
<1>9. q.entry = e /\ q.fetch = NoFetch
  OBVIOUS
<1> HIDE DEF q, e
<1> QED BY <1>1, <1>7, <1>8, <1>9, Constants, FetchKeeps

LEMMA FetchFailsKeeps ==
    ASSUME Inv, NEW k \in Keys, FetchFails(k)
    PROVE  Inv'
<1> DEFINE e == [entry[k] EXCEPT !.invalid = HasData(k)]
           q == [entry |-> e, fetch |-> NoFetch]
<1>1. /\ Running(k) /\ OneMore /\ failed' = TRUE
      /\ entry' = [entry EXCEPT ![k].invalid = HasData(k)] /\ fetch' = [fetch EXCEPT ![k] = NoFetch]
      /\ UNCHANGED <<user, jar, active, leaving, identity, mounted, call, server, doubtful>>
  BY DEF FetchFails, session
<1>2. TypeOK /\ Query(k) \in Pair /\ Owned(Query(k)) /\ Mine(Query(k))
  BY QueryType DEF Inv
<1>3. entry[k] \in Entry
  BY <1>2 DEF TypeOK
<1>4. /\ e \in Entry /\ e.st = entry[k].st /\ e.owner = entry[k].owner /\ e.from = entry[k].from
      /\ e.invalid <=> entry[k].st = "data"
  BY <1>3 DEF Entry, HasData
<1>5. entry' = [entry EXCEPT ![k] = e]
  BY <1>1, <1>2 DEF TypeOK
<1> HIDE DEF e
<1>6. q \in Pair
  BY <1>4, Constants DEF Pair
<1>7. Owned(q) /\ Mine(q)
  BY <1>2, <1>4, Constants DEF Owned, Mine, Query
<1>8. Faithful(q, k)
  BY <1>4, Constants DEF Faithful
<1>9. CacheFits(q, k)
  BY <1>4, <1>6, <1>7, <1>8 DEF CacheFits, HasData
<1>10. events' \in 0 .. MaxEvents /\ failed' \in BOOLEAN
  BY <1>1, <1>2, OneMoreCounts
<1>11. q.entry = e /\ q.fetch = NoFetch
  OBVIOUS
<1> HIDE DEF q
<1> QED BY <1>1, <1>5, <1>9, <1>10, <1>11, Constants, FetchKeeps

LEMMA NavigateKeeps ==
    ASSUME Inv, NEW S \in Screens, Navigate(S)
    PROVE  Inv'
<1> DEFINE after == [k \in Keys |->
            CASE k \in mounted \ S -> Left(k)
              [] k \in S \ mounted ->
                    IF ~HasData(k) \/ entry[k].invalid THEN Ask(Query(k)) ELSE Query(k)
              [] OTHER -> Query(k)]
<1>1. /\ user # NoUser /\ mounted' = S /\ Become(after)
      /\ doubtful' = doubtful \cup {k \in mounted \ S : LeftRunning(k)}
      /\ UNCHANGED <<user, jar, active, leaving, identity, call, server, events, failed>>
  BY DEF Navigate, session, counts
<1>2. TypeOK /\ S \subseteq Keys
  BY CacheAssumption DEF Inv
<1>3. ~leaving => user # NoUser
  BY <1>1
<1>4. ASSUME NEW k \in Keys
      PROVE  /\ CacheFits(after[k], k)
             /\ Sure(k)' /\ after[k].fetch.st # "none" => k \in mounted'
  <2>1. Query(k) \in Pair /\ Owned(Query(k)) /\ Mine(Query(k))
    BY <1>2, QueryType DEF Inv
  <2>2. CASE k \in mounted \ S
    <3>1. after[k] = IF k \in Signalled THEN CancelFetch(Query(k)) ELSE Query(k)
      BY <2>2 DEF Left
    <3>2. Sure(k)' => ~LeftRunning(k)
      BY <1>1, <2>2 DEF Sure
    <3>3. CacheFits(after[k], k)
      BY <2>1, <3>1, CancelType, CancelKeeps, QueryFacts DEF CacheFits
    <3>4. Sure(k)' => after[k].fetch.st = "none"
      BY <2>1, <3>1, <3>2, CancelKeeps, QueryFacts DEF LeftRunning
    <3> QED BY <3>3, <3>4
  <2>3. CASE k \in S \ mounted
    <3>1. after[k] = Ask(Query(k)) \/ after[k] = Query(k)
      BY <2>3
    <3>2. CacheFits(after[k], k)
      BY <1>2, <1>3, <2>1, <3>1, AskType, AskKeeps, QueryFacts DEF CacheFits
    <3> QED BY <1>1, <2>3, <3>2
  <2>4. CASE ~(k \in mounted \ S) /\ ~(k \in S \ mounted)
    <3>1. after[k] = Query(k)
      BY <2>4
    <3>2. CacheFits(after[k], k)
      BY <2>1, <3>1, QueryFacts DEF CacheFits
    <3>3. Sure(k)' => Sure(k)
      BY <1>1 DEF Sure, Followed
    <3>4. Sure(k) /\ Running(k) => k \in mounted
      BY DEF Inv, Trusted
    <3> QED BY <1>1, <2>4, <3>1, <3>2, <3>3, <3>4, QueryFacts
  <2> QED BY <2>2, <2>3, <2>4
<1> HIDE DEF after
<1>5. \A k \in Keys : after[k] \in Pair
  BY <1>4 DEF CacheFits
<1>6. /\ entry' \in [Keys -> Entry] /\ fetch' \in [Keys -> Fetch]
      /\ \A k \in Keys : Query(k)' = after[k]
  BY <1>1, <1>2, <1>5, BecomeStep
<1>7. /\ mounted' \subseteq Keys /\ events' \in 0 .. MaxEvents /\ failed' \in BOOLEAN
      /\ doubtful \subseteq doubtful' /\ doubtful' \subseteq Keys
  BY <1>1, <1>2 DEF TypeOK
<1>8. Quiet'
  BY <1>1 DEF Quiet
<1> QED BY <1>1, <1>4, <1>6, <1>7, <1>8, CacheKeeps

LEMMA UnmountKeeps ==
    ASSUME Inv, Unmount
    PROVE  Inv'
<1> DEFINE after == [k \in Keys |-> IF k \in mounted THEN Left(k) ELSE Query(k)]
<1>1. /\ user = NoUser /\ mounted # {} /\ mounted' = {} /\ Become(after)
      /\ doubtful' = doubtful \cup {k \in mounted : LeftRunning(k)}
      /\ UNCHANGED <<user, jar, active, leaving, identity, call, server, events, failed>>
  BY DEF Unmount, session, counts
<1>2. TypeOK
  BY DEF Inv
<1>3. ASSUME NEW k \in Keys
      PROVE  /\ CacheFits(after[k], k)
             /\ Sure(k)' => after[k].fetch.st = "none"
  <2>1. Query(k) \in Pair /\ Owned(Query(k)) /\ Mine(Query(k))
    BY <1>2, QueryType DEF Inv
  <2>2. after[k] = IF k \in mounted /\ k \in Signalled THEN CancelFetch(Query(k)) ELSE Query(k)
    BY DEF Left
  <2>3. CacheFits(after[k], k)
    BY <2>1, <2>2, CancelType, CancelKeeps, QueryFacts DEF CacheFits
  <2>4. ASSUME Sure(k)' PROVE ~Running(k) \/ (k \in mounted /\ k \in Signalled)
    <3>1. Sure(k)
      BY <1>1, <2>4 DEF Sure, Followed
    <3>2. k \in mounted => ~LeftRunning(k)
      BY <1>1, <2>4 DEF Sure
    <3> QED BY <3>1, <3>2 DEF Inv, Trusted, LeftRunning
  <2> QED BY <2>1, <2>2, <2>3, <2>4, CancelKeeps, QueryFacts
<1> HIDE DEF after
<1>4. \A k \in Keys : after[k] \in Pair
  BY <1>3 DEF CacheFits
<1>5. /\ entry' \in [Keys -> Entry] /\ fetch' \in [Keys -> Fetch]
      /\ \A k \in Keys : Query(k)' = after[k]
  BY <1>1, <1>2, <1>4, BecomeStep
<1>6. /\ mounted' \subseteq Keys /\ events' \in 0 .. MaxEvents /\ failed' \in BOOLEAN
      /\ doubtful \subseteq doubtful' /\ doubtful' \subseteq Keys
  BY <1>1, <1>2 DEF TypeOK
<1>7. Quiet'
  BY <1>1 DEF Inv, Quiet
<1> QED BY <1>1, <1>3, <1>5, <1>6, <1>7, CacheKeeps

\* Clearing the cache leaves nothing to be owned or out of date; what a mutation
\* under way may still bring back is doubtful.
LEMMA ClearedKeeps ==
    ASSUME Inv, Cleared,
           user' \in Users \cup {NoUser}, jar' \in Users \cup {NoUser},
           identity' \in Users \cup {NoUser}, active' \in BOOLEAN, leaving' \in BOOLEAN,
           mounted' \subseteq Keys,
           user' = NoUser /\ ~leaving' => mounted' = {},
           UNCHANGED <<call, server, events, failed>>
    PROVE  Inv'
<1> DEFINE disturbed == UNION {Touches(call[c].hook) \cap Keys : c \in {d \in Calls : Pending(d)}}
<1>1. /\ entry' = [k \in Keys |-> Absent] /\ fetch' = [k \in Keys |-> NoFetch]
      /\ doubtful' = doubtful \cup disturbed
  BY DEF Cleared
<1>2. disturbed \subseteq Keys /\ \A k \in Keys : Busy(k) => k \in disturbed
  BY DEF Busy
<1> HIDE DEF disturbed
<1>3. TypeOK'
  BY <1>1, <1>2, Constants DEF Inv, TypeOK
<1>4. CallsHaveUsers' /\ Restores'
  BY DEF Inv, CallsHaveUsers, Restores, Pending
<1>5. \A k \in Keys : entry'[k] = Absent /\ fetch'[k] = NoFetch
  BY <1>1
<1>6. Quiet'
  BY DEF Quiet
<1>7. ASSUME NEW k \in Keys PROVE (Owned(Query(k)) /\ Mine(Query(k)))'
  BY <1>5, Constants DEF Owned, Mine, Query
<1>8. ASSUME NEW k \in Keys, Sure(k)' PROVE Trusted(k)'
  <2>1. ~Busy(k)'
    BY <1>1, <1>2, <1>8 DEF Sure, Busy, Pending
  <2>2. ~Running(k)' /\ Faithful(Query(k), k)'
    BY <1>5, Constants DEF Running, Faithful, Query
  <2> QED BY <2>1, <2>2 DEF Trusted
<1> QED BY <1>3, <1>4, <1>6, <1>7, <1>8 DEF Inv

LEMMA SessionKeeps ==
    ASSUME Inv, Logout \/ LogoutAnswered \/ Expire
    PROVE  Inv'
<1>1. TypeOK
  BY DEF Inv
<1>2. CASE Logout
  BY <1>1, <1>2, ClearedKeeps DEF Logout, TypeOK, counts
<1>3. CASE LogoutAnswered
  BY <1>1, <1>3, ClearedKeeps DEF LogoutAnswered, Ended, TypeOK, counts
<1>4. CASE Expire
  BY <1>1, <1>4, ClearedKeeps DEF Expire, Ended, TypeOK, counts
<1> QED BY <1>2, <1>3, <1>4

LEMMA SignInKeeps ==
    ASSUME Inv, NEW u \in Users, SignIn(u)
    PROVE  Inv'
<1>1. /\ user = NoUser /\ user' = u /\ jar' = u /\ active' = TRUE /\ OneMore
      /\ UNCHANGED <<leaving, identity, mounted, entry, fetch, call, server, failed, doubtful>>
  BY DEF SignIn
<1>2. TypeOK'
  BY <1>1, OneMoreCounts DEF Inv, TypeOK
<1>3. CallsHaveUsers' /\ Restores'
  BY <1>1 DEF Inv, CallsHaveUsers, Restores, Pending
<1>4. Quiet'
  BY <1>1, CacheAssumption DEF Quiet
<1>5. ASSUME NEW k \in Keys PROVE (Owned(Query(k)) /\ Mine(Query(k)))'
  <2>1. Owned(Query(k)) /\ Mine(Query(k))
    BY DEF Inv
  <2>2. ~leaving => entry[k].from # "fetch" /\ ~Running(k)
    BY <1>1, <2>1 DEF Mine, Query, Running
  <2> QED BY <1>1, <2>1, <2>2 DEF Owned, Mine, Query, Running
<1>6. ASSUME NEW k \in Keys, Sure(k)' PROVE Trusted(k)'
  <2>1. Sure(k) /\ Trusted(k)
    BY <1>1, <1>6 DEF Sure, Followed, Inv
  <2> QED BY <1>1, <2>1 DEF Trusted, Running, HasData, Busy, Pending, Faithful, Query
<1> QED BY <1>2, <1>3, <1>4, <1>5, <1>6 DEF Inv

\* Whoever an answer of auth.me shows, the lists are not touched.
LEMMA IdentityKeeps ==
    ASSUME Inv, AskIdentity \/ ArriveIdentity \/ IdentityFails
    PROVE  Inv'
<1>1. /\ user' # NoUser \/ user' = user
      /\ user \in Users \cup {NoUser} => user' \in Users \cup {NoUser}
      /\ UNCHANGED <<jar, active, leaving, mounted, entry, fetch, call, server, failed, doubtful>>
  <2>1. identity \in Users \cup {NoUser}
    BY DEF Inv, TypeOK
  <2> QED BY <2>1 DEF AskIdentity, ArriveIdentity, IdentityFails, counts
<1>2. TypeOK'
  <2>1. TypeOK
    BY DEF Inv
  <2>2. events' \in 0 .. MaxEvents /\ identity' \in Users \cup {NoUser}
    <3>1. CASE AskIdentity
      BY <2>1, <3>1, OneMoreCounts DEF AskIdentity, TypeOK
    <3>2. CASE ArriveIdentity \/ IdentityFails
      BY <2>1, <3>2 DEF ArriveIdentity, IdentityFails, counts, TypeOK
    <3> QED BY <3>1, <3>2
  <2> QED BY <1>1, <2>1, <2>2 DEF TypeOK
<1>3. CallsHaveUsers' /\ Restores' /\ Quiet'
  BY <1>1 DEF Inv, CallsHaveUsers, Restores, Quiet, Pending
<1>4. ASSUME NEW k \in Keys PROVE (Owned(Query(k)) /\ Mine(Query(k)))'
  <2>1. Owned(Query(k)) /\ Mine(Query(k))
    BY DEF Inv
  <2> QED BY <1>1, <2>1 DEF Owned, Mine, Query
<1>5. ASSUME NEW k \in Keys, Sure(k)' PROVE Trusted(k)'
  <2>1. Sure(k) /\ Trusted(k)
    BY <1>1, <1>5 DEF Sure, Followed, Inv
  <2> QED BY <1>1, <2>1 DEF Trusted, Running, HasData, Busy, Pending, Faithful, Query
<1> QED BY <1>2, <1>3, <1>4, <1>5 DEF Inv

LEMMA InitInv == Init => Inv
<1> SUFFICES ASSUME Init PROVE Inv
  OBVIOUS
<1>1. TypeOK
  <2>1. active \in BOOLEAN /\ jar \in Users \cup {NoUser} /\ identity \in Users \cup {NoUser}
    BY DEF Init
  <2>2. MaxEvents \in Nat
    BY CacheAssumption
  <2>3. events \in 0 .. MaxEvents
    BY <2>2 DEF Init
  <2>4. failed \in BOOLEAN
    BY DEF Init
  <2> QED BY <2>1, <2>3, <2>4, Constants DEF Init, TypeOK
<1>2. CallsHaveUsers /\ Restores
  BY Constants DEF Init, CallsHaveUsers, Restores, Pending
<1>3. \A k \in Keys : entry[k] = Absent /\ fetch[k] = NoFetch
  BY DEF Init
<1>4. Quiet
  BY DEF Init, Quiet
<1>5. \A k \in Keys : Owned(Query(k)) /\ Mine(Query(k)) /\ Faithful(Query(k), k)
  BY <1>3, Constants DEF Owned, Mine, Faithful, Query
<1>6. \A k \in Keys : ~Running(k) /\ ~Busy(k)
  BY <1>3, Constants DEF Init, Running, Busy, Pending
<1> QED BY <1>1, <1>2, <1>4, <1>5, <1>6 DEF Inv, Trusted

LEMMA InvKept == Inv /\ [Next]_vars => Inv'
<1> SUFFICES ASSUME Inv, [Next]_vars PROVE Inv'
  OBVIOUS
<1>1. ASSUME NEW c \in Calls, NEW h \in Hooks, Start(c, h) PROVE Inv'
  BY <1>1, StartKeeps
<1>2. ASSUME NEW c \in Calls, Serve(c) PROVE Inv'
  BY <1>2, ServeKeeps
<1>3. ASSUME NEW c \in Calls, ServeLate(c) PROVE Inv'
  BY <1>3, ServeLateKeeps
<1>4. ASSUME NEW c \in Calls, AnswerSuccess(c) PROVE Inv'
  BY <1>4, AnswerSuccessKeeps
<1>5. ASSUME NEW c \in Calls, AnswerError(c) PROVE Inv'
  BY <1>5, AnswerErrorKeeps
<1>6. ASSUME NEW k \in Keys, Refetch(k) \/ Read(k) \/ Arrive(k) \/ FetchFails(k) PROVE Inv'
  BY <1>6, RefetchKeeps, ReadKeeps, ArriveKeeps, FetchFailsKeeps
<1>7. ASSUME NEW S \in Screens, Navigate(S) PROVE Inv'
  BY <1>7, NavigateKeeps
<1>8. CASE Logout \/ LogoutAnswered \/ Expire
  BY <1>8, SessionKeeps
<1>9. CASE Unmount
  BY <1>9, UnmountKeeps
<1>10. ASSUME NEW u \in Users, SignIn(u) PROVE Inv'
  BY <1>10, SignInKeeps
<1>11. CASE UNCHANGED vars
  <2>1. UNCHANGED <<user, jar, active, leaving, identity, mounted, entry, fetch, call, server,
                    events, failed, doubtful>>
    BY <1>11 DEF vars, session, counts
  <2>2. \A k \in Keys : Query(k)' = Query(k) /\ (Sure(k)' <=> Sure(k)) /\ (Trusted(k)' <=> Trusted(k))
    BY <2>1 DEF Query, Sure, Followed, Trusted, Running, HasData, Busy, Pending, Faithful
  <2> QED BY <2>1, <2>2 DEF Inv, TypeOK, CallsHaveUsers, Restores, Quiet, Pending, Running,
                            Owned, Mine, Query
<1>12. CASE AskIdentity \/ ArriveIdentity \/ IdentityFails
  BY <1>12, IdentityKeeps
<1> QED BY <1>1, <1>2, <1>3, <1>4, <1>5, <1>6, <1>7, <1>8, <1>9, <1>10, <1>11, <1>12 DEF Next

-----------------------------------------------------------------------------
(* Cancelled fetches resume.                                                *)

\* Only data can be marked as invalid, also by the cancellation of a fetch.
Unmarked(q) == q.entry.st # "data" => ~q.entry.invalid /\ ~q.fetch.before

\* A query that lacks a fetch, and a mutation that will have it fetched.
Waits(q) == (q.entry.st = "empty" \/ q.entry.invalid) /\ q.fetch.st = "none"

\* A fetch has failed, or fetches have no session to carry.
Excused == failed \/ jar = NoUser

Awaited(k) == \E c \in Calls : Pending(c) /\ k \in Hook[call[c].hook].settled

Resuming ==
    /\ \A k \in Keys : Unmarked(Query(k))
    /\ CancelledFetchesResume

LEMMA ResumeMeans ==
    CancelledFetchesResume <=>
        Excused \/ \A k \in mounted : Waits(Query(k)) => Awaited(k)
BY DEF Excused, CancelledFetchesResume, Waits, Awaited, Query, Running

LEMMA AskResumes ==
    ASSUME NEW q \in Pair, Unmarked(q)
    PROVE  Unmarked(Ask(q)) /\ (jar # NoUser => ~Waits(Ask(q)))
<1>1. CASE q.fetch.st # "none"
  BY <1>1 DEF Ask, Waits
<1>2. CASE q.fetch.st = "none" /\ jar # NoUser
  <2> DEFINE e == IF q.entry.st = "absent" THEN Empty ELSE q.entry
             f == [st |-> "asked", owner |-> jar, value |-> {}, before |-> q.entry.invalid]
  <2>1. Ask(q) = [entry |-> e, fetch |-> f]
    BY <1>2 DEF Ask
  <2>2. e = q.entry \/ (q.entry.st = "absent" /\ e.st = "empty" /\ e.invalid = FALSE)
    BY DEF Empty, Absent
  <2>3. f.st = "asked" /\ f.before = q.entry.invalid
    OBVIOUS
  <2> HIDE DEF e, f
  <2> QED BY <2>1, <2>2, <2>3 DEF Unmarked, Waits
<1>3. CASE q.fetch.st = "none" /\ jar = NoUser
  <2> DEFINE r == Ask(q)
  <2>1. r.fetch = q.fetch /\ (r.entry.invalid <=> q.entry.st = "data")
        /\ r.entry.st = IF q.entry.st = "absent" THEN "empty" ELSE q.entry.st
    BY <1>3, AskRefused
  <2> HIDE DEF r
  <2> QED BY <1>3, <2>1 DEF Unmarked, r
<1> QED BY <1>1, <1>2, <1>3

LEMMA CancelUnmarks ==
    ASSUME NEW q \in Pair, Unmarked(q)
    PROVE  Unmarked(CancelFetch(q))
<1>1. CASE q.fetch.st = "none"
  BY <1>1 DEF CancelFetch
<1>2. CASE q.fetch.st # "none"
  <2>1. CancelFetch(q) = [entry |-> [q.entry EXCEPT !.invalid = q.fetch.before], fetch |-> NoFetch]
    BY <1>2 DEF CancelFetch
  <2> QED BY <2>1 DEF Unmarked, NoFetch, Pair, Entry
<1> QED BY <1>1, <1>2

LEMMA SetResumes ==
    ASSUME NEW q, NEW value, NEW owner, NEW from
    PROVE  Unmarked(SetData(q, value, owner, from)) /\ ~Waits(SetData(q, value, owner, from))
BY DEF SetData, Unmarked, Waits

LEMMA InvalidateResumes ==
    ASSUME NEW q \in Pair, Unmarked(q), NEW observed \in BOOLEAN
    PROVE  /\ Unmarked(Invalidate(q, observed))
           /\ observed /\ jar # NoUser => ~Waits(Invalidate(q, observed))
<1> DEFINE r == Invalidate(q, observed)
           marked == [q.entry EXCEPT !.invalid = TRUE]
           restarted == [entry |-> marked, fetch |-> NoFetch]
<1>1. q.entry.st \in {"absent", "empty", "data"}
  BY DEF Pair, Entry
<1>2. CASE q.entry.st = "absent"
  BY <1>2 DEF Invalidate, Unmarked, Waits
<1>3. CASE q.entry.st = "empty"
  BY <1>3, AskResumes DEF Invalidate
<1>4. CASE q.entry.st = "data" /\ observed
  <2>1. r = Ask(restarted)
    BY <1>4 DEF Invalidate
  <2>2. restarted \in Pair /\ restarted.entry.st = "data"
    BY <1>4, Constants DEF Pair, Entry
  <2>3. Unmarked(restarted)
    BY <2>2 DEF Unmarked
  <2> HIDE DEF r, restarted
  <2> QED BY <2>1, <2>2, <2>3, AskResumes DEF r
<1>5. CASE q.entry.st = "data" /\ ~observed
  <2>1. r.entry = marked /\ marked.st = "data"
    BY <1>5 DEF Invalidate, Pair, Entry
  <2> HIDE DEF r, marked
  <2> QED BY <1>5, <2>1 DEF Unmarked, r
<1> QED BY <1>1, <1>2, <1>3, <1>4, <1>5

LEMMA BecomeResumes ==
    ASSUME NEW queries, Become(queries), NEW k \in Keys
    PROVE  /\ Unmarked(Query(k))' <=> Unmarked(queries[k])
           /\ Waits(Query(k))' <=> Waits(queries[k])
<1>1. entry'[k] = queries[k].entry /\ fetch'[k] = queries[k].fetch
  BY DEF Become
<1> QED BY <1>1 DEF Unmarked, Waits, Query

LEMMA StartResumes ==
    ASSUME TypeOK, Resuming, NEW c \in Calls, NEW h \in Hooks, Start(c, h)
    PROVE  Resuming'
<1> DEFINE begun == [k \in Keys |->
                IF k \in Hook[h].writes THEN Wrote(c, h, k)
                ELSE IF k \in Hook[h].cancels THEN CancelFetch(Query(k))
                ELSE Query(k)]
           new == [st |-> "sent", hook |-> h, user |-> jar, answer |-> {},
                   snap |-> [k \in Keys |-> IF k \in Hook[h].writes THEN entry[k] ELSE Absent]]
<1>1. /\ call[c].st = "idle" /\ call' = [call EXCEPT ![c] = new]
      /\ Become(begun) /\ UNCHANGED <<mounted, failed, jar>>
  BY DEF Start, session
<1>2. new.st = "sent" /\ new.hook = h
  OBVIOUS
<1> HIDE DEF new
<1>3. call'[c] = new /\ \A d \in Calls \ {c} : call'[d] = call[d]
  BY <1>1 DEF TypeOK
<1>4. \A k \in Hook[h].settled : Awaited(k)'
  BY <1>2, <1>3 DEF Awaited, Pending
<1>5. ASSUME NEW k \in Keys, Awaited(k) PROVE Awaited(k)'
  <2>1. PICK d \in Calls : Pending(d) /\ k \in Hook[call[d].hook].settled
    BY <1>5 DEF Awaited
  <2>2. d # c
    BY <1>1, <2>1 DEF Pending
  <2> QED BY <1>3, <2>1, <2>2 DEF Awaited, Pending
<1>6. ASSUME NEW k \in Keys
      PROVE  /\ Unmarked(begun[k])
             /\ begun[k] = Query(k) \/ k \in Hook[h].settled
  <2>1. Query(k) \in Pair /\ Unmarked(Query(k))
    BY QueryType DEF Resuming
  <2>2. Unmarked(CancelFetch(Query(k)))
    BY <2>1, CancelUnmarks
  <2>3. Unmarked(Wrote(c, h, k))
    BY <2>2, SetResumes DEF Wrote
  <2>4. begun[k] = Query(k) \/ k \in Hook[h].cancels \cup Hook[h].writes
    OBVIOUS
  <2>5. begun[k] \in {Wrote(c, h, k), CancelFetch(Query(k)), Query(k)}
    OBVIOUS
  <2> HIDE DEF begun
  <2> QED BY <2>1, <2>2, <2>3, <2>4, <2>5, HookShape
<1> HIDE DEF begun
<1>7. \A k \in Keys : Unmarked(Query(k))'
  BY <1>1, <1>6, BecomeResumes
<1>8. CancelledFetchesResume'
  <2> SUFFICES ASSUME ~Excused', NEW k \in mounted', Waits(Query(k))' PROVE Awaited(k)'
    BY ResumeMeans DEF Excused, CancelledFetchesResume, Waits, Awaited, Query, Running
  <2>1. k \in Keys /\ k \in mounted /\ Waits(begun[k])
    BY <1>1, BecomeResumes DEF TypeOK
  <2>2. CASE begun[k] = Query(k)
    <3>1. Awaited(k)
      BY <1>1, <2>1, <2>2, ResumeMeans DEF Resuming, Excused
    <3> QED BY <1>5, <2>1, <3>1
  <2>3. CASE k \in Hook[h].settled
    BY <1>4, <2>3
  <2> QED BY <1>6, <2>1, <2>2, <2>3
<1> QED BY <1>7, <1>8 DEF Resuming

\* An answer: every settled key on display is fetched, and the other keys are as
\* they were or have new data.
LEMMA AnswerResumes ==
    ASSUME TypeOK, Resuming, NEW c \in Calls, NEW after, Become(after),
           \A d \in Calls \ {c} : call'[d] = call[d],
           UNCHANGED <<mounted, failed, jar>>,
           \A k \in Keys :
               /\ Unmarked(after[k])
               /\ k \in mounted /\ jar # NoUser /\ Waits(after[k]) =>
                     after[k] = Query(k) /\ k \notin Hook[call[c].hook].settled
    PROVE  Resuming'
<1>1. \A k \in Keys : Unmarked(Query(k))'
  BY BecomeResumes
<1>2. CancelledFetchesResume'
  <2> SUFFICES ASSUME ~Excused', NEW k \in mounted', Waits(Query(k))' PROVE Awaited(k)'
    BY DEF Excused, CancelledFetchesResume, Waits, Awaited, Query, Running
  <2>1. k \in Keys /\ k \in mounted /\ Waits(after[k])
    BY BecomeResumes DEF TypeOK
  <2>2. Waits(Query(k)) /\ k \notin Hook[call[c].hook].settled
    BY <2>1 DEF Excused
  <2>3. Awaited(k)
    BY <2>1, <2>2, ResumeMeans DEF Resuming, Excused
  <2>4. PICK d \in Calls : Pending(d) /\ k \in Hook[call[d].hook].settled
    BY <2>3 DEF Awaited
  <2> QED BY <2>2, <2>4 DEF Awaited, Pending
<1> QED BY <1>1, <1>2 DEF Resuming

LEMMA SucceededResumes ==
    ASSUME Inv, Resuming, NEW c \in Calls, call[c].st = "applied", NEW k \in Keys
    PROVE  /\ Unmarked(Succeeded(c, k))
           /\ k \in mounted /\ jar # NoUser /\ Waits(Succeeded(c, k)) =>
                 Succeeded(c, k) = Query(k) /\ k \notin Hook[call[c].hook].settled
<1> DEFINE h == Hook[call[c].hook]
           value == IF h.whole THEN call[c].answer ELSE entry[k].value \cup {c}
           owner == IF HasData(k) /\ ~h.whole THEN entry[k].owner ELSE call[c].user
           kept == IF k \notin h.stores THEN Query(k) ELSE SetData(Query(k), value, owner, "mutation")
           settles == k \in h.succeeded \cup h.settled
<1>1. TypeOK /\ Query(k) \in Pair /\ Unmarked(Query(k))
  BY QueryType DEF Inv, Resuming
<1>2. value \in SUBSET Calls /\ owner \in Users \cup {NoUser}
  <2>1. call[c] \in Call /\ entry[k] \in Entry
    BY <1>1 DEF TypeOK
  <2>2. /\ entry[k].value \in SUBSET Calls /\ call[c].answer \in SUBSET Calls
        /\ entry[k].owner \in Users \cup {NoUser} /\ call[c].user \in Users \cup {NoUser}
    BY <2>1 DEF Call, Entry
  <2> QED BY <2>2
<1>3. Succeeded(c, k) = IF settles THEN Invalidate(kept, k \in mounted) ELSE kept
  BY DEF Succeeded
<1>4. kept = Query(k) \/ kept = SetData(Query(k), value, owner, "mutation")
  OBVIOUS
<1>5. settles \in BOOLEAN /\ (k \in mounted) \in BOOLEAN /\ (k \in h.settled => settles)
  OBVIOUS
<1> HIDE DEF value, owner, kept, settles
<1>6. kept \in Pair /\ Unmarked(kept) /\ (Waits(kept) => kept = Query(k))
  BY <1>1, <1>2, <1>4, SetType, SetResumes
<1>7. CASE settles
  BY <1>3, <1>5, <1>6, <1>7, InvalidateResumes
<1>8. CASE ~settles
  BY <1>3, <1>5, <1>6, <1>8
<1> QED BY <1>5, <1>7, <1>8

LEMMA FailedResumes ==
    ASSUME Inv, Resuming, NEW c \in Calls, Pending(c), NEW k \in Keys
    PROVE  /\ Unmarked(Failed(c, k))
           /\ k \in mounted /\ jar # NoUser /\ Waits(Failed(c, k)) =>
                 Failed(c, k) = Query(k) /\ k \notin Hook[call[c].hook].settled
<1> DEFINE snap == call[c].snap[k]
           restored == SetData(Query(k), snap.value, snap.owner, "mutation")
           kept == IF snap.st = "data" THEN restored ELSE Query(k)
           settles == k \in Hook[call[c].hook].settled
<1>1. TypeOK /\ Query(k) \in Pair /\ Unmarked(Query(k))
  BY QueryType DEF Inv, Resuming
<1>2. snap.value \in SUBSET Calls /\ snap.owner \in Users \cup {NoUser}
  <2>1. call[c] \in Call
    BY <1>1 DEF TypeOK
  <2>2. snap \in Entry
    BY <2>1 DEF Call
  <2> QED BY <2>2 DEF Entry
<1>3. Failed(c, k) = IF settles THEN Invalidate(kept, k \in mounted) ELSE kept
  BY DEF Failed
<1>4. kept = Query(k) \/ kept = restored
  OBVIOUS
<1>5. settles \in BOOLEAN /\ (k \in mounted) \in BOOLEAN
  OBVIOUS
<1> HIDE DEF snap
<1>6. restored \in Pair /\ Unmarked(restored) /\ ~Waits(restored)
  BY <1>1, <1>2, SetType, SetResumes
<1> HIDE DEF restored, kept, settles
<1>7. kept \in Pair /\ Unmarked(kept) /\ (Waits(kept) => kept = Query(k))
  BY <1>1, <1>4, <1>6
<1>8. CASE settles
  BY <1>3, <1>5, <1>7, <1>8, InvalidateResumes
<1>9. CASE ~settles
  BY <1>3, <1>7, <1>9 DEF settles
<1> QED BY <1>5, <1>8, <1>9

\* A step of the cache alone: whoever begins to be on display is fetched.
LEMMA CacheResumes ==
    ASSUME TypeOK, Resuming,
           \A c \in Calls : Pending(c) => Pending(c)' /\ call'[c].hook = call[c].hook,
           Excused => Excused', mounted' \subseteq Keys,
           \A k \in Keys :
               /\ Unmarked(Query(k))'
               /\ k \in mounted' /\ Waits(Query(k))' =>
                     Excused' \/ (k \in mounted /\ Waits(Query(k)))
    PROVE  Resuming'
<1>1. CancelledFetchesResume'
  <2> SUFFICES ASSUME ~Excused', NEW k \in mounted', Waits(Query(k))' PROVE Awaited(k)'
    BY DEF Excused, CancelledFetchesResume, Waits, Awaited, Query, Running
  <2>1. k \in mounted /\ Waits(Query(k)) /\ ~Excused
    OBVIOUS
  <2>2. Awaited(k)
    BY <2>1, ResumeMeans DEF Resuming
  <2> QED BY <2>2 DEF Awaited
<1> QED BY <1>1 DEF Resuming

LEMMA ServeResumes ==
    ASSUME TypeOK, Resuming, NEW c \in Calls, Serve(c) \/ ServeLate(c)
    PROVE  Resuming'
<1>1. UNCHANGED <<mounted, entry, fetch, failed, jar>> /\ mounted \subseteq Keys
  BY DEF Serve, ServeLate, TypeOK, session, counts
<1>2. ASSUME NEW d \in Calls, Pending(d) PROVE Pending(d)' /\ call'[d].hook = call[d].hook
  <2>1. call[d] \in Call /\ call \in [Calls -> Call]
    BY DEF TypeOK
  <2>2. CASE Serve(c)
    <3>1. PICK x : call' = [call EXCEPT ![c].st = "applied", ![c].answer = x]
      BY <2>2 DEF Serve
    <3> QED BY <1>2, <2>1, <3>1 DEF Pending, Call
  <2>3. CASE ServeLate(c)
    BY <1>2, <2>1, <2>3 DEF ServeLate, Pending
  <2> QED BY <2>2, <2>3
<1>3. \A k \in Keys : (Unmarked(Query(k))' <=> Unmarked(Query(k))) /\ (Waits(Query(k))' <=> Waits(Query(k)))
  BY <1>1 DEF Unmarked, Waits, Query
<1>4. Excused => Excused'
  BY <1>1 DEF Excused
<1> QED BY <1>1, <1>2, <1>3, <1>4, CacheResumes DEF Resuming

LEMMA FetchResumes ==
    ASSUME TypeOK, Resuming, NEW k \in Keys, Refetch(k) \/ Read(k) \/ Arrive(k) \/ FetchFails(k)
    PROVE  Resuming'
<1>1. /\ UNCHANGED <<mounted, call, jar>> /\ mounted \subseteq Keys
      /\ failed' = failed \/ failed' = TRUE
  BY DEF Refetch, Read, Arrive, FetchFails, TypeOK, session, counts
<1>2. Query(k) \in Pair /\ Unmarked(Query(k)) /\ entry[k] \in Entry /\ fetch[k] \in Fetch
  BY QueryType DEF Resuming, TypeOK
<1>3. \A j \in Keys \ {k} : entry'[j] = entry[j] /\ fetch'[j] = fetch[j]
  BY DEF Refetch, Read, Arrive, FetchFails, TypeOK
<1>4. Unmarked(Query(k))' /\ (Waits(Query(k))' => Excused')
  <2>1. CASE Refetch(k)
    <3>1. entry'[k] = Ask(Query(k)).entry /\ fetch'[k] = Ask(Query(k)).fetch
      BY <2>1 DEF Refetch, TypeOK
    <3> QED BY <1>1, <1>2, <3>1, AskResumes DEF Unmarked, Waits, Query, Excused
  <2>2. CASE Read(k)
    <3>1. PICK x : fetch' = [fetch EXCEPT ![k].st = "read", ![k].value = x] /\ entry' = entry
      BY <2>2 DEF Read
    <3>2. fetch'[k].st = "read" /\ fetch'[k].before = fetch[k].before
      BY <1>2, <3>1 DEF TypeOK, Fetch
    <3> QED BY <1>2, <3>1, <3>2 DEF Unmarked, Waits, Query
  <2>3. CASE Arrive(k)
    <3>1. entry'[k].st = "data" /\ entry'[k].invalid = FALSE
      BY <2>3 DEF Arrive, TypeOK
    <3> QED BY <3>1 DEF Unmarked, Waits, Query
  <2>4. CASE FetchFails(k)
    <3>1. /\ entry' = [entry EXCEPT ![k].invalid = HasData(k)] /\ fetch' = [fetch EXCEPT ![k] = NoFetch]
          /\ failed' = TRUE
      BY <2>4 DEF FetchFails
    <3>2. entry'[k].st = entry[k].st /\ (entry'[k].invalid <=> entry[k].st = "data") /\ fetch'[k] = NoFetch
      BY <1>2, <3>1 DEF TypeOK, Entry, HasData
    <3> QED BY <3>1, <3>2 DEF Unmarked, Query, NoFetch, Excused
  <2> QED BY <2>1, <2>2, <2>3, <2>4
<1>5. ASSUME NEW j \in Keys
      PROVE  /\ Unmarked(Query(j))'
             /\ Waits(Query(j))' => Excused' \/ Waits(Query(j))
  <2>1. CASE j = k
    BY <1>4, <2>1
  <2>2. CASE j # k
    <3>1. Unmarked(Query(j)) /\ entry'[j] = entry[j] /\ fetch'[j] = fetch[j]
      BY <1>3, <2>2 DEF Resuming
    <3> QED BY <3>1 DEF Unmarked, Waits, Query
  <2> QED BY <2>1, <2>2
<1>6. \A d \in Calls : Pending(d) => Pending(d)' /\ call'[d].hook = call[d].hook
  BY <1>1 DEF Pending
<1>7. (Excused => Excused') /\ mounted' \subseteq Keys
  BY <1>1 DEF Excused
<1> QED BY <1>1, <1>5, <1>6, <1>7, CacheResumes

LEMMA NavigateResumes ==
    ASSUME TypeOK, Resuming, NEW S \in Screens, Navigate(S)
    PROVE  Resuming'
<1> DEFINE after == [k \in Keys |->
            CASE k \in mounted \ S -> Left(k)
              [] k \in S \ mounted ->
                    IF ~HasData(k) \/ entry[k].invalid THEN Ask(Query(k)) ELSE Query(k)
              [] OTHER -> Query(k)]
<1>1. mounted' = S /\ Become(after) /\ UNCHANGED <<call, failed, jar>>
  BY DEF Navigate, session, counts
<1>2. S \subseteq Keys
  BY CacheAssumption
<1>3. ASSUME NEW k \in Keys
      PROVE  /\ Unmarked(after[k])
             /\ k \in S /\ Waits(after[k]) => jar = NoUser \/ (k \in mounted /\ Waits(Query(k)))
  <2>1. Query(k) \in Pair /\ Unmarked(Query(k))
    BY QueryType DEF Resuming
  <2>2. CASE k \in mounted \ S
    <3>1. after[k] = IF k \in Signalled THEN CancelFetch(Query(k)) ELSE Query(k)
      BY <2>2 DEF Left
    <3> HIDE DEF after
    <3> QED BY <2>1, <2>2, <3>1, CancelUnmarks
  <2>3. CASE k \in S \ mounted
    <3>1. after[k] = IF ~HasData(k) \/ entry[k].invalid THEN Ask(Query(k)) ELSE Query(k)
      BY <2>3
    <3>2. ~(~HasData(k) \/ entry[k].invalid) => ~Waits(Query(k))
      BY DEF HasData, Waits, Query
    <3> HIDE DEF after
    <3> QED BY <2>1, <3>1, <3>2, AskResumes
  <2>4. CASE ~(k \in mounted \ S) /\ ~(k \in S \ mounted)
    <3>1. after[k] = Query(k)
      BY <2>4
    <3> HIDE DEF after
    <3> QED BY <2>1, <2>4, <3>1
  <2> QED BY <2>2, <2>3, <2>4
<1> HIDE DEF after
<1>4. ASSUME NEW k \in Keys
      PROVE  /\ Unmarked(Query(k))'
             /\ k \in mounted' /\ Waits(Query(k))' =>
                   Excused' \/ (k \in mounted /\ Waits(Query(k)))
  BY <1>1, <1>3, BecomeResumes DEF Excused
<1>5. \A d \in Calls : Pending(d) => Pending(d)' /\ call'[d].hook = call[d].hook
  BY <1>1 DEF Pending
<1>6. (Excused => Excused') /\ mounted' \subseteq Keys
  BY <1>1, <1>2 DEF Excused
<1> QED BY <1>2, <1>4, <1>5, <1>6, CacheResumes

LEMMA UnmountResumes ==
    ASSUME TypeOK, Resuming, Unmount
    PROVE  Resuming'
<1> DEFINE after == [k \in Keys |-> IF k \in mounted THEN Left(k) ELSE Query(k)]
<1>1. mounted' = {} /\ Become(after)
  BY DEF Unmount
<1>2. ASSUME NEW k \in Keys PROVE Unmarked(Query(k))'
  <2>1. Query(k) \in Pair /\ Unmarked(Query(k))
    BY QueryType DEF Resuming
  <2>2. Unmarked(after[k])
    BY <2>1, CancelUnmarks DEF Left
  <2> HIDE DEF after
  <2> QED BY <1>1, <2>2, BecomeResumes
<1> QED BY <1>1, <1>2 DEF Resuming, CancelledFetchesResume

LEMMA ClearedResumes ==
    ASSUME TypeOK, Cleared, mounted' \subseteq Keys
    PROVE  Resuming'
<1>1. \A k \in Keys : entry'[k] = Absent /\ fetch'[k] = NoFetch
  BY DEF Cleared
<1>2. Absent.st = "absent" /\ Absent.invalid = FALSE /\ NoFetch.before = FALSE
  BY DEF Absent, NoFetch
<1> QED BY <1>1, <1>2 DEF Resuming, CancelledFetchesResume, Unmarked, Query

LEMMA ResumingInit == Init => Resuming
<1> SUFFICES ASSUME Init PROVE Resuming
  OBVIOUS
<1>1. \A k \in Keys : entry[k] = Absent /\ fetch[k] = NoFetch
  BY DEF Init
<1>2. mounted = {}
  BY DEF Init
<1> QED BY <1>1, <1>2 DEF Resuming, CancelledFetchesResume, Unmarked, Query, Absent, NoFetch

LEMMA ResumingKept == Inv /\ Resuming /\ [Next]_vars => Resuming'
<1> SUFFICES ASSUME Inv, Resuming, [Next]_vars PROVE Resuming'
  OBVIOUS
<1>0. TypeOK
  BY DEF Inv
<1>1. ASSUME NEW c \in Calls, NEW h \in Hooks, Start(c, h) PROVE Resuming'
  BY <1>0, <1>1, StartResumes
<1>2. ASSUME NEW c \in Calls, Serve(c) \/ ServeLate(c) PROVE Resuming'
  BY <1>0, <1>2, ServeResumes
<1>3. ASSUME NEW c \in Calls, AnswerSuccess(c) PROVE Resuming'
  <2> DEFINE after == [k \in Keys |-> Succeeded(c, k)]
  <2>1. /\ call[c].st = "applied" /\ Become(after) /\ call' = [call EXCEPT ![c] = OverCall]
        /\ UNCHANGED <<mounted, failed, jar>>
    BY <1>3 DEF AnswerSuccess, session, counts
  <2>2. \A d \in Calls \ {c} : call'[d] = call[d]
    BY <1>0, <2>1 DEF TypeOK
  <2>3. \A k \in Keys :
            /\ Unmarked(after[k])
            /\ k \in mounted /\ jar # NoUser /\ Waits(after[k]) =>
                  after[k] = Query(k) /\ k \notin Hook[call[c].hook].settled
    BY <2>1, SucceededResumes
  <2> HIDE DEF after
  <2> QED BY <1>0, <2>1, <2>2, <2>3, AnswerResumes
<1>4. ASSUME NEW c \in Calls, AnswerError(c) PROVE Resuming'
  <2> DEFINE after == [k \in Keys |-> Failed(c, k)]
  <2>1. /\ Pending(c) /\ Become(after)
        /\ \A d \in Calls \ {c} : call'[d] = call[d]
        /\ UNCHANGED <<mounted, failed, jar>>
    BY <1>0, <1>4 DEF AnswerError, TypeOK, session, counts
  <2>2. \A k \in Keys :
            /\ Unmarked(after[k])
            /\ k \in mounted /\ jar # NoUser /\ Waits(after[k]) =>
                  after[k] = Query(k) /\ k \notin Hook[call[c].hook].settled
    BY <2>1, FailedResumes
  <2> HIDE DEF after
  <2> QED BY <1>0, <2>1, <2>2, AnswerResumes
<1>5. ASSUME NEW k \in Keys, Refetch(k) \/ Read(k) \/ Arrive(k) \/ FetchFails(k) PROVE Resuming'
  BY <1>0, <1>5, FetchResumes
<1>6. ASSUME NEW S \in Screens, Navigate(S) PROVE Resuming'
  BY <1>0, <1>6, NavigateResumes
<1>7. CASE Logout \/ LogoutAnswered \/ Expire
  BY <1>0, <1>7, ClearedResumes DEF Logout, LogoutAnswered, Expire, TypeOK
<1>8. CASE Unmount
  BY <1>0, <1>8, UnmountResumes
<1>9. CASE AskIdentity \/ ArriveIdentity \/ IdentityFails \/ UNCHANGED vars
  <2>1. UNCHANGED <<mounted, entry, fetch, call, failed, jar>>
    BY <1>9 DEF AskIdentity, ArriveIdentity, IdentityFails, vars, session, counts
  <2> QED BY <2>1 DEF Resuming, CancelledFetchesResume, Unmarked, Query, Running, Pending
<1>10. ASSUME NEW u \in Users, SignIn(u) PROVE Resuming'
  <2>1. UNCHANGED <<mounted, entry, fetch>> /\ mounted = {}
    BY <1>10 DEF SignIn
  <2> QED BY <2>1 DEF Resuming, CancelledFetchesResume, Unmarked, Query
<1> QED BY <1>1, <1>2, <1>3, <1>4, <1>5, <1>6, <1>7, <1>8, <1>9, <1>10 DEF Next

-----------------------------------------------------------------------------
(* The theorems.                                                            *)

LEMMA Invariant == Spec => []Inv
<1>1. Init => Inv
  BY InitInv
<1>2. Inv /\ [Next]_vars => Inv'
  BY InvKept
<1> QED BY <1>1, <1>2, PTL DEF Spec

\* Every state of the cache, of the requests and of the server is of the kind
\* that the screens expect.
THEOREM TypeCorrect == Spec => []TypeOK
<1>1. Inv => TypeOK
  BY DEF Inv
<1> QED BY <1>1, Invariant, PTL

\* A list that no mutation is changing and that is not marked as out of date is
\* the server's, for every mutation whose onSettled invalidates what it wrote:
\* a restored snapshot, or data merged by onSuccess, never stays.
THEOREM ListsSettle == Spec => []SettledListsAreCurrent
<1>1. ASSUME Inv PROVE SettledListsAreCurrent
  <2> SUFFICES ASSUME NEW k \in Keys \ doubtful, Followed(k),
                      HasData(k), ~entry[k].invalid, ~Running(k),
                      \A c \in Calls : Pending(c) => k \notin Touches(call[c].hook)
               PROVE  Current(k)
    BY DEF SettledListsAreCurrent
  <2>1. Trusted(k) /\ ~Busy(k)
    BY <1>1 DEF Inv, Sure, Busy
  <2>2. Faithful(Query(k), k)
    BY <2>1 DEF Trusted
  <2> QED BY <2>2 DEF Faithful, Query, HasData, Running, Current
<1> QED BY <1>1, Invariant, PTL

\* Once a logout is over, no list that was fetched with the cookies of a session
\* that has left is cached or still under way, and none at all while nobody is
\* shown: the cache is cleared a second time when the request is answered, which a
\* screen refetching meanwhile makes necessary. An answer of auth.me, which is not
\* cleared, may show its user again, but brings no list back.
THEOREM FetchedListsAreGone == Spec => []FetchedListsLeave
<1>1. Inv => FetchedListsLeave
  BY DEF Inv, Mine, FetchedListsLeave, Query, Running
<1> QED BY <1>1, Invariant, PTL

\* The fetch that an optimistic mutation cancels is taken up again, whatever is
\* invalidated, refetched, left or cleared before its answer.
THEOREM FetchesResume == Spec => []CancelledFetchesResume
<1>1. Init => Resuming
  BY ResumingInit
<1>2. Inv /\ Resuming /\ [Next]_vars => Resuming'
  BY ResumingKept
<1>3. Resuming => CancelledFetchesResume
  BY DEF Resuming
<1> QED BY <1>1, <1>2, <1>3, Invariant, PTL DEF Spec

=============================================================================
