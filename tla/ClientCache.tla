----------------------------- MODULE ClientCache -----------------------------
(***************************************************************************)
(* The browser's persistence (workspace/WorkspacePersistence.ts behind     *)
(* WorkspaceStore.ts): the in-memory state, the IndexedDB stores, and the  *)
(* two ways a change travels from one to the other.                        *)
(*                                                                         *)
(*  - wq is the promise chain writeQueue: one transaction at a time, in    *)
(*    order, failures reported (chat content, caches, settings).           *)
(*  - dq are the direct writes (ready().then(putRow)): their transaction   *)
(*    is created at once, before any queued one that has not started, and  *)
(*    a failure is swallowed.  A session is deleted by two of them, the    *)
(*    second created when the first has committed (late).                  *)
(*                                                                         *)
(* A chat is the length of its finished prefix; a cache entry is its       *)
(* time stamp; a setting is the number of times it was changed.  Memory    *)
(* and database have the same shape, so a transaction is a patch of it.    *)
(***************************************************************************)
EXTENDS Integers, Sequences, FiniteSets, FiniteSetsExt, SequencesExt, Functions

CONSTANTS NSessions,    \* sessions of the project, 1 .. NSessions
          MaxTurn,      \* longest chat
          NKeys,        \* entries a cache can be asked to hold
          Caches,       \* which of the caches "commits", "diff", "file"
          Limit,        \* CHAT_CONTENT/FILE/DIFF/PROJECT_COMMITS_CACHE_MAX_ENTRIES
          MaxBytes,     \* CHAT_CONTENT_CACHE_MAX_BYTES, in turns
          DiffLimit,    \* DIFF_CACHE_LIMIT, per project
          MaxAge,       \* CACHE_MAX_AGE_MS, in clock ticks
          Settings,     \* keys of the global state
          ChatOps, OtherOps, \* bounds: calls on the chat cache, on the rest
          MaxClock, MaxFails, MaxCrashes  \* bounds: ticks, failures, reloads

BoundsAreNatural ==
  /\ {NSessions, MaxTurn, NKeys, Limit, MaxBytes, DiffLimit, MaxAge} \subseteq Nat \ {0}
  /\ {ChatOps, OtherOps, MaxClock, MaxFails, MaxCrashes} \subseteq Nat
  /\ Caches \subseteq {"commits", "diff", "file"}

VARIABLES mem, db, wq, dq, late, phase, clock, error, cleaned, chatOps, otherOps, fails, crashes

vars == <<mem, db, wq, dq, late, phase, clock, error, cleaned, chatOps, otherOps, fails, crashes>>

None == -1                       \* no row
NoIndex == [latest |-> None, cursor |-> 0]
NoContent == [len |-> None, at |-> 0]
Legacy == -2                     \* turnsJson is not a string
Sessions == 1 .. NSessions
Stores == {"global", "obsolete", "project", "index", "content", "cache"}
Keys == [global |-> Settings, obsolete |-> {"token"}, project |-> {"state"},
         index |-> Sessions, content |-> Sessions, cache |-> Caches \X (1 .. NKeys)]

Row == [global |-> Int, obsolete |-> Int, project |-> Int, cache |-> Int,
        index |-> {NoIndex} \union [latest : 0 .. MaxTurn, cursor : 0 .. MaxTurn],
        content |-> {NoContent} \union [len : 0 .. MaxTurn \union {Legacy}, at : 0 .. MaxAge + 1 + MaxClock]]

NoRow(st) == CASE st = "index" -> NoIndex [] st = "content" -> NoContent [] OTHER -> None
Empty(st) == [k \in Keys[st] |-> NoRow(st)]
NoRows == [st \in Stores |-> Empty(st)]
Nothing == [k \in {} |-> None]

\* One readwrite transaction of mutateStores: clear, then deletes (None) and puts.
Tx(clear, st, rows) == [clear |-> clear, put |-> [s \in Stores |-> IF s = st THEN rows ELSE Nothing], kind |-> st]
Apply(d, tx) ==
  [st \in Stores |-> [k \in Keys[st] |->
     CASE k \in DOMAIN tx.put[st] -> tx.put[st][k]
       [] k \notin DOMAIN tx.put[st] /\ st \in tx.clear -> NoRow(st)
       [] OTHER -> d[st][k]]]

defaultState == [NoRows EXCEPT !.global = [g \in Settings |-> 0], !.project = [k \in {"state"} |-> 0]]
-----------------------------------------------------------------------------
(* The algorithms. *)

persistedFinishedPrefixTurnIndex(fin) == CHOOSE n \in 0 .. MaxTurn : 1 .. n \subseteq fin /\ (n + 1) \notin fin

Lower(a, b) == IF a < b THEN a ELSE b
reconcileRaw(latest, cursor, len) == IF latest < cursor THEN None ELSE Lower(cursor, len)
reconcile(latest, cursor, len) == IF latest < cursor THEN 0 ELSE Lower(cursor, len)

\* Expired entries, then the least recently used until the rest is in budget.
\* An entry is [at, bytes]; e maps the keys of the present entries to them.
Older(e, k, j) == \/ e[k].at < e[j].at
                  \/ e[k].at = e[j].at /\ (k = j \/ k < j)
selectCacheEvictionKeys(e, maxBytes, now) ==
  LET alive == {k \in DOMAIN e : now - e[k].at <= MaxAge}
      fromHere(k) == {j \in alive : Older(e, k, j)}
      over(K) == Cardinality(K) > Limit \/ MapThenSumSet(LAMBDA j : e[j].bytes, K) > maxBytes
  IN  {k \in DOMAIN e : k \in alive => over(fromHere(k))}

\* An entry whose time is not known (restored without a content row) counts as
\* written at time 0, which is always expired: the clock starts at MaxAge + 1.
ContentEntries(m) == [s \in {s \in Sessions : m.content[s] # NoContent} |->
                        [at |-> m.content[s].at, bytes |-> m.content[s].len]]
\* evictChatContentEntries: content goes, and the cursor of the index with it.
evictChatContentEntries(m, now) ==
  LET out == selectCacheEvictionKeys(ContentEntries(m), MaxBytes, now)
  IN  [m EXCEPT !.content = [s \in Sessions |-> IF s \in out THEN NoContent ELSE @[s]],
                !.index = [s \in Sessions |-> IF s \in out /\ @[s] # NoIndex THEN [@[s] EXCEPT !.cursor = 0] ELSE @[s]]]

CacheEntries(m, c) == [k \in {k \in 1 .. NKeys : m.cache[c, k] # None} |-> [at |-> m.cache[c, k], bytes |-> 1]]
\* putProjectDiff keeps the newest DIFF_CACHE_LIMIT diffs of the project first.
PerProject(m, c) ==
  LET e == CacheEntries(m, c)
      newer(k) == {j \in DOMAIN e : e[j].at > e[k].at \/ (e[j].at = e[k].at /\ j < k)}
  IN  IF c = "diff" THEN {k \in DOMAIN e : Cardinality(newer(k)) >= DiffLimit} ELSE {}
evictEntries(m, c, now) ==
  LET m1 == [m EXCEPT !.cache = [ck \in DOMAIN @ |-> IF ck[1] = c /\ ck[2] \in PerProject(m, c) THEN None ELSE @[ck]]]
      out == selectCacheEvictionKeys(CacheEntries(m1, c), NKeys, now)
  IN  [m1 EXCEPT !.cache = [ck \in DOMAIN @ |-> IF ck[1] = c /\ ck[2] \in out THEN None ELSE @[ck]]]

\* The rows of store st that differ between two states, as a patch.
Changed(st, m, n) == [k \in {k \in Keys[st] : m[st][k] # n[st][k]} |-> n[st][k]]
-----------------------------------------------------------------------------
Init ==
  /\ mem = NoRows /\ wq = <<>> /\ dq = <<>> /\ late = {}
  /\ db \in {NoRows,
             [NoRows EXCEPT !.global = [g \in Settings |-> 0], !.obsolete["token"] = 1],
             [NoRows EXCEPT !.global = [g \in Settings |-> 0], !.content[1] = [len |-> Legacy, at |-> 1]]}
  /\ phase = "loading" /\ clock = MaxAge + 1 /\ error = FALSE /\ cleaned = FALSE
  /\ chatOps = 0 /\ otherOps = 0 /\ fails = 0 /\ crashes = 0

Quiet == wq = <<>> /\ dq = <<>> /\ late = {}
Enqueue(tx) == wq' = Append(wq, tx)

(* initialize(): what the page does with the rows it finds. *)

restoreWithoutRepair(d) ==
  [d EXCEPT !.obsolete = Empty("obsolete"), !.global = [g \in Settings |-> IF @[g] = None THEN 0 ELSE @[g]]]
restoreChatSessions(d) ==
  LET len(s) == IF d.content[s] = NoContent THEN 0 ELSE d.content[s].len
      cur(s) == reconcile(d.index[s].latest, d.index[s].cursor, len(s))
  IN  [d EXCEPT !.obsolete = Empty("obsolete"), !.project["state"] = IF @ = None THEN 0 ELSE @,
                !.global = [g \in Settings |-> IF @[g] = None THEN 0 ELSE @[g]],
                !.index = [s \in Sessions |-> IF @[s] = NoIndex THEN NoIndex ELSE [@[s] EXCEPT !.cursor = cur(s)]],
                !.content = [s \in Sessions |-> IF d.index[s] = NoIndex THEN @[s]
                               ELSE [len |-> cur(s), at |-> IF @[s] = NoContent THEN 0 ELSE @[s].at]]]

hasIncompatibleChatContentRows(d) == \E s \in Sessions : d.content[s] # NoContent /\ d.content[s].len = Legacy
Rebuildable == {"index", "content", "cache"}

ScrubCredentials ==
  /\ phase = "loading" /\ db.obsolete # Empty("obsolete")
  /\ db' = Apply(db, Tx({"obsolete"}, "obsolete", Nothing))
  /\ UNCHANGED <<mem, wq, dq, late, phase, clock, error, cleaned, chatOps, otherOps, fails, crashes>>

CanLoad == phase = "loading" /\ db.obsolete = Empty("obsolete")

seedInitialStateToDb ==
  /\ CanLoad /\ db = NoRows
  /\ mem' = defaultState
  /\ db' = [db EXCEPT !.global = defaultState.global]
  /\ phase' = "ready"
  /\ UNCHANGED <<wq, dq, late, clock, error, cleaned, chatOps, otherOps, fails, crashes>>

\* The commits stay; chat, diff and file caches go (they share one clear here).
resetPersistentCache ==
  /\ CanLoad /\ hasIncompatibleChatContentRows(db)
  /\ LET keep == [db EXCEPT !.index = Empty("index"), !.content = Empty("content"),
                            !.cache = [ck \in DOMAIN @ |-> IF ck[1] = "commits" THEN @[ck] ELSE None]]
     IN  db' = keep /\ mem' = restoreChatSessions(keep)
  /\ phase' = "ready"
  /\ UNCHANGED <<wq, dq, late, clock, error, cleaned, chatOps, otherOps, fails, crashes>>

Restore ==
  /\ CanLoad /\ db # NoRows /\ ~ hasIncompatibleChatContentRows(db)
  /\ mem' = restoreChatSessions(db)
  /\ phase' = IF \E s \in Sessions : \/ mem'.index[s] # db.index[s]
                                     \/ mem'.content[s] # NoContent /\ db.content[s] # NoContent /\ mem'.content[s] # db.content[s]
              THEN "repair" ELSE "prune"
  /\ UNCHANGED <<db, wq, dq, late, clock, error, cleaned, chatOps, otherOps, fails, crashes>>

\* The repaired rows are written with a fresh time stamp; memory keeps the old one.
persistRepairedChatCache ==
  /\ phase = "repair" /\ phase' = "prune"
  /\ db' = [db EXCEPT !.index = mem.index,
                      !.content = [s \in Sessions |-> IF mem.content[s] = NoContent THEN NoContent ELSE [mem.content[s] EXCEPT !.at = clock]]]
  /\ UNCHANGED <<mem, wq, dq, late, clock, error, cleaned, chatOps, otherOps, fails, crashes>>

Pruned == LET m1 == evictChatContentEntries(mem, clock)
          IN  FoldSet(LAMBDA c, m : LET out == selectCacheEvictionKeys(CacheEntries(m, c), NKeys, clock)
                                    IN  [m EXCEPT !.cache = [ck \in DOMAIN @ |-> IF ck[1] = c /\ ck[2] \in out THEN None ELSE @[ck]]],
                      m1, Caches)
pruneCachesAfterRestore ==
  /\ phase = "prune" /\ phase' = "ready"
  /\ mem' = Pruned
  /\ db' = [db EXCEPT !.cache = [k \in DOMAIN @ |-> IF mem.cache[k] # Pruned.cache[k] THEN None ELSE @[k]],
                      !.content = [s \in Sessions |-> IF mem.content[s] # Pruned.content[s] THEN NoContent ELSE @[s]],
                      !.index = [s \in Sessions |-> IF mem.content[s] # Pruned.content[s] THEN Pruned.index[s] ELSE @[s]]]
  /\ UNCHANGED <<wq, dq, late, clock, error, cleaned, chatOps, otherOps, fails, crashes>>

\* A failed scrub, seed or reset fails initialize() and the page only shows the
\* error; a failed repair or prune is reported and the page goes on.
InitializeFails ==
  /\ fails < MaxFails /\ fails' = fails + 1
  /\ \/ /\ phase = "loading" /\ phase' = "failed" /\ UNCHANGED <<mem, error>>
     \/ /\ phase = "repair" /\ phase' = "prune" /\ error' = TRUE /\ UNCHANGED mem
     \/ /\ phase = "prune" /\ phase' = "ready" /\ error' = TRUE /\ mem' = Pruned
  /\ UNCHANGED <<db, wq, dq, late, clock, cleaned, chatOps, otherOps, crashes>>
-----------------------------------------------------------------------------
(* The calls of the application. *)

ChatOp == phase = "ready" /\ chatOps < ChatOps /\ chatOps' = chatOps + 1
          /\ UNCHANGED <<db, late, phase, clock, error, cleaned, otherOps, fails, crashes>>
OtherOp == phase = "ready" /\ otherOps < OtherOps /\ otherOps' = otherOps + 1
          /\ UNCHANGED <<db, late, phase, clock, error, cleaned, chatOps, fails, crashes>>

\* enqueueBoundedChatContentWrite on a state [mem, wq, dq]: content and, when
\* idx, the index row of s, with what the write evicts, in one transaction.
enqueueBoundedChatContentWrite(st, s, len, idx) ==
  LET m1 == [st.mem EXCEPT !.content[s] = [len |-> len, at |-> clock]]
      m2 == evictChatContentEntries(m1, clock)
      out == {k \in Sessions : m1.content[k] # m2.content[k]}
      rows == {k \in Sessions : m1.index[k] # NoIndex /\ k \in out} \union (IF idx THEN {s} ELSE {})
      tx == [Tx({}, "content", [k \in out \union {s} |-> m2.content[k]])
               EXCEPT !.put.index = [k \in rows |-> m2.index[k]]]
  IN  [st EXCEPT !.mem = m2, !.wq = Append(@, tx)]

\* patchProjectChatSession, and one entry of replaceProjectChatSessions.
patchSession(st, s, latest, cursor) ==
  LET len == IF st.mem.content[s] = NoContent THEN 0 ELSE st.mem.content[s].len
      cur == reconcile(latest, cursor, len)
      row == [latest |-> latest, cursor |-> cur]
      st1 == [st EXCEPT !.mem.index[s] = row]
  IN  IF cur # len
      THEN enqueueBoundedChatContentWrite(st1, s, cur, TRUE)
      ELSE [st1 EXCEPT !.dq = Append(@, Tx({}, "index", s :> row))]


Now == [mem |-> mem, wq |-> wq, dq |-> dq]
Becomes(st) == mem' = st.mem /\ wq' = st.wq /\ dq' = st.dq

deleteSession(st, s) ==
  [st EXCEPT !.mem.index[s] = NoIndex, !.mem.content[s] = NoContent,
             !.dq = Append(@, Tx({}, "index", s :> NoIndex))]

patchProjectChatSession(s, latest, cursor) ==
  ChatOp /\ Becomes(patchSession(Now, s, latest, cursor))

\* The turns of the call are the set fin of the finished ones; the others are dropped.
patchProjectChatSessionContent(s, fin) ==
  /\ ChatOp
  /\ LET n == persistedFinishedPrefixTurnIndex(fin)
         known == mem.index[s] # NoIndex
         cur == IF known THEN reconcile(mem.index[s].latest, n, n) ELSE n
         moved == known /\ mem.index[s].cursor # cur
     IN  Becomes(enqueueBoundedChatContentWrite(
           IF moved THEN [Now EXCEPT !.mem.index[s].cursor = cur] ELSE Now, s, cur, moved))

deleteProjectChatSession(s) == ChatOp /\ Becomes(deleteSession(Now, s))

replaceProjectChatSessions(listed, latest, cursor) ==
  /\ ChatOp
  /\ LET keep == FoldLeft(LAMBDA st, s : patchSession(st, s, latest, cursor), Now, SetToSortSeq(listed, <))
         gone == {s \in Sessions \ listed : keep.mem.index[s] # NoIndex}
     IN  Becomes(FoldLeft(LAMBDA st, s : deleteSession(st, s), keep, SetToSortSeq(gone, <)))

patchGlobalState(g) ==
  /\ OtherOp
  /\ mem' = [mem EXCEPT !.global[g] = @ + 1]
  /\ Enqueue(Tx({}, "global", g :> mem'.global[g]))
  /\ UNCHANGED dq


patchProjectState ==
  /\ OtherOp
  /\ mem' = [mem EXCEPT !.project["state"] = @ + 1]
  /\ dq' = Append(dq, Tx({}, "project", "state" :> mem'.project["state"]))
  /\ UNCHANGED wq

putCached(c, k) ==
  /\ OtherOp
  /\ LET m1 == [mem EXCEPT !.cache[c, k] = clock]
         m2 == evictEntries(m1, c, clock)
     IN  mem' = m2 /\ Enqueue(Tx({}, "cache", <<c, k>> :> m2.cache[c, k] @@ Changed("cache", m1, m2)))
  /\ UNCHANGED dq


clearFileCache ==
  /\ OtherOp
  /\ mem' = [mem EXCEPT !.cache = [ck \in DOMAIN @ |-> IF ck[1] = "file" THEN None ELSE @[ck]]]
  /\ Enqueue(Tx({}, "cache", [ck \in {ck \in Keys.cache : ck[1] = "file"} |-> None]))
  /\ UNCHANGED dq

Cleared(m) == [m EXCEPT !.index = Empty("index"), !.content = Empty("content"), !.cache = Empty("cache")]
ClearAll == Tx(Rebuildable, "cleanup", Nothing)

clearCache == OtherOp /\ mem' = Cleared(mem) /\ Enqueue(ClearAll) /\ UNCHANGED dq
-----------------------------------------------------------------------------
(* The database. *)

\* A direct write commits or fails; the delete of an index row is followed by
\* that of the content row, as a transaction of its own.
IsDelete(tx) == tx.kind = "index" /\ \E s \in DOMAIN tx.put.index : tx.put.index[s] = NoIndex
DirectCommits ==
  /\ dq # <<>> /\ dq' = Tail(dq)
  /\ db' = Apply(db, Head(dq))
  /\ late' = IF IsDelete(Head(dq)) THEN late \union DOMAIN Head(dq).put.index ELSE late
  /\ UNCHANGED <<mem, wq, phase, clock, error, cleaned, chatOps, otherOps, fails, crashes>>
DirectFails ==
  /\ dq # <<>> /\ dq' = Tail(dq) /\ fails < MaxFails /\ fails' = fails + 1
  /\ UNCHANGED <<mem, db, wq, late, phase, clock, error, cleaned, chatOps, otherOps, crashes>>

LateDelete(s) ==
  /\ s \in late /\ late' = late \ {s}
  /\ db' = Apply(db, Tx({}, "content", s :> NoContent))
  /\ UNCHANGED <<mem, wq, dq, phase, clock, error, cleaned, chatOps, otherOps, fails, crashes>>

\* The head of the queue; the transactions of dq were created before it.
QueueCommits ==
  /\ wq # <<>> /\ dq = <<>> /\ wq' = Tail(wq)
  /\ db' = Apply(db, Head(wq))
  /\ UNCHANGED <<mem, dq, late, phase, clock, error, cleaned, chatOps, otherOps, fails, crashes>>
QueueFails ==
  /\ wq # <<>> /\ dq = <<>> /\ fails < MaxFails /\ fails' = fails + 1
  /\ wq' = IF Head(wq).kind = "cleanup" /\ Len(wq) > 1 /\ Head(Tail(wq)).kind = "retry" THEN Tail(Tail(wq)) ELSE Tail(wq)
  /\ error' = TRUE
  /\ UNCHANGED <<mem, db, dq, late, phase, clock, cleaned, chatOps, otherOps, crashes>>

\* persistGlobalRowsWithQuotaRecovery: the caches are cleared in memory, then in
\* the database, and the settings are written once more.
QuotaExceeded ==
  /\ wq # <<>> /\ dq = <<>> /\ Head(wq).kind = "global" /\ fails < MaxFails /\ fails' = fails + 1
  /\ mem' = Cleared(mem) /\ cleaned' = TRUE
  /\ wq' = <<ClearAll, [Head(wq) EXCEPT !.kind = "retry"]>> \o Tail(wq)
  /\ UNCHANGED <<db, dq, late, phase, clock, error, chatOps, otherOps, crashes>>

\* The page is closed or reloaded: memory and pending writes are gone.
Reload ==
  /\ crashes < MaxCrashes /\ crashes' = crashes + 1
  /\ mem' = NoRows /\ wq' = <<>> /\ dq' = <<>> /\ late' = {} /\ phase' = "loading" /\ error' = FALSE /\ cleaned' = FALSE
  /\ UNCHANGED <<db, clock, chatOps, otherOps, fails>>

Tick == clock < MaxAge + 1 + MaxClock /\ clock' = clock + 1
        /\ UNCHANGED <<mem, db, wq, dq, late, phase, error, cleaned, chatOps, otherOps, fails, crashes>>

ChatCalls ==
  \/ \E s \in Sessions, l \in 0 .. MaxTurn, c \in 0 .. MaxTurn : patchProjectChatSession(s, l, c)
  \/ \E s \in Sessions, fin \in SUBSET (1 .. MaxTurn) : patchProjectChatSessionContent(s, fin)
  \/ \E s \in Sessions : deleteProjectChatSession(s)
  \/ \E listed \in SUBSET Sessions, l \in 0 .. MaxTurn, c \in 0 .. MaxTurn : replaceProjectChatSessions(listed, l, c)
OtherCalls ==
  \/ \E g \in Settings : patchGlobalState(g)
  \/ patchProjectState
  \/ \E c \in Caches, k \in 1 .. NKeys : putCached(c, k)
  \/ clearFileCache
  \/ clearCache
Database ==
  \/ DirectCommits \/ DirectFails \/ (\E s \in Sessions : LateDelete(s))
  \/ QueueCommits \/ QueueFails \/ QuotaExceeded
Start ==
  \/ ScrubCredentials \/ seedInitialStateToDb \/ resetPersistentCache \/ Restore
  \/ persistRepairedChatCache \/ pruneCachesAfterRestore \/ InitializeFails

Next == Start \/ ChatCalls \/ OtherCalls \/ Database \/ Reload \/ Tick
Spec == Init /\ [][Next]_vars
-----------------------------------------------------------------------------
(* Properties. *)

\* Types of the state; an index row and a content row are what the code stores.
TypeOK ==
  /\ \A d \in {mem, db} : DOMAIN d = Stores
  /\ \A d \in {mem, db}, st \in Stores : DOMAIN d[st] = Keys[st] /\ \A k \in Keys[st] : d[st][k] \in Row[st]
  /\ phase \in {"loading", "repair", "prune", "ready", "failed"}
  /\ late \subseteq Sessions /\ clock \in MaxAge + 1 .. MaxAge + 1 + MaxClock
  /\ error \in BOOLEAN /\ cleaned \in BOOLEAN

\* The cursor the page asks the hub to continue from never passes the turns it
\* holds nor the session's latest turn (reconcilePersistedChatSessionCache),
\* whatever was evicted, deleted, lost in a crash or cleared for a quota: turns
\* past a hole would never be read.
CursorCovered ==
  phase \in {"prune", "ready"} =>
    \A s \in Sessions : mem.index[s] # NoIndex =>
      /\ mem.index[s].cursor <= mem.index[s].latest
      /\ mem.index[s].cursor <= (IF mem.content[s] = NoContent THEN 0 ELSE mem.content[s].len)

\* The caches in memory stay within their budgets, restored ones included
\* (selectCacheEvictionKeys, "applies global LRU budgets after cache writes").
WithinBudget ==
  phase = "ready" =>
    /\ Cardinality(DOMAIN ContentEntries(mem)) <= Limit
    /\ MapThenSumSet(LAMBDA s : mem.content[s].len, DOMAIN ContentEntries(mem)) <= MaxBytes
    /\ \A c \in Caches : Cardinality(DOMAIN CacheEntries(mem, c)) <= Limit

\* When nothing is pending the settings on disk are those in memory, or the user
\* was told (persistGlobalRowsWithQuotaRecovery, reportStorageError).
SettingsDurable ==
  phase = "ready" /\ Quiet => error \/ \A g \in Settings : mem.global[g] = db.global[g]

\* The caches written through the queue hold in the database what they hold in
\* memory once the queue is empty: evicted rows are deleted there as well.
CachesFollow ==
  phase = "ready" /\ Quiet /\ ~ error /\ ~ cleaned => mem.cache = db.cache

\* No write brings an older value of a setting back (writeQueue orders them),
\* and no cache cleanup, reset or repair touches the settings.
SettingsNeverRevertStep ==
  \A g \in Settings : db'.global[g] >= db.global[g]

\* The time of a restart: the credentials an older version left in the browser
\* are deleted before the page is usable.
CredentialsGone == phase \in {"repair", "prune", "ready"} => db.obsolete = Empty("obsolete")
=============================================================================
