------------------------------ MODULE ChatSync ------------------------------
(***************************************************************************)
(* How the web client keeps one chat session in step with the hub:         *)
(* app/web/src/chat/turns (the turn store, the read repair queue, the      *)
(* durable cache queue) and the handlers of WorkspaceApp.tsx that use      *)
(* them.  The hub is the log it publishes: TurnRecorder shows that turns   *)
(* are published in index order, that only the last may be unfinished, and *)
(* that session.read returns such a log.                                   *)
(*                                                                         *)
(* Published turns and answers travel on one ordered connection (inbox).   *)
(* The hub may compute an answer, publish more turns and only then send    *)
(* it: replySession writes after the read has returned.                    *)
(*                                                                         *)
(* A turn's content is the stamp of the publication that wrote it.         *)
(***************************************************************************)
EXTENDS Naturals, Sequences, FiniteSets, Functions

CONSTANTS
    MaxStamp,       \* bound: publications of the hub
    MaxTurn,        \* bound: turns of the session
    Loads,          \* identities of loadChatSession calls
    MaxDrops,       \* bound: connection losses
    MaxReloads,     \* bound: page reloads
    MaxRestarts,    \* bound: hub restarts that lose the unpersisted turns
    MaxFails,       \* bound: session.read requests answered with an error
    MaxLates        \* bound: answers that later turns may overtake

ConstantsAssumption ==
    /\ MaxStamp \in Nat /\ MaxTurn \in Nat /\ MaxDrops \in Nat
    /\ MaxReloads \in Nat /\ MaxRestarts \in Nat /\ MaxFails \in Nat
    /\ MaxLates \in Nat
    /\ "repair" \notin Loads

Jobs == Loads \cup {"repair"}
Turn == [c : 1..MaxStamp, f : BOOLEAN]
\* RegistrySessionTurn lists, keyed by turnIndex
TurnMap == UNION {[S -> Turn] : S \in SUBSET (1..MaxTurn)}
NoTurns == <<>>

VARIABLES
    log,        \* the hub's turns; log[i] has turnIndex i
    saved,      \* how many of them are in the turn files
    stamp,      \* publications so far
    link,       \* how far connect() has come; was: the session was selected
                \* when it started
    inbox,      \* messages on the connection, oldest first
    served,     \* answers computed but not yet sent
    st,         \* chatTurnStoreRef[runtimeKey]: finished, live, cursor
    fc,         \* chatFinishedCursorRef[runtimeKey]
    sel,        \* the session is the selected chat
    reads,      \* outstanding session.read calls by job
    rq,         \* the session's entry in ChatReadRepairQueue
    dirty,      \* the session is in ChatDurablePersistQueue.dirtyKeys
    durable,    \* turnsJson in IndexedDB
    savedCursor,\* cursorJson.turnIndex in IndexedDB
    budget      \* faults left: drops, reloads, restarts, fails, lates

hub == <<log, saved, stamp>>
client == <<st, fc, sel, reads, rq, dirty, durable, savedCursor>>
vars == <<log, saved, stamp, link, inbox, served, st, fc, sel, reads, rq,
          dirty, durable, savedCursor, budget>>

Phases == {"down", "trying", "bound", "open", "synced"}
\* The events of the connection are heard (bindRepository).
online == link.at \in {"bound", "open", "synced"}
\* Requests go out on it: until connect() has put the new repository in place the
\* service uses the closed one, which rejects them at once.
ready == link.at \in {"open", "synced"}
-----------------------------------------------------------------------------
(* chatTurnStores.ts *)

createEmptyChatTurnStore == [finished |-> NoTurns, live |-> NoTurns, cursor |-> 0]

isStaleSessionReadResult(after, latest) == after > 0 /\ latest < after

upsertTurn(turns, i, t) ==
    [j \in DOMAIN turns \cup {i} |-> IF j = i THEN t ELSE turns[j]]

\* The largest n such that turns 1..n are all there and finished.
getFinishedCursor(turns) ==
    CHOOSE n \in 0..MaxTurn :
        /\ \A i \in 1..n : i \in DOMAIN turns /\ turns[i].f
        /\ ~(n + 1 \in DOMAIN turns /\ turns[n + 1].f)

getDurableTurnPrefix(turns, n) ==
    Restrict(turns, {i \in DOMAIN turns : i <= n /\ turns[i].f})

\* Every write of the store ends by recomputing the cursor and cutting the
\* finished turns back to it.
Settled(finished, live) ==
    LET n == getFinishedCursor(finished)
    IN  [finished |-> getDurableTurnPrefix(finished, n), live |-> live, cursor |-> n]

shouldReadRepairForIncomingTurn(s, i) == i > s.cursor + 1

mergeIgnoresSeal(s, i, t) ==
    IF i \in DOMAIN s.finished \cup DOMAIN s.live THEN s
    ELSE IF t.f THEN Settled(upsertTurn(s.finished, i, t), s.live)
    ELSE [s EXCEPT !.live = upsertTurn(@, i, t)]

mergeRealtimeTurn(s, i, t) ==
    IF t.f
    THEN Settled(upsertTurn(s.finished, i, t), Restrict(s.live, DOMAIN s.live \ {i}))
    ELSE IF i \in DOMAIN s.finished THEN s
    ELSE [s EXCEPT !.live = upsertTurn(@, i, t)]

\* Precondition of applySessionReadResult; otherwise it throws and the caller
\* reports the error.
WellFormedRead(turns) ==
    \A i \in DOMAIN turns : turns[i].f \/ \A j \in DOMAIN turns : j <= i

\* mutants of applySessionReadResult
applyDropsCheckpoint(s, after, turns, latestTurnIndex) ==
    LET Kept(m, f) ==
            LET new == {i \in DOMAIN turns : turns[i].f = f}
                old == {i \in DOMAIN m : i < after \/ i > latestTurnIndex}
            IN  [i \in old \cup new |-> IF i \in new THEN turns[i] ELSE m[i]]
    IN  Settled(Kept(s.finished, TRUE), Kept(s.live, FALSE))

applyAllLive(s, after, turns, latestTurnIndex) ==
    [s EXCEPT !.live = [i \in DOMAIN s.live \cup DOMAIN turns |->
                            IF i \in DOMAIN turns THEN turns[i] ELSE s.live[i]]]

applySessionReadResult(s, after, turns, latestTurnIndex) ==
    LET latest == IF latestTurnIndex > after THEN latestTurnIndex ELSE after
        Outside(m) == {i \in DOMAIN m : i <= after \/ i > latest}
        Kept(m, f) ==
            LET new == {i \in DOMAIN turns : turns[i].f = f}
            IN  [i \in Outside(m) \cup new |-> IF i \in new THEN turns[i] ELSE m[i]]
    IN  IF isStaleSessionReadResult(after, latestTurnIndex)
        THEN createEmptyChatTurnStore
        ELSE Settled(Kept(s.finished, TRUE), Kept(s.live, FALSE))

hydrateFinishedStore(turns) == Settled(turns, NoTurns)

mergeCachedTurnPrefix(s, turns) ==
    LET cached == hydrateFinishedStore(turns)
    IN  IF cached.cursor = 0 THEN s
        ELSE applySessionReadResult(s, 0, cached.finished, cached.cursor)

\* What messagesFromTurnStore shows; a finished turn hides a live one.
buildMergedRawTurns(s) ==
    [i \in DOMAIN s.finished \cup DOMAIN s.live |->
        IF i \in DOMAIN s.finished THEN s.finished[i] ELSE s.live[i]]
-----------------------------------------------------------------------------
(* The hub *)

Publish(i, t) ==
    /\ stamp' = stamp + 1
    /\ log' = IF i > Len(log) THEN Append(log, t) ELSE [log EXCEPT ![i] = t]
    /\ inbox' = IF online THEN Append(inbox, [kind |-> "turn", i |-> i, t |-> t])
                ELSE inbox
    /\ UNCHANGED <<link, served, client, budget>>

Sealed == \A i \in 1..Len(log) : log[i].f

\* A new turn: a finished one, or the first chunk of a text turn.
NewTurn(f) ==
    /\ stamp < MaxStamp /\ Len(log) < MaxTurn /\ Sealed
    /\ Publish(Len(log) + 1, [c |-> stamp + 1, f |-> f])
    /\ UNCHANGED saved

\* One more chunk of the open text turn, or its seal.
UpdateTurn(f) ==
    /\ stamp < MaxStamp /\ ~Sealed
    /\ Publish(Len(log), [c |-> stamp + 1, f |-> f])
    /\ UNCHANGED saved

\* The end of a prompt writes the turns and publishes prompt_done.
PromptDone ==
    /\ stamp < MaxStamp /\ Len(log) < MaxTurn /\ Sealed /\ log # <<>>
    /\ Publish(Len(log) + 1, [c |-> stamp + 1, f |-> TRUE])
    /\ saved' = Len(log) + 1

\* The hub restarts: turns that were not written are gone and their indices
\* are used again.  The client's connection ends at the registry and stays.
HubRestart ==
    /\ budget.restarts > 0
    /\ budget' = [budget EXCEPT !.restarts = @ - 1]
    /\ log' = SubSeq(log, 1, saved)
    /\ served' = {}
    /\ UNCHANGED <<saved, stamp, link, inbox, client>>

\* session.read: the turns after the checkpoint and the latest index.
Answer(j) ==
    [kind |-> "read", job |-> j, latest |-> Len(log),
     turns |-> [i \in {k \in 1..Len(log) : k > reads[j].after} |-> log[i]]]

Asked(j) == reads[j].state = "asked"

AnswerRead(j) ==
    /\ Asked(j)
    /\ reads' = [reads EXCEPT ![j].state = "answered"]
    /\ \/ /\ inbox' = Append(inbox, Answer(j))
          /\ UNCHANGED <<served, budget>>
       \/ /\ budget.lates > 0
          /\ budget' = [budget EXCEPT !.lates = @ - 1]
          /\ served' = served \cup {Answer(j)}
          /\ UNCHANGED inbox
    /\ UNCHANGED <<hub, link, st, fc, sel, rq, dirty, durable, savedCursor>>

SendAnswer ==
    /\ \E a \in served : /\ inbox' = Append(inbox, a)
                         /\ served' = served \ {a}
    /\ UNCHANGED <<hub, link, client, budget>>
-----------------------------------------------------------------------------
(* session.read calls of the client *)

NoRead == [state |-> "none", after |-> 0, snap |-> FALSE, retried |-> FALSE]

\* snap: the result counts only while the session is still selected
\* (selectionSnapshot); retried: the second read of a stale cache repair.
StartRead(after, snap) ==
    [state |-> "asked", after |-> after, snap |-> snap, retried |-> FALSE]

IdleQueue == [inFlight |-> FALSE, pending |-> FALSE, cursor |-> 0, nextCursor |-> 0,
              run |-> "none", nextRun |-> "none"]

\* The two closures handed to ChatReadRepairQueue.request: "gap" moves fc to the
\* queue's cursor and reads without a snapshot, "sync" reads for the selection
\* seen at reconnect, "other" for a session that was not selected then.
RunRead(run, s) == StartRead(s.cursor, run = "sync")

\* request(): s is the store the run will read its checkpoint from.
Request(cursor, run, s) ==
    IF ~ready
    THEN \* the run starts, its read is rejected and the entry is deleted
         /\ fc' = IF run = "gap" THEN cursor ELSE s.cursor
         /\ UNCHANGED <<rq, reads>>
    ELSE IF rq.inFlight
    THEN /\ rq' = [rq EXCEPT !.nextCursor = IF cursor > @ THEN cursor ELSE @,
                             !.nextRun = run, !.pending = TRUE]
         /\ fc' = s.cursor
         /\ UNCHANGED reads
    ELSE /\ rq' = [IdleQueue EXCEPT !.inFlight = TRUE, !.cursor = cursor,
                                    !.nextCursor = cursor, !.run = run]
         /\ fc' = IF run = "gap" THEN cursor ELSE s.cursor
         /\ reads' = [reads EXCEPT !["repair"] = RunRead(run, s)]

\* The run of drain() has ended: once more for the requests made meanwhile, or
\* the entry is deleted.  s and c are the store and fc the run leaves behind.
Drain(s, c) ==
    IF rq.pending
    THEN /\ rq' = [rq EXCEPT !.pending = FALSE, !.cursor = rq.nextCursor,
                             !.run = rq.nextRun, !.nextRun = "none"]
         /\ fc' = IF rq.nextRun = "gap" THEN rq.nextCursor ELSE c
         /\ reads' = [reads EXCEPT !["repair"] = RunRead(rq.nextRun, s)]
    ELSE /\ rq' = IdleQueue
         /\ fc' = c
         /\ reads' = [reads EXCEPT !["repair"] = NoRead]

EndRead(j, s, c) ==
    IF j = "repair" THEN Drain(s, c)
    ELSE /\ reads' = [reads EXCEPT ![j] = NoRead]
         /\ fc' = c
         /\ UNCHANGED rq
-----------------------------------------------------------------------------
(* Handlers *)

\* onEvent, session.message
ReceiveTurn(i, t) ==
    LET gap == shouldReadRepairForIncomingTurn(st, i)
        next == mergeRealtimeTurn(st, i, t)
    IN  /\ st' = next
        /\ dirty' = (dirty \/ t.f)
        /\ IF gap THEN Request(st.cursor, "gap", next)
           ELSE /\ fc' = next.cursor
                /\ UNCHANGED <<reads, rq>>
        /\ UNCHANGED <<durable, savedCursor>>

\* clearProjectSessionCache
ClearCache ==
    /\ st' = createEmptyChatTurnStore
    /\ fc' = 0
    /\ durable' = NoTurns
    /\ savedCursor' = 0

\* readProjectSessionWithStaleCacheRepair sees that the hub is behind the
\* checkpoint: clear the cache and read everything.
RetryStale(j) ==
    /\ ClearCache
    /\ reads' = [reads EXCEPT ![j].state = "asked", ![j].after = 0, ![j].retried = TRUE]
    /\ UNCHANGED <<rq, dirty>>

persistChatSessionContent(s) ==
    /\ durable' = s.finished
    /\ savedCursor' = s.cursor

\* refreshSessionTurns once the answer is there; loadChatSession ends the same way.
ApplyRead(a) ==
    LET r == reads[a.job]
        next == applySessionReadResult(st, r.after, a.turns, a.latest)
    IN  IF (r.snap /\ ~sel) \/ ~WellFormedRead(a.turns)
        THEN /\ EndRead(a.job, st, fc)
             /\ UNCHANGED <<st, dirty, durable, savedCursor>>
        ELSE /\ st' = next
             /\ EndRead(a.job, next, next.cursor)
             /\ persistChatSessionContent(next)
             /\ UNCHANGED dirty

ReceiveAnswer(a) ==
    LET r == reads[a.job]
    IN  IF ~r.retried /\ isStaleSessionReadResult(r.after, a.latest)
        THEN RetryStale(a.job)
        ELSE ApplyRead(a)

Receive ==
    /\ inbox # <<>>
    /\ inbox' = Tail(inbox)
    /\ LET m == Head(inbox)
       IN  IF m.kind = "turn" THEN ReceiveTurn(m.i, m.t) ELSE ReceiveAnswer(m)
    /\ UNCHANGED <<hub, link, served, sel, budget>>

\* session.read answered with an error: both callers report it and return.
FailRead(j) ==
    /\ Asked(j) /\ budget.fails > 0
    /\ budget' = [budget EXCEPT !.fails = @ - 1]
    /\ EndRead(j, st, fc)
    /\ UNCHANGED <<hub, link, inbox, served, st, sel, dirty, durable, savedCursor>>

\* hydrateChatSessionContentFromCache
Hydrated == mergeCachedTurnPrefix(st, durable)

\* loadChatSession up to its request; an incremental load starts after the cursor.
loadChatSession(s, full) == StartRead(IF full THEN 0 ELSE s.cursor, TRUE)

\* selectProjectChatSession: show what is cached and load.  full is the jump
\* to a search result.
SelectSession(j, full) ==
    /\ reads[j].state = "none"
    /\ sel' = TRUE
    /\ st' = Hydrated
    /\ fc' = Hydrated.cursor
    \* Without a connection the read is rejected at once.
    /\ reads' = IF ready
                THEN [reads EXCEPT ![j] = loadChatSession(Hydrated, full)]
                ELSE reads
    /\ UNCHANGED <<hub, link, inbox, served, rq, dirty, durable, savedCursor, budget>>

\* Another chat is selected.
Deselect ==
    /\ sel
    /\ sel' = FALSE
    /\ UNCHANGED <<hub, link, inbox, served, st, fc, reads, rq, dirty, durable,
                   savedCursor, budget>>

\* The 5 s timer of ChatDurablePersistQueue: flush
Flush ==
    /\ dirty
    /\ dirty' = FALSE
    /\ durable' = st.finished
    /\ UNCHANGED <<hub, link, inbox, served, st, fc, sel, reads, rq, savedCursor, budget>>

\* onEvent, session.updated: the summary is remembered with the cursor fc.
SummaryUpdated ==
    /\ online /\ savedCursor # fc
    /\ savedCursor' = fc
    /\ UNCHANGED <<hub, link, inbox, served, st, fc, sel, reads, rq, dirty, durable,
                   budget>>

\* The connection closes, in use or on its way up: what was on it is lost, every
\* pending request is rejected, and connect() gives up.
ConnectionLost ==
    /\ link.at # "down" /\ budget.drops > 0
    /\ budget' = [budget EXCEPT !.drops = @ - 1]
    /\ link' = [link EXCEPT !.at = "down"]
    /\ inbox' = <<>>
    /\ served' = {}
    \* A rejected repair read that is pending again reads at once, on the closed
    \* connection, and is rejected too.
    /\ reads' = [j \in Jobs |-> NoRead]
    /\ rq' = IdleQueue
    /\ fc' = IF rq.pending /\ rq.nextRun = "gap" THEN rq.nextCursor ELSE fc
    /\ UNCHANGED <<hub, st, sel, dirty, durable, savedCursor>>

Advance(from, to) == link.at = from /\ link' = [link EXCEPT !.at = to]

\* connect({silentReconnect: true}) up to its first await: previousSelectedChatKey
\* is the chat selected now.
Connect ==
    /\ link.at = "down"
    /\ link' = [at |-> "trying", was |-> sel]
    /\ UNCHANGED <<hub, inbox, served, client, budget>>

\* The socket is open: the listeners hear its events.
bindRepository ==
    /\ Advance("trying", "bound")
    /\ UNCHANGED <<hub, inbox, served, client, budget>>

\* The projects are listed: the service uses the new repository, and connect()
\* awaits the project.
RepositoryInPlace ==
    /\ Advance("bound", "open")
    /\ UNCHANGED <<hub, inbox, served, client, budget>>

\* mutant of syncChatSessionsAfterReconnect: nothing is read after a reconnect
ReconnectWithoutSync ==
    /\ Advance("open", "synced")
    /\ UNCHANGED <<hub, inbox, served, client, budget>>

\* The end of connect(): turns may have come since the listeners were bound, and a
\* load or a gap may have a read under way.
syncChatSessionsAfterReconnect ==
    /\ Advance("open", "synced")
    /\ Request(st.cursor, IF link.was THEN "sync" ELSE "other", st)
    /\ UNCHANGED <<hub, inbox, served, st, sel, dirty, durable, savedCursor, budget>>

\* The page is reloaded and connects again (connect without silentReconnect):
\* clearChatRuntimeState, hydrateChatSessionsFromCache, loadChatSessions.  What was
\* heard before the state is cleared goes with it.
PageReload(j) ==
    /\ budget.reloads > 0
    /\ budget' = [budget EXCEPT !.reloads = @ - 1]
    /\ link' = [link EXCEPT !.at = "synced"]
    /\ inbox' = <<>>
    /\ served' = {}
    /\ st' = mergeCachedTurnPrefix(createEmptyChatTurnStore, durable)
    /\ fc' = st'.cursor
    /\ savedCursor' = IF durable = NoTurns THEN savedCursor ELSE st'.cursor
    /\ sel' = TRUE
    /\ rq' = IdleQueue
    /\ dirty' = FALSE
    /\ reads' = [k \in Jobs |-> IF k = j THEN loadChatSession(st', FALSE) ELSE NoRead]
    /\ UNCHANGED <<hub, durable>>
-----------------------------------------------------------------------------
Init ==
    /\ log = <<>> /\ saved = 0 /\ stamp = 0
    /\ link = [at |-> "synced", was |-> TRUE] /\ inbox = <<>> /\ served = {}
    /\ st = createEmptyChatTurnStore
    /\ fc = 0
    /\ sel = TRUE
    /\ reads = [j \in Jobs |-> NoRead]
    /\ rq = IdleQueue
    /\ dirty = FALSE /\ durable = NoTurns /\ savedCursor = 0
    /\ budget = [drops |-> MaxDrops, reloads |-> MaxReloads,
                 restarts |-> MaxRestarts, fails |-> MaxFails, lates |-> MaxLates]

Hub ==
    \/ \E f \in BOOLEAN : NewTurn(f) \/ UpdateTurn(f)
    \/ PromptDone
    \/ HubRestart

Next ==
    \/ Hub
    \/ \E j \in Jobs : AnswerRead(j) \/ FailRead(j)
    \/ SendAnswer
    \/ Receive
    \/ \E j \in Loads, full \in BOOLEAN : SelectSession(j, full)
    \/ Deselect
    \/ Flush
    \/ SummaryUpdated
    \/ ConnectionLost
    \/ Connect
    \/ bindRepository
    \/ RepositoryInPlace
    \/ syncChatSessionsAfterReconnect
    \/ \E j \in Loads : PageReload(j)

\* What is already on the way arrives, requests are answered, and a closed
\* connection is opened again (scheduleReconnectAttempt).  Nobody owes a
\* publication, a click or a fault.
Fairness ==
    /\ WF_vars(Receive)
    /\ WF_vars(SendAnswer)
    /\ WF_vars(Connect) /\ WF_vars(bindRepository) /\ WF_vars(RepositoryInPlace)
    /\ WF_vars(syncChatSessionsAfterReconnect)
    /\ \A j \in Jobs : WF_vars(AnswerRead(j))

Spec == Init /\ [][Next]_vars
FairSpec == Spec /\ Fairness
-----------------------------------------------------------------------------
(* Properties *)

Reads == [state : {"none", "asked", "answered"}, after : 0..MaxTurn,
          snap : BOOLEAN, retried : BOOLEAN]
Runs == {"none", "gap", "sync", "other"}

\* The variables keep their types, and the live and finished turns of the store
\* are what their names say.
TypeOK ==
    /\ log \in Seq(Turn) /\ Len(log) <= MaxTurn
    /\ saved \in 0..MaxTurn /\ stamp \in 0..MaxStamp
    /\ link \in [at : Phases, was : BOOLEAN] /\ sel \in BOOLEAN /\ dirty \in BOOLEAN
    /\ st \in [finished : TurnMap, live : TurnMap, cursor : 0..MaxTurn]
    /\ \A i \in DOMAIN st.finished : st.finished[i].f
    /\ \A i \in DOMAIN st.live : ~st.live[i].f
    /\ fc \in 0..MaxTurn /\ savedCursor \in 0..MaxTurn
    /\ durable \in TurnMap
    /\ reads \in [Jobs -> Reads]
    /\ rq \in [inFlight : BOOLEAN, pending : BOOLEAN, cursor : 0..MaxTurn,
               nextCursor : 0..MaxTurn, run : Runs, nextRun : Runs]

\* CLT-010, CLT-011, CLT-014: whatever order turns, answers, cache merges and
\* resets come in, the finished turns are exactly 1..cursor and no turn is both
\* finished and live.
PrefixStore ==
    /\ DOMAIN st.finished = 1..st.cursor
    /\ DOMAIN st.finished \cap DOMAIN st.live = {}

\* DB-004: the durable cache is always a continuous finished prefix, although it
\* is written from three places (flush, read, cache reset).
DurablePrefix ==
    \E n \in 0..MaxTurn : DOMAIN durable = 1..n /\ \A i \in 1..n : durable[i].f

\* The repair queue and the read it stands for never disagree: an entry is in
\* flight exactly while its read is outstanding, so no request is parked behind a
\* read that has already ended.
RepairMatchesRead ==
    /\ rq.inFlight <=> reads["repair"].state # "none"
    /\ rq.pending => rq.inFlight /\ rq.nextRun # "none"

\* The hub has lost turns; an answer was sent after turns it does not have; a read
\* was answered with an error.
Restarted == budget.restarts < MaxRestarts
Overtaken == budget.lates < MaxLates
Failed == budget.fails < MaxFails

\* Text the client holds as finished, in memory or cached, is the hub's final
\* text of that turn, until the hub loses turns: late answers, failed reads, drops
\* and reloads do not change that.
SealedIsFinal ==
    ~Restarted =>
      /\ \A i \in DOMAIN st.finished : i <= Len(log) /\ log[i] = st.finished[i]
      /\ \A i \in DOMAIN durable : i <= Len(log) /\ log[i] = durable[i]

Complete == buildMergedRawTurns(st) = log

\* Nothing is on the way any more.
Quiet == link.at = "synced" /\ inbox = <<>> /\ served = {} /\ \A j \in Jobs : reads[j].state = "none"

\* CLT-014, CLT-015: "`finished:true` MUST replace same-index live": in a quiet
\* session no turn is live that the hub has sealed.  Not kept by the code: an answer
\* that the seal overtook makes the turn live again, and nothing reads it once more.
SealReplacesLive == Quiet => \A i \in DOMAIN st.live \cap 1..Len(log) : ~log[i].f

\* RR-004, RR-006, RR-007: until an answer is overtaken, a read fails or the hub
\* loses turns, the quiet session shows the whole log; a turn that was dropped
\* because it came after a hole, or was missed in a reconnect, has been read back.
QuiescentComplete == ~Restarted /\ ~Overtaken /\ ~Failed /\ Quiet /\ sel => Complete

\* An answer that has a turn as open which the hub has sealed.
Outdated(m) ==
    m.kind = "read" /\ \E i \in DOMAIN m.turns \cap 1..Len(log) : log[i].f /\ ~m.turns[i].f

\* A finished turn stays finished until the hub loses turns, whatever else fails:
\* the page forgets it when it is reloaded, or when it takes an answer that the seal
\* of a turn overtook.
FinishedStaysStep ==
    ~Restarted => \A i \in DOMAIN st.finished :
        \/ i \in DOMAIN st'.finished
        \/ budget'.reloads < budget.reloads
        \/ /\ Overtaken /\ inbox # <<>> /\ inbox' = Tail(inbox)
           /\ Outdated(Head(inbox))

\* However often the connection breaks, while the session is selected it comes to
\* show the whole log.
Converges == []<>(sel => Complete)

\* DB-007: "The app MUST flush dirty durable cache before page hide/unload".
\* Not kept by the code: see the README.
UnloadLosesNothing ==
    [][budget'.reloads < budget.reloads => durable = st.finished]_vars

\* DB-002: the cursor in the session index is "the durable finished prefix cursor".
\* Not kept by the code: see the README.
SavedCursorIsDurable == savedCursor <= getFinishedCursor(durable)
=============================================================================
