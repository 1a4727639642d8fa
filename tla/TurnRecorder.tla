---------------------------- MODULE TurnRecorder ----------------------------
(***************************************************************************)
(* SessionRecorder (server/internal/hub/client/session_recorder.go) for    *)
(* one session: how agent events become numbered turns, are published to   *)
(* the subscribers, and reach the turn files and the session row.          *)
(*                                                                         *)
(* Every handler runs under writeMu.  The lock holder is therefore one     *)
(* process whose program counter is pc ("free" = unlocked) and whose       *)
(* separate steps are the points where another goroutine, or a crash, can  *)
(* come between: each load and each save of the row, each turn written.    *)
(* MarkSessionRead, RenameSessionTitle and ReadSessionTurns do NOT hold    *)
(* the lock while they load (and save) the row: each client is a process   *)
(* of its own.                                                             *)
(*                                                                         *)
(* A turn's payload is a revision number: 1 when the turn is allocated,    *)
(* one more for every chunk or update merged into it.                      *)
(***************************************************************************)
EXTENDS Naturals, Sequences, FiniteSets

CONSTANTS
    UpdateMethods,  \* the session/update kinds the agent sends
    ToolCalls,      \* tool call ids
    CanCompact,     \* whether the agent is a SessionCompactor
    Clients,        \* concurrent callers of session.markRead / rename / read
    MaxTurn,        \* bound: no prompt or turn is started beyond this index
    MaxRev,         \* bound: merges into one turn
    MaxFaults,      \* bound: store or artifact writes that return an error
    MaxCrashes      \* bound: crashes of the hub process

TextMethods == {"message", "thought"}
AgentMethods == TextMethods \cup {"plan", "tool", "user", "system"}
Methods == AgentMethods \cup {"request", "done", "operation"}
\* Every other stop reason (cancelled, refusal, ...) is treated like end_turn, and
\* a failed operation like a completed one.
StopReasons == {"end_turn", "failed", "interrupted"}
OpStatuses == {"started", "completed"}
NoTag == "-"
Tags == ToolCalls \cup StopReasons \cup OpStatuses \cup {NoTag}

ASSUME ConstantsAssumption ==
    /\ UpdateMethods \subseteq AgentMethods
    /\ CanCompact \in BOOLEAN
    /\ MaxTurn \in Nat /\ MaxRev \in Nat /\ MaxFaults \in Nat /\ MaxCrashes \in Nat

VARIABLES
    row,        \* session_sync_json (+ whether a manual title is set)
    files,      \* the turn files: files[i] is the content of turn i
    state,      \* promptState[sessionID]
    nextIdx,    \* the nextTurnIndex[sessionID] cache, 0 when absent
    activeOps,  \* how many operations activeOperations[sessionID] holds
    pc,         \* what the holder of writeMu does next
    task,       \* the handler that holds writeMu
    rec,        \* the row it has loaded and will save
    todo,       \* the turns it still has to write
    exec,       \* executionKind of the Session that feeds the recorder
    call,       \* the unlocked calls in flight
    view,       \* what a subscriber that loses nothing holds, by turn index
    out,        \* the turns published by the last step, in order
    faults, crashes

vars == <<row, files, state, nextIdx, activeOps, pc, task, rec, todo, exec,
          call, view, out, faults, crashes>>
lockVars == <<pc, task, rec, todo>>
budget == <<faults, crashes>>

-----------------------------------------------------------------------------
(* Types and empty values *)

Turn == [idx : Nat \ {0}, method : Methods, tag : Tags, rev : Nat, fin : BOOLEAN]
Contents == [method : Methods, tag : Tags, rev : Nat]
Row == [latest : Nat, done : Nat, ok : BOOLEAN, read : Nat, renamed : BOOLEAN]
PromptState == [live : BOOLEAN, next : Nat \ {0}, turns : Seq(Turn)]
Task == [kind : {"none", "start", "finish", "interrupt", "operation", "info"},
         publishDone : BOOLEAN]
Pcs == {"free", "persistLoad", "write", "save", "upsertLoad", "upsertSave"}
Slot == [idx : Nat, fin : BOOLEAN]
Call == [op : {"none", "mark", "rename", "read", "answered"}, rec : Row,
         arg : Nat, got : SUBSET Slot]

NewRow == [latest |-> 0, done |-> 0, ok |-> FALSE, read |-> 0, renamed |-> FALSE]
NoState == [live |-> FALSE, next |-> 1, turns |-> <<>>]
NoTask == [kind |-> "none", publishDone |-> FALSE]
NoCall == [op |-> "none", rec |-> NewRow, arg |-> 0, got |-> {}]

TypeOK ==
    /\ row \in Row /\ rec \in Row
    /\ files \in Seq(Contents)
    /\ state \in PromptState
    /\ nextIdx \in Nat
    /\ activeOps \in Nat
    /\ pc \in Pcs
    /\ task \in Task
    /\ todo \in Seq(Turn)
    /\ exec \in {"idle", "prompt", "reply", "compactStart", "compact"}
    /\ call \in [Clients -> Call]
    /\ view \in SUBSET Turn
    /\ out \in Seq(Turn)
    /\ faults \in Nat /\ crashes \in Nat

Init ==
    /\ row = NewRow /\ rec = NewRow
    /\ files = <<>>
    /\ state = NoState
    /\ nextIdx = 0
    /\ activeOps = 0
    /\ pc = "free" /\ task = NoTask /\ todo = <<>>
    /\ exec = "idle"
    /\ call = [c \in Clients |-> NoCall]
    /\ view = {} /\ out = <<>>
    /\ faults = 0 /\ crashes = 0

-----------------------------------------------------------------------------
(* The prompt state: sessionPromptState and its helpers *)

MaxOf(a, b) == IF a < b THEN b ELSE a

\* buildSessionTurnContentJSON: what a turn becomes in a file or an event.
ContentOf(t) == [method |-> t.method, tag |-> t.tag, rev |-> t.rev]

NewTurn(idx, method, tag) ==
    [idx |-> idx, method |-> method, tag |-> tag, rev |-> 1,
     fin |-> method \notin TextMethods]

newSessionPromptState(n) == [live |-> TRUE, next |-> MaxOf(n, 1), turns |-> <<>>]

Terminal(s) == Len(s.turns) > 0 /\ s.turns[Len(s.turns)].method = "done"

\* An unfinished text turn at the end of the state.
HasOpenText(s) ==
    /\ Len(s.turns) > 0
    /\ s.turns[Len(s.turns)].method \in TextMethods
    /\ ~s.turns[Len(s.turns)].fin

\* updateTurn: replace the turn with that index, or append it.
UpdateTurn(s, t) ==
    [s EXCEPT
        !.turns = IF \E i \in 1..Len(s.turns) : s.turns[i].idx = t.idx
                  THEN [i \in 1..Len(s.turns) |->
                            IF s.turns[i].idx = t.idx THEN t ELSE s.turns[i]]
                  ELSE Append(s.turns, t),
        !.next = MaxOf(s.next, t.idx + 1)]

\* Mutant of Sealed: the turn is published as finished but not replaced.
SealedInEventOnly(s) == s

\* publishOpenTextTurnDone: the state afterwards, and what it publishes.
Sealed(s) ==
    IF HasOpenText(s)
    THEN [s EXCEPT !.turns[Len(s.turns)].fin = TRUE]
    ELSE s

\* Mutant of SealEvents: the seal is recorded but not published.
SealEventsDropped(s) == << >>

SealEvents(s) ==
    IF HasOpenText(s) THEN <<Sealed(s).turns[Len(s.turns)]>> ELSE <<>>

\* addMessageTurn: the positions of the turns an update may be merged into.
\* A tool update goes into the turn of its tool call, a plan into the plan of
\* the prompt, a text chunk only into a last turn of the same method.
MergeTargets(s, method, tag) ==
    {i \in 1..Len(s.turns) :
        /\ s.turns[i].method = method
        /\ \/ method = "tool" /\ tag # NoTag /\ s.turns[i].tag = tag
           \/ method = "plan"
           \/ method \in TextMethods /\ i = Len(s.turns)}

FirstOf(S) == CHOOSE i \in S : \A j \in S : i <= j

\* mergeTurnMessage keeps the index and the finished flag of the existing turn.
Merged(t) == [t EXCEPT !.rev = @ + 1]

\* Mutant of AddEvents: publishes the turn as it was before the merge.
AddEventsUnmerged(s, method, tag) ==
    LET targets == MergeTargets(s, method, tag)
    IN  IF targets # {}
        THEN <<s.turns[FirstOf(targets)]>>
        ELSE SealEvents(s) \o <<NewTurn(s.next, method, tag)>>

\* addMessageTurn: the turns it publishes, in order.
AddEvents(s, method, tag) ==
    LET targets == MergeTargets(s, method, tag)
    IN  IF targets # {}
        THEN <<Merged(s.turns[FirstOf(targets)])>>
        ELSE SealEvents(s) \o <<NewTurn(s.next, method, tag)>>

\* addMessageTurn: the state it leaves.
AddMessageTurn(s, method, tag) ==
    LET targets == MergeTargets(s, method, tag)
    IN  IF targets # {}
        THEN UpdateTurn(s, Merged(s.turns[FirstOf(targets)]))
        ELSE UpdateTurn(Sealed(s), NewTurn(s.next, method, tag))

\* nextSessionTurnIndexLocked
NextSessionTurnIndex == IF nextIdx > 0 THEN nextIdx ELSE row.latest + 1

\* The subscriber keeps the last turn published for each index.
ViewAfter(v, events) ==
    {t \in v : \A i \in 1..Len(events) : events[i].idx # t.idx}
    \cup {events[i] : i \in {j \in 1..Len(events) :
                                \A k \in 1..Len(events) : k > j => events[k].idx # events[j].idx}}

\* publishSessionTurn, for a sequence of turns.
Publish(events) == out' = events /\ view' = ViewAfter(view, events)
PublishNothing == out' = <<>> /\ UNCHANGED view

-----------------------------------------------------------------------------
(* Taking and releasing writeMu *)

Release == pc' = "free" /\ task' = NoTask /\ rec' = NewRow /\ todo' = <<>>

\* Where the Session's execution goes when a handler returns an error: the
\* prompt result is followed by the reply, a compaction ends, and a prompt that
\* could not be recorded goes on all the same.
ExecAfter(kind) ==
    CASE kind = "finish" -> "reply"
      [] kind = "operation" -> "idle"
      [] OTHER -> exec

Take(kind, publishDone, step, copy, turns) ==
    /\ task' = [kind |-> kind, publishDone |-> publishDone]
    /\ pc' = step
    /\ rec' = copy
    /\ todo' = turns

-----------------------------------------------------------------------------
(* RecordEvent: session/prompt params *)

\* The tail of handlePromptStartedLocked: add the prompt_request turn to a new
\* state and go on to upsertSessionProjection.  earlier is what the handler
\* published before.
StartRequest(base, earlier) ==
    LET fresh == newSessionPromptState(base)
    IN  /\ state' = AddMessageTurn(fresh, "request", NoTag)
        /\ Publish(earlier \o AddEvents(fresh, "request", NoTag))
        /\ Take("start", FALSE, "upsertLoad", NewRow, <<>>)

\* nextPromptStateLocked when no live prompt has to be interrupted: there is
\* no state, or a terminal one a failed save left behind.
PromptStarted ==
    LET base == IF Len(state.turns) = 0
                THEN NextSessionTurnIndex
                ELSE MaxOf(state.next, NextSessionTurnIndex)
    IN  /\ pc = "free" /\ exec = "idle"
        /\ Len(state.turns) = 0 \/ Terminal(state)
        /\ base < MaxTurn
        /\ exec' = "prompt"
        /\ StartRequest(base, <<>>)
        /\ UNCHANGED <<row, files, nextIdx, activeOps, call, budget>>

\* nextSessionTurnIndexLocked needs the row and LoadSession fails: the start is
\* lost, but handlePromptBlocks only logs that and prompts the agent.
PromptStartLost ==
    /\ pc = "free" /\ exec = "idle"
    /\ Len(state.turns) = 0 \/ Terminal(state)
    /\ nextIdx = 0
    /\ faults < MaxFaults /\ faults' = faults + 1
    /\ exec' = "prompt"
    /\ PublishNothing
    /\ UNCHANGED <<row, files, state, nextIdx, activeOps, lockVars, call, crashes>>

\* Mutant of FinishPrompt: prompt_done is published with the seal.
FinishPromptEager(s, reason, kind) ==
    /\ state' = IF Terminal(s) THEN s
                ELSE UpdateTurn(Sealed(s), NewTurn(s.next, "done", reason))
    /\ Publish(SealEvents(s) \o IF Terminal(s) THEN << >> ELSE <<NewTurn(s.next, "done", reason)>>)
    /\ Take(kind, FALSE, "persistLoad", NewRow, <<>>)

\* finishPromptStateLocked up to persistSessionStateTurnsLocked: seal the open
\* text turn (published here, before anything is durable) and append prompt_done.
FinishPrompt(s, reason, kind) ==
    /\ state' = IF Terminal(s) THEN s
                ELSE UpdateTurn(Sealed(s), NewTurn(s.next, "done", reason))
    /\ Publish(SealEvents(s))
    /\ Take(kind, ~Terminal(s), "persistLoad", NewRow, <<>>)

\* A prompt starts while the previous one never reached prompt_done.
PromptStartedInterrupting ==
    /\ pc = "free" /\ exec = "idle"
    /\ Len(state.turns) > 0 /\ ~Terminal(state)
    /\ state.next + 1 < MaxTurn
    /\ exec' = "prompt"
    /\ FinishPrompt(state, "interrupted", "interrupt")
    /\ UNCHANGED <<row, files, nextIdx, activeOps, call, budget>>

-----------------------------------------------------------------------------
(* RecordEvent: session/update and system messages *)

\* handleUpdateMessageLocked.  Without a prompt state the update is dropped.
UpdateMessage(method, tag) ==
    /\ pc = "free" /\ exec = "prompt"
    /\ state.live
    /\ \A i \in MergeTargets(state, method, tag) : state.turns[i].rev < MaxRev
    /\ MergeTargets(state, method, tag) = {} => state.next < MaxTurn
    /\ state' = AddMessageTurn(state, method, tag)
    /\ Publish(AddEvents(state, method, tag))
    /\ UNCHANGED <<row, files, nextIdx, activeOps, lockVars, exec, call, budget>>

\* handlePromptBlocks after the result: the reply becomes a system event, which
\* is dropped when the prompt state is gone, and the execution ends.
ReplyAndEnd ==
    /\ pc = "free" /\ exec = "reply"
    /\ exec' = "idle"
    /\ \/ /\ state.live /\ state.next < MaxTurn
          /\ state' = AddMessageTurn(state, "system", NoTag)
          /\ Publish(AddEvents(state, "system", NoTag))
       \/ PublishNothing /\ UNCHANGED state
    /\ UNCHANGED <<row, files, nextIdx, activeOps, lockVars, call, budget>>

\* handleSessionInfoUpdateLocked (and session/new on an existing row): load the
\* row, change the title, save it.
SessionInfoUpdate ==
    /\ pc = "free"
    /\ Take("info", FALSE, "upsertLoad", NewRow, <<>>)
    /\ PublishNothing
    /\ UNCHANGED <<row, files, state, nextIdx, activeOps, exec, call, budget>>

-----------------------------------------------------------------------------
(* RecordEvent: session/prompt result *)

\* handlePromptFinishedLocked without a live state: a session that has
\* persisted turns ignores the result, and one whose row cannot be loaded loses it.
PromptFinishedIgnored ==
    /\ pc = "free" /\ exec = "prompt"
    /\ ~state.live
    /\ \/ row.latest > 0 /\ UNCHANGED faults
       \/ faults < MaxFaults /\ faults' = faults + 1
    /\ exec' = "reply"
    /\ PublishNothing
    /\ UNCHANGED <<row, files, state, nextIdx, activeOps, lockVars, call, crashes>>

\* ensurePromptStateLocked
EnsuredState == IF state.live THEN state ELSE newSessionPromptState(NextSessionTurnIndex)

\* handlePromptFinishedLocked
PromptFinished(reason) ==
    /\ pc = "free" /\ exec = "prompt"
    /\ state.live \/ row.latest = 0
    /\ FinishPrompt(EnsuredState, reason, "finish")
    /\ UNCHANGED <<row, files, nextIdx, activeOps, exec, call, budget>>

\* writePromptArtifactsLocked fails: only the seal has happened.
ArtifactWriteFails ==
    /\ pc = "free" /\ exec = "prompt"
    /\ state.live \/ row.latest = 0
    /\ faults < MaxFaults /\ faults' = faults + 1
    /\ state' = Sealed(EnsuredState)
    /\ Publish(SealEvents(EnsuredState))
    /\ exec' = "reply"
    /\ UNCHANGED <<row, files, nextIdx, activeOps, lockVars, call, crashes>>

\* persistSessionStateTurnsLocked: load the row, choose the turns to write and
\* compute the projection that will be saved.
\* Turns are kept in index order, so skipping the persisted ones drops a prefix.
Unpersisted(s) ==
    LET fresh == {i \in 1..Len(s.turns) : s.turns[i].idx > row.latest}
    IN  IF fresh = {} THEN <<>> ELSE SubSeq(s.turns, FirstOf(fresh), Len(s.turns))

DoneTurns(turns) == {i \in 1..Len(turns) : turns[i].method = "done"}

LastOf(S) == CHOOSE i \in S : \A j \in S : j <= i

\* Mutants of Projected: the first turn of the batch instead of the last.
ProjectedFirstLatest(turns) ==
    [row EXCEPT !.latest = turns[1].idx, !.done = turns[Len(turns)].idx, !.ok = TRUE]
ProjectedFirstDone(turns) ==
    [row EXCEPT !.latest = turns[Len(turns)].idx, !.done = turns[1].idx, !.ok = TRUE]

Projected(turns) ==
    LET marks == DoneTurns(turns)
        base == [row EXCEPT !.latest = turns[Len(turns)].idx]
    IN  IF marks = {} THEN base
        ELSE [base EXCEPT !.done = turns[LastOf(marks)].idx,
                          !.ok = turns[LastOf(marks)].tag # "failed"]

PersistLoad ==
    /\ pc = "persistLoad"
    /\ IF Len(Unpersisted(state)) = 0
       THEN pc' = "upsertLoad" /\ UNCHANGED <<rec, todo>>
       ELSE /\ Unpersisted(state)[1].idx = row.latest + 1
            /\ pc' = "write"
            /\ todo' = Unpersisted(state)
            /\ rec' = Projected(Unpersisted(state))
    /\ PublishNothing
    /\ UNCHANGED <<row, files, state, nextIdx, activeOps, task, exec, call, budget>>

\* "session %s turn persistence gap": the handler returns the error, and the
\* prompt state stays as it is.
PersistenceGap ==
    /\ pc = "persistLoad"
    /\ Len(Unpersisted(state)) > 0
    /\ Unpersisted(state)[1].idx # row.latest + 1
    /\ Release
    /\ exec' = ExecAfter(task.kind)
    /\ PublishNothing
    /\ UNCHANGED <<row, files, state, nextIdx, activeOps, call, budget>>

-----------------------------------------------------------------------------
(* WriteTurns, SaveSession and upsertSessionProjection, under writeMu *)

\* fileSessionTurnStore.WriteTurns appends the turns one by one.
WriteTurn ==
    /\ pc = "write" /\ Len(todo) > 0
    /\ Head(todo).idx = Len(files) + 1
    /\ files' = Append(files, ContentOf(Head(todo)))
    /\ todo' = Tail(todo)
    /\ pc' = IF Len(todo) = 1 THEN "save" ELSE "write"
    /\ PublishNothing
    /\ UNCHANGED <<row, state, nextIdx, activeOps, task, rec, exec, call, budget>>

\* WriteTurns refuses to start anywhere but behind the last turn in the files.
WriteRefused ==
    /\ pc = "write" /\ Len(todo) > 0
    /\ Head(todo).idx # Len(files) + 1
    /\ Release
    /\ exec' = ExecAfter(task.kind)
    /\ PublishNothing
    /\ UNCHANGED <<row, files, state, nextIdx, activeOps, call, budget>>

\* SaveSession of the projection computed at the load.
PersistSave ==
    /\ pc = "save" /\ task.kind \in {"finish", "interrupt"}
    /\ row' = rec
    /\ pc' = "upsertLoad"
    /\ PublishNothing
    /\ UNCHANGED <<files, state, nextIdx, activeOps, task, rec, todo, exec, call, budget>>

\* upsertSessionProjection loads the row again ...
UpsertLoad ==
    /\ pc = "upsertLoad"
    /\ rec' = row
    /\ pc' = "upsertSave"
    /\ PublishNothing
    /\ UNCHANGED <<row, files, state, nextIdx, activeOps, task, todo, exec, call, budget>>

\* ... and saves it; that ends a prompt start and a title update.
UpsertSave ==
    /\ pc = "upsertSave" /\ task.kind \in {"start", "info"}
    /\ row' = rec
    /\ Release
    /\ PublishNothing
    /\ UNCHANGED <<files, state, nextIdx, activeOps, exec, call, budget>>

DoneEvents(s) == IF task.publishDone THEN <<s.turns[Len(s.turns)]>> ELSE <<>>

\* The end of finishPromptStateLocked for a prompt result.
FinishSave ==
    /\ pc = "upsertSave" /\ task.kind = "finish"
    /\ row' = rec
    /\ Publish(DoneEvents(state))
    /\ nextIdx' = state.next
    /\ state' = NoState
    /\ exec' = ExecAfter("finish")
    /\ Release
    /\ UNCHANGED <<files, activeOps, call, budget>>

\* The same inside nextPromptStateLocked: the new prompt's request follows.
InterruptSave ==
    /\ pc = "upsertSave" /\ task.kind = "interrupt"
    /\ row' = rec
    /\ nextIdx' = state.next
    /\ StartRequest(state.next, DoneEvents(state))
    /\ UNCHANGED <<files, activeOps, exec, call, budget>>

\* Mutants of OpsAfter: the branches swapped; the operation never removed.
OpsAfterSwapped == IF exec = "compactStart" THEN activeOps - 1 ELSE activeOps + 1
OpsAfterKept == IF exec = "compactStart" THEN activeOps + 1 ELSE activeOps

\* activeOperations after the operation turn is written.
OpsAfter == IF exec = "compactStart" THEN activeOps + 1 ELSE activeOps - 1

\* LoadSession, the file write or SaveSession returns an error: the handler
\* gives up where it is.  An operation has toggled activeOperations by the time
\* its row is saved.
StoreFails ==
    /\ pc # "free"
    /\ faults < MaxFaults /\ faults' = faults + 1
    /\ activeOps' = IF task.kind = "operation" /\ pc = "save" THEN OpsAfter ELSE activeOps
    /\ exec' = ExecAfter(task.kind)
    /\ Release
    /\ PublishNothing
    /\ UNCHANGED <<row, files, state, nextIdx, call, crashes>>

-----------------------------------------------------------------------------
(* RecordSessionOperation *)

\* The operation turn takes the index after the last persisted turn.
Operation(status) ==
    /\ pc = "free"
    /\ Take("operation", FALSE, "write", [row EXCEPT !.latest = @ + 1],
            <<NewTurn(row.latest + 1, "operation", status)>>)
    /\ PublishNothing
    /\ UNCHANGED <<row, files, state, nextIdx, activeOps, call, budget>>

\* StartCompaction records "started" ...
OperationStarted ==
    /\ CanCompact
    /\ exec = "idle" /\ exec' = "compactStart"
    /\ row.latest + 1 < MaxTurn
    /\ Operation("started")

\* ... and its goroutine records the outcome ("failed" is recorded alike).
OperationEnded ==
    /\ exec = "compact" /\ UNCHANGED exec
    /\ Operation("completed")

\* Mutant of OperationSave: the next index is not advanced.
OperationSaveStaleIndex ==
    /\ pc = "save" /\ task.kind = "operation"
    /\ row' = rec
    /\ activeOps' = OpsAfter
    /\ Publish(<<NewTurn(rec.latest, "operation",
                         IF exec = "compactStart" THEN "started" ELSE "completed")>>)
    /\ exec' = IF exec = "compactStart" THEN "compact" ELSE "idle"
    /\ Release
    /\ UNCHANGED <<files, state, nextIdx, call, budget>>

OperationSave ==
    /\ pc = "save" /\ task.kind = "operation"
    /\ row' = rec
    /\ activeOps' = OpsAfter
    /\ nextIdx' = rec.latest + 1
    /\ Publish(<<NewTurn(rec.latest, "operation",
                         IF exec = "compactStart" THEN "started" ELSE "completed")>>)
    /\ exec' = IF exec = "compactStart" THEN "compact" ELSE "idle"
    /\ Release
    /\ UNCHANGED <<files, state, call, budget>>

-----------------------------------------------------------------------------
(* The calls that do not hold writeMu around their load and save *)

\* A client marks a prompt_done turn it has received as read.
MarkReadLoad(c) ==
    /\ call[c].op \in {"none", "answered"}
    /\ \E t \in view :
          /\ t.method = "done"
          /\ call' = [call EXCEPT ![c] = [NoCall EXCEPT !.op = "mark", !.rec = row, !.arg = t.idx]]
    /\ PublishNothing
    /\ UNCHANGED <<row, files, state, nextIdx, activeOps, lockVars, exec, budget>>

\* MarkSessionRead: at most the last done turn, never lower than it was.
ReadCursor(r, n) ==
    LET clamped == IF r.done > 0 /\ n > r.done THEN r.done ELSE n
    IN  MaxOf(r.read, clamped)

MarkReadSave(c) ==
    /\ call[c].op = "mark"
    /\ row' = IF ReadCursor(call[c].rec, call[c].arg) > call[c].rec.read
              THEN [call[c].rec EXCEPT !.read = ReadCursor(call[c].rec, call[c].arg)]
              ELSE row
    /\ call' = [call EXCEPT ![c] = NoCall]
    /\ PublishNothing
    /\ UNCHANGED <<files, state, nextIdx, activeOps, lockVars, exec, budget>>

RenameLoad(c) ==
    /\ call[c].op \in {"none", "answered"}
    /\ call' = [call EXCEPT ![c] = [NoCall EXCEPT !.op = "rename", !.rec = row]]
    /\ PublishNothing
    /\ UNCHANGED <<row, files, state, nextIdx, activeOps, lockVars, exec, budget>>

RenameSave(c) ==
    /\ call[c].op = "rename"
    /\ row' = [call[c].rec EXCEPT !.renamed = TRUE]
    /\ call' = [call EXCEPT ![c] = NoCall]
    /\ PublishNothing
    /\ UNCHANGED <<files, state, nextIdx, activeOps, lockVars, exec, budget>>

\* ReadSessionTurns loads the row and reads the files up to its latest turn ...
ReadLoad(c) ==
    /\ call[c].op \in {"none", "answered"}
    /\ \E after \in 0..row.latest :
          call' = [call EXCEPT ![c] = [NoCall EXCEPT !.op = "read", !.rec = row, !.arg = after]]
    /\ PublishNothing
    /\ UNCHANGED <<row, files, state, nextIdx, activeOps, lockVars, exec, budget>>

\* Mutant of ReadResult: every live turn is reported as unfinished.
ReadResultLiveOpen(r, after) ==
    {[idx |-> i, fin |-> TRUE] : i \in (after + 1)..r.latest}
    \cup {[idx |-> state.turns[i].idx, fin |-> FALSE] :
            i \in {j \in 1..Len(state.turns) :
                     state.turns[j].idx > after /\ state.turns[j].idx > r.latest}}

\* ... and adds the live turns once it gets the lock.
ReadResult(r, after) ==
    {[idx |-> i, fin |-> TRUE] : i \in (after + 1)..r.latest}
    \cup {[idx |-> state.turns[i].idx, fin |-> state.turns[i].fin] :
            i \in {j \in 1..Len(state.turns) :
                     state.turns[j].idx > after /\ state.turns[j].idx > r.latest}}

ReadLive(c) ==
    /\ call[c].op = "read" /\ pc = "free"
    /\ call' = [call EXCEPT ![c].op = "answered",
                            ![c].got = ReadResult(call[c].rec, call[c].arg)]
    /\ PublishNothing
    /\ UNCHANGED <<row, files, state, nextIdx, activeOps, lockVars, exec, budget>>

-----------------------------------------------------------------------------
(* The hub process dies: only the row and the files remain.  Subscribers read *)
(* the session again when they reconnect.                                     *)

Persisted == {[idx |-> i, method |-> files[i].method, tag |-> files[i].tag,
               rev |-> files[i].rev, fin |-> TRUE] :
                    i \in {j \in 1..Len(files) : j <= row.latest}}

Crash ==
    /\ crashes < MaxCrashes /\ crashes' = crashes + 1
    /\ state' = NoState /\ nextIdx' = 0 /\ activeOps' = 0
    /\ Release
    /\ exec' = "idle"
    /\ call' = [c \in Clients |-> NoCall]
    /\ out' = <<>> /\ view' = Persisted
    /\ UNCHANGED <<row, files, faults>>

-----------------------------------------------------------------------------

Handler ==
    \/ PersistLoad \/ PersistenceGap \/ WriteTurn \/ WriteRefused \/ PersistSave
    \/ UpsertLoad \/ UpsertSave \/ FinishSave \/ InterruptSave \/ OperationSave

AgentUpdate ==
    \/ \E m \in UpdateMethods \ {"tool"} : UpdateMessage(m, NoTag)
    \/ \E k \in ToolCalls : "tool" \in UpdateMethods /\ UpdateMessage("tool", k)

Next ==
    \/ PromptStarted \/ PromptStartedInterrupting \/ PromptStartLost
    \/ AgentUpdate \/ ReplyAndEnd \/ SessionInfoUpdate
    \/ PromptFinishedIgnored \/ ArtifactWriteFails
    \/ \E reason \in StopReasons \ {"interrupted"} : PromptFinished(reason)
    \/ OperationStarted \/ OperationEnded
    \/ Handler \/ StoreFails \/ Crash
    \/ \E c \in Clients : \/ MarkReadLoad(c) \/ MarkReadSave(c)
                          \/ RenameLoad(c) \/ RenameSave(c)
                          \/ ReadLoad(c) \/ ReadLive(c)

Spec == Init /\ [][Next]_vars

-----------------------------------------------------------------------------
(* Properties *)

\* In the prompt state at most one turn is unfinished: a text turn at the end.
OpenTurnIsLast ==
    \A i \in 1..Len(state.turns) :
        ~state.turns[i].fin => i = Len(state.turns) /\ state.turns[i].method \in TextMethods

\* The same for what subscribers hold: no turn lies beyond an unfinished one, on
\* whatever path publishOpenTextTurnDone was reached or a finish failed.
UnfinishedTail ==
    OpenTurnIsLast /\ \A t \in view : ~t.fin => \A u \in view : u.idx <= t.idx

\* Before publishSessionTurn sends a turn, every turn with a smaller index has
\* been sent as finished: the seal comes first, also within one handler.
SealBeforeNext ==
    [][\A i \in 1..Len(out') :
          \A t \in ViewAfter(view, SubSeq(out', 1, i - 1)) : t.idx < out'[i].idx => t.fin]_vars

\* prompt_done is published only when the turn is in the turn files, also when a
\* later prompt start finishes a prompt whose own finish failed.
DoneIsDurable ==
    \A t \in view : t.method = "done" =>
        t.idx <= Len(files) /\ files[t.idx] = ContentOf(t)

\* lastDoneTurnIndex and lastReadTurnIndex always name prompt_done turns of the
\* turn files, whatever stale copy of the row was saved last.
CursorsNameDoneTurns ==
    \A n \in {row.done, row.read} \ {0} : n <= Len(files) /\ files[n].method = "done"

\* Between handlers, latestPersistedTurnIndex of the row is the last turn of the
\* turn files.
RowMatchesFiles == pc = "free" => row.latest = Len(files)

\* The live turns continue the persisted ones without a hole, so that
\* persistSessionStateTurnsLocked and WriteTurns will accept them.
LiveTurnsFollowFiles ==
    pc = "free" => \A i \in 1..Len(state.turns) : state.turns[i].idx = row.latest + i

\* What was published last for an index is what the turn files hold for it: a
\* realtime subscriber and a reader of the files agree on every persisted turn.
PublishedIsPersisted ==
    \A t \in view : t.idx <= Len(files) => t.fin /\ files[t.idx] = ContentOf(t)

\* sessionViewSummaryFromRecordLocked's running flag
Running == (Len(state.turns) > 0 /\ ~Terminal(state)) \/ activeOps > 0

\* A session that executes nothing is not shown as running (a running session
\* cannot be archived, deleted or reloaded), and has no turn left in memory.
IdleIsSettled == exec = "idle" /\ pc = "free" => ~Running /\ Len(state.turns) = 0

\* session.read (ReadSessionTurns) returns at most one unfinished turn, the last
\* one, although it takes the files and the live turns at different moments.
ReadTail ==
    \A c \in Clients : call[c].op = "answered" =>
        \A s \in call[c].got : ~s.fin => \A u \in call[c].got : u.idx <= s.idx

\* session.read (ReadSessionTurns) covers a contiguous range.
\* Not kept by the code: see the README.
ReadContiguous ==
    \A c \in Clients : call[c].op = "answered" =>
        \A s \in call[c].got : \A i \in (call[c].arg + 1)..s.idx :
            \E u \in call[c].got : u.idx = i

\* The read cursor in the row is never moved back by a handler's save.
\* Not kept by the code: see the README.
ReadCursorMonotone == [][row'.read >= row.read]_vars
=============================================================================
