----------------------------- MODULE ChatDisplay -----------------------------
(***************************************************************************)
(* What the chat view makes of the turns it holds: the rows of the list,   *)
(* whether a prompt still runs, the plan above the composer, the answer    *)
(* that a copy puts on the clipboard, the message whose options may be     *)
(* clicked, the row a jump lands on.  All of it is computed anew from the  *)
(* turns of the selected session, which arrive in any order and with gaps. *)
(*                                                                         *)
(* The hub appends turns: a prompt is a request, then chunks, tool calls   *)
(* and plans, then the end; a compaction is two turns that name the same   *)
(* operation.  A slot of the hub's turn files may be lost; a read then has *)
(* a gap turn in its place.                                                *)
(***************************************************************************)
EXTENDS Naturals, Sequences, SequencesExt, FiniteSets, FiniteSetsExt

CONSTANTS MaxTurns,  \* bound on the length of the log
          Kinds,     \* what an agent writes: subset of msg, tool, plan
          Lost,      \* slots of the turn files that cannot be read
          Restarts   \* the hub may restart during a compaction
ChatDisplayConstants == MaxTurns \in Nat /\ Kinds \subseteq {"msg", "tool", "plan"} /\ Lost \subseteq 1..MaxTurns /\ Restarts \in BOOLEAN

VARIABLES log,     \* turns of the hub
          hub,     \* what the hub executes
          held,    \* turns the client has, as they are or as gaps
          running  \* the session's summary says that it runs
vars == <<log, hub, held, running>>

Turn(m, op, st) == [m |-> m, op |-> op, st |-> st]
Init == log = <<>> /\ hub = "idle" /\ held = [i \in 1..MaxTurns |-> "none"] /\ running = FALSE
-----------------------------------------------------------------------------
(* The hub. *)
Write(t) == Len(log) < MaxTurns /\ log' = Append(log, t) /\ UNCHANGED <<held, running>>
StartPrompt == hub = "idle" /\ hub' = "prompt" /\ Write(Turn("req", 0, "-"))
AgentUpdate(k) == hub = "prompt" /\ Len(log) + 1 < MaxTurns /\ UNCHANGED hub /\ Write(Turn(k, 0, "-"))
FinishPrompt == hub = "prompt" /\ hub' = "idle" /\ Write(Turn("done", 0, "-"))
\* An operation is known by the turn that starts it.
StartCompaction == hub = "idle" /\ Len(log) + 1 < MaxTurns /\ hub' = "compact" /\ Write(Turn("op", Len(log) + 1, "started"))
FinishCompaction == hub = "compact" /\ hub' = "idle" /\ Write(Turn("op", Len(log), "completed"))
\* The compaction is gone, and no turn says so.
HubRestarts == Restarts /\ hub = "compact" /\ hub' = "idle" /\ UNCHANGED <<log, held, running>>
-----------------------------------------------------------------------------
(* The client's turns. *)
Receive(i) == i \in DOMAIN log /\ held[i] # "turn" /\ held' = [held EXCEPT ![i] = "turn"] /\ UNCHANGED <<log, hub, running>>
\* session.read has a gap in the place of a slot it cannot read.
ReadGap(i) ==
  /\ i \in Lost \cap DOMAIN log /\ (hub = "idle" \/ \E j \in DOMAIN log : j > i /\ log[j].m = "done") /\ held[i] = "none"
  /\ held' = [held EXCEPT ![i] = "gap"] /\ UNCHANGED <<log, hub, running>>
SummaryArrives == running # (hub # "idle") /\ running' = (hub # "idle") /\ UNCHANGED <<log, hub, held>>
Held == {i \in DOMAIN held : held[i] # "none"}
decodeSessionTurnToMessage(i) == IF held[i] = "gap" THEN Turn("gap", 0, "-") ELSE log[i]
Of(m) == {i \in Held : decodeSessionTurnToMessage(i).m = m}
-----------------------------------------------------------------------------
(* The views. *)
AnyDone(i) == IF i \notin Of("req") \/ Of("done") # {} THEN "none" ELSE "responding"
\* A prompt responds until its end is held: the first one after it, before
\* the next prompt.
resolvePromptTurnStatus(i) ==
  IF i \notin Of("req") \/ (\E d \in Of("done") : d > i /\ ~ (\E j \in Of("req") : i < j /\ j < d)) THEN "none" ELSE "responding"
hasContinuousTurnRange(a, b) == a..b \subseteq Held
Failed(why) == [ok |-> FALSE, reason |-> why, turns |-> {}]
CopyOver(r, d) ==
  LET msgs == {j \in Of("msg") : r < j /\ j < d} IN IF msgs = {} THEN Failed("empty_agent_response") ELSE [ok |-> TRUE, reason |-> "-", turns |-> msgs]
buildPromptDoneCopyRange(d) ==
  LET reqs == {r \in Of("req") : r < d}
  IN  IF d \notin Of("done") THEN Failed("missing_done")
      ELSE IF reqs = {} THEN Failed("missing_request")
      ELSE IF ~ hasContinuousTurnRange(Max(reqs), d) THEN Failed("gap") ELSE CopyOver(Max(reqs), d)
\* The newest plan, unless a newer prompt is held; 0 for none.
extractLatestChatPlan ==
  IF Of("plan") = {} \/ (\E r \in Of("req") : r > Max(Of("plan"))) THEN 0 ELSE Max(Of("plan"))
\* The message whose options may be clicked: the newest after every prompt.
latestSelectableAssistantReply ==
  LET after == {j \in Of("msg") : \A r \in Of("req") : j > r} IN IF after = {} THEN 0 ELSE Max(after)
\* What has text or is shown without.
shouldRenderChatTurn(i, hide) == decodeSessionTurnToMessage(i).m \in {"req", "done", "op", "msg"} \cup (IF hide THEN {} ELSE {"tool"})
LatestOfOperation(i) == i \in Of("op") => \A j \in Of("op") : log[j].op = log[i].op => j <= i
\* Rows of the list: turns in their order, then the pending prompt and the
\* queued ones, which have no turn.
buildChatDisplayIndex(hide, waiting) ==
  SetToSortSeq({i \in Held : shouldRenderChatTurn(i, hide) /\ LatestOfOperation(i)}, <) \o [k \in 1..waiting |-> 0]
\* The row a jump to turn t lands on; 0 for none.
resolveChatDisplayScrollIndex(rows, t) ==
  LET exact == {k \in DOMAIN rows : rows[k] = t} following == {k \in DOMAIN rows : rows[k] > t}
  IN  IF rows = <<>> THEN 0 ELSE IF exact # {} THEN Min(exact) ELSE IF following # {} THEN Min(following) ELSE Len(rows)
selectedChatHasOpenPromptTurn == \E i \in Of("req") : resolvePromptTurnStatus(i) = "responding"
\* The last held state of each operation counts.
selectedChatCompactionRunning == \E i \in Of("op") : log[i].st = "started" /\ \A j \in Of("op") : log[j].op = log[i].op => j <= i
selectedChatPromptRunning == (running /\ ~ selectedChatCompactionRunning) \/ selectedChatHasOpenPromptTurn
selectedChatExecutionRunning == selectedChatPromptRunning \/ selectedChatCompactionRunning
-----------------------------------------------------------------------------
Next ==
  \/ StartPrompt \/ (\E k \in Kinds : AgentUpdate(k)) \/ FinishPrompt \/ StartCompaction \/ FinishCompaction \/ HubRestarts
  \/ (\E i \in 1..MaxTurns : Receive(i) \/ ReadGap(i)) \/ SummaryArrives
Spec == Init /\ [][Next]_vars
\* A prompt and a compaction end, a client reads until it has every turn, and
\* a summary is published at each change.
Fairness == /\ \A i \in 1..MaxTurns : WF_vars(Receive(i))
            /\ WF_vars(SummaryArrives) /\ WF_vars(FinishPrompt) /\ WF_vars(FinishCompaction)
FairSpec == Spec /\ Fairness
-----------------------------------------------------------------------------
TypeOK ==
  /\ Len(log) <= MaxTurns /\ hub \in {"idle", "prompt", "compact"} /\ running \in BOOLEAN
  /\ Held \subseteq DOMAIN log /\ \A i \in Held : held[i] = "gap" => i \in Lost
\* The prompt that turn i of the log belongs to.
PromptOf(i) == Max({r \in 1..i : log[r].m = "req"})
Ends(r) == {d \in DOMAIN log : d > r /\ log[d].m = "done" /\ PromptOf(d) = r}
\* A copy that succeeds has every chunk of that answer and no chunk of another,
\* whatever turns are still missing.
CopyIsWhole == \A d \in Held : LET c == buildPromptDoneCopyRange(d)
  IN  c.ok => c.turns = {j \in DOMAIN log : log[j].m = "msg" /\ j < d /\ PromptOf(j) = PromptOf(d)}
\* A prompt shown as ended has ended on the hub, and with every turn at hand
\* one that is shown as running has not.
StatusHonest == \A i \in Of("req") :
  /\ resolvePromptTurnStatus(i) = "none" => Ends(i) # {}
  /\ (resolvePromptTurnStatus(i) = "responding" /\ Held = DOMAIN log) => Ends(i) = {}
\* A plan is shown only while no newer prompt is known, and it is the newest
\* plan of its prompt that is held.
PlanIsCurrent == extractLatestChatPlan # 0 =>
  /\ \A r \in Of("req") : PromptOf(extractLatestChatPlan) >= r
  /\ \A j \in Of("plan") : PromptOf(j) = PromptOf(extractLatestChatPlan) => j <= extractLatestChatPlan
\* The options of an answer to an earlier prompt are never offered when the
\* newest prompt is held.
OffersAreCurrent == (latestSelectableAssistantReply # 0 /\ \E r \in Of("req") : \A i \in DOMAIN log : log[i].m = "req" => i <= r) =>
  \A i \in DOMAIN log : log[i].m = "req" => i < latestSelectableAssistantReply
\* Each operation of which a turn is held has one row, that of its last held state.
RowPerOperation == \A hide \in BOOLEAN : LET rows == Range(buildChatDisplayIndex(hide, 0)) IN
  \A i \in Of("op") : LET mine == {j \in Of("op") : log[j].op = log[i].op} IN rows \cap mine = {Max(mine)}
\* A jump lands on the turn itself when it has a row, and otherwise passes
\* over no row on its way down.
JumpLands == \A hide \in BOOLEAN, waiting \in 0..1 : LET rows == buildChatDisplayIndex(hide, waiting) IN
  \A t \in Held : rows # <<>> =>
    LET k == resolveChatDisplayScrollIndex(rows, t) IN
      /\ t \in Range(rows) => rows[k] = t
      /\ \A j \in DOMAIN rows : (rows[j] > t /\ t \notin Range(rows)) => rows[k] > t /\ rows[k] <= rows[j]
\* The hub is idle for good: the view comes to say so, and prompts are sent
\* at once instead of being queued.
IdleIsSeen == <>[](hub = "idle" => ~ selectedChatExecutionRunning)
\* A copy whose range has a gap turn fails.
\* Not kept by the code: see the README.
CopyGapDisabled == \A d \in Held : buildPromptDoneCopyRange(d).ok =>
  \A g \in Of("gap") : g > d \/ g < Max({r \in Of("req") : r < d})
\* A gap turn has a row.
\* Not kept by the code: see the README.
GapHasRow == \A g \in Of("gap") : g \in Range(buildChatDisplayIndex(FALSE, 0))
=============================================================================
