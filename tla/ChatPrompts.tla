---------------------------- MODULE ChatPrompts ----------------------------
(***************************************************************************)
(* Sending prompts from the web client: the composer, the in-memory queue  *)
(* (chat/session/chatPromptQueue.ts), the prompt that waits for its        *)
(* confirmation, context compaction and Stop, for one session, as          *)
(* WorkspaceApp.tsx drives them.                                           *)
(*                                                                         *)
(* The hub is what a client sees of it: it executes one thing at a time,   *)
(* refuses the rest with busy, and answers session.send only when the      *)
(* prompt has ended.  It publishes the end of an execution before it       *)
(* releases the session (SlowRelease tells whether a request can slip in   *)
(* between).  Requests are handled by a goroutine each, in any order;      *)
(* events and answers come back on one ordered connection.                 *)
(***************************************************************************)
EXTENDS Naturals, Sequences, SequencesExt, FiniteSets

CONSTANTS
    Prompts,        \* the prompts the user writes, each submitted once
    MaxCalls,       \* bound: request ids in use at a time
    MaxCompacts,    \* bound: /compact commands
    MaxExpiries,    \* bound: the 5 s confirmation or the 30 s request timer fires
    MaxRetries,     \* bound: Retry on an undelivered prompt
    MaxDrops,       \* bound: connection losses
    MaxForeign,     \* bound: prompts of another client of the same session
    MaxVoice,       \* bound: times voice input waits for its final text
    MaxUser,        \* bound: Stop, Cancel, Send next, Edit and session switches
    SlowRelease     \* whether a request may arrive before the session is released

ConstantsAssumption ==
    /\ {MaxCalls, MaxCompacts, MaxExpiries, MaxRetries, MaxDrops, MaxForeign,
        MaxVoice, MaxUser} \subseteq Nat
    /\ SlowRelease \in BOOLEAN
    /\ {"none", "other", "compact"} \cap Prompts = {}

VARIABLES
    hub,        \* the hub's session: phase, the request it serves, accepted prompts
    wire,       \* requests the hub has not looked at yet
    inbox,      \* events and answers on the connection
    online,
    awaiting,   \* requests this client awaits
    queue,      \* chatQueuedPromptsByKey[runtimeKey]
    pending,    \* chatPendingPromptsByKey[runtimeKey]
    prep,       \* the prompt whose attachments are being uploaded
    submitting, \* chatSubmittingByKey[runtimeKey]
    view,       \* running, openTurn, seen, compacting, terminal, cancelling, selected
    voice,      \* voiceAwaitingFinalRef
    gone,       \* prompts the user was told about: cancelled, edited, cleared, failed
    hist,       \* submitted prompts, queue order in and out, whether the user reordered
    used        \* bounds used so far

clientvars == <<awaiting, queue, pending, prep, submitting, view, voice>>
vars == <<hub, wire, inbox, online, awaiting, queue, pending, prep, submitting,
          view, voice, gone, hist, used>>

\* pending also remembers which prompts were shown as undelivered and then
\* made room for another one (history)
NoPrompt == [p |-> "none", idx |-> 0, status |-> "none", shown |-> {}]
IsPending == pending.p # "none"
Shown == pending.shown \cup (IF pending.status = "undelivered" THEN {pending.p} ELSE {})
NoPending == [NoPrompt EXCEPT !.shown = Shown]
Item == Prompts \cup {"compact"}
Request == [id : 1..MaxCalls, kind : {"send", "compact", "cancel"},
            p : Prompts \cup {"none"}, drained : BOOLEAN]
Budget == [compacts |-> MaxCompacts, expiries |-> MaxExpiries,
           retries |-> MaxRetries, drops |-> MaxDrops, foreign |-> MaxForeign,
           voice |-> MaxVoice, user |-> MaxUser]
Spend(k) == used[k] < Budget[k] /\ used' = [used EXCEPT ![k] = @ + 1]
-----------------------------------------------------------------------------
(* chatPromptQueue.ts *)

enqueueChatItem(q, item) == Append(q, item)
enqueueChatItemToFront(q, item) == <<item>> \o q
hasQueuedChatCompact(q) == Contains(q, "compact")
enqueueChatCompact(q) ==
    IF hasQueuedChatCompact(q) THEN q ELSE enqueueChatItem(q, "compact")
cancelQueuedChatItem(q, i) == RemoveAt(q, i)
moveQueuedChatPromptToFront(q, i) == <<q[i]>> \o RemoveAt(q, i)
-----------------------------------------------------------------------------
Init ==
    /\ hub = [phase |-> "idle", req |-> 0, turns |-> 0, owes |-> {},
              accepted |-> [p \in Prompts |-> 0]]
    /\ wire = {} /\ inbox = <<>> /\ online = TRUE /\ awaiting = {}
    /\ queue = <<>> /\ pending = NoPrompt /\ prep = "none" /\ submitting = FALSE
    /\ view = [running |-> FALSE, openTurn |-> FALSE, seen |-> 0, compacting |-> FALSE,
               terminal |-> {}, cancelling |-> FALSE, selected |-> TRUE]
    /\ voice = FALSE /\ gone = {}
    /\ hist = [submitted |-> {}, joined |-> <<>>, drained |-> <<>>, reordered |-> FALSE]
    /\ used = [k \in DOMAIN Budget |-> 0]

\* runtimeSessionHasActiveExecution and runtimeSessionIsBusy
HasActiveExecution == view.compacting \/ view.running
IsBusy == submitting \/ HasActiveExecution

\* service.sendProjectSessionMessage and its like send a request with a fresh
\* id; an id is used again when nothing refers to it any more.
IdsInUse ==
    {r.id : r \in awaiting \cup wire} \cup hub.owes \cup {hub.req} \cup view.terminal
        \cup {inbox[i].v : i \in {j \in DOMAIN inbox : inbox[j].t \in {"answer", "op_done"}}}
FreeIds == (1..MaxCalls) \ IdsInUse
Call(kind, p, drained) ==
    /\ online /\ FreeIds # {}
    /\ LET id == CHOOSE i \in FreeIds : \A j \in FreeIds : i <= j
           r == [id |-> id, kind |-> kind, p |-> p, drained |-> drained]
       IN  wire' = wire \cup {r} /\ awaiting' = awaiting \cup {r}
NoCall == UNCHANGED <<wire, awaiting>>

\* rememberPendingChatPrompt replaces whatever was pending.
rememberPendingChatPrompt(p, status) ==
    pending' = [p |-> p, idx |-> view.seen + 1, status |-> status, shown |-> Shown]

\* The end of sendChatMessage, once the content blocks are ready.
SendBlocks(p, q) ==
    \/ /\ HasActiveExecution
       /\ queue' = enqueueChatItem(q, p) /\ submitting' = FALSE
       /\ hist' = [hist EXCEPT !.joined = Append(@, p)]
       /\ UNCHANGED pending /\ NoCall
    \/ /\ ~HasActiveExecution /\ online
       /\ queue' = q /\ submitting' = TRUE
       /\ rememberPendingChatPrompt(p, "confirming")
       /\ Call("send", p, FALSE)
       /\ UNCHANGED hist
    \/ /\ ~HasActiveExecution /\ ~online
       /\ queue' = q /\ submitting' = FALSE
       /\ rememberPendingChatPrompt(p, "undelivered")
       /\ UNCHANGED hist /\ NoCall

\* sendChatMessage from the composer: uploads run while submitting is set.
SubmitComposer(p) ==
    /\ view.selected /\ ~voice /\ ~submitting /\ p \notin hist.submitted
    /\ hist' = [hist EXCEPT !.submitted = @ \cup {p}]
    /\ prep' = p /\ submitting' = TRUE
    /\ UNCHANGED <<hub, wire, inbox, online, awaiting, queue, pending, view, voice, gone, used>>

AttachmentsReady ==
    /\ prep # "none"
    /\ SendBlocks(prep, queue)
    /\ prep' = "none"
    /\ UNCHANGED <<hub, inbox, online, view, voice, gone, used>>

\* uploadChatAttachmentsForSend throws: nothing was sent, the composer keeps
\* its text and the error is shown.
AttachmentsFail ==
    /\ prep # "none" /\ Spend("user")
    /\ prep' = "none" /\ submitting' = FALSE /\ gone' = gone \cup {prep}
    /\ UNCHANGED <<hub, wire, inbox, online, awaiting, queue, pending, view, voice, hist>>

\* retryPendingChatPrompt; while something executes, a copy joins the queue
RetryPending ==
    /\ pending.status = "undelivered" /\ view.selected /\ ~voice /\ ~submitting
    /\ Spend("retries")
    /\ SendBlocks(pending.p, queue)
    /\ UNCHANGED <<hub, inbox, online, prep, view, voice, gone>>

\* editPendingChatPrompt: the text goes back to the composer.
EditPending ==
    /\ pending.status = "undelivered" /\ Spend("user")
    /\ pending' = NoPending /\ submitting' = FALSE /\ gone' = gone \cup {pending.p}
    /\ UNCHANGED <<hub, wire, inbox, online, awaiting, queue, prep, view, voice, hist>>

\* invokeChatSessionAction for /compact
InvokeCompact ==
    /\ view.selected /\ Spend("compacts")
    /\ \/ /\ IsBusy \/ queue # <<>>
          /\ queue' = enqueueChatCompact(queue)
          /\ UNCHANGED submitting /\ NoCall
       \/ /\ ~IsBusy /\ queue = <<>>
          /\ submitting' = TRUE
          /\ Call("compact", "none", FALSE)
          /\ UNCHANGED queue
    /\ UNCHANGED <<hub, inbox, online, pending, prep, view, voice, gone, hist>>

\* The drain effect and drainNextQueuedChatItem.  The effect looks at what is
\* rendered (an open prompt turn counts only while nothing is pending); the
\* function looks at the refs.  The item leaves the queue before it is sent,
\* and sendChatMessage returns at once while voice input awaits its text.
CanDrain ==
    /\ view.selected /\ queue # <<>> /\ ~IsBusy
    /\ ~(view.openTurn /\ ~IsPending)
\* mutant: the item stays in the queue
DrainDuplicates ==
    /\ CanDrain /\ Head(queue) # "compact" /\ ~voice
    /\ SendBlocks(Head(queue), queue)
    /\ UNCHANGED <<hub, inbox, online, prep, view, voice, gone, used>>
DrainPrompt ==
    /\ CanDrain /\ Head(queue) # "compact" /\ online
    /\ \/ /\ voice
          /\ queue' = Tail(queue)
          /\ UNCHANGED <<pending, submitting, hist>> /\ NoCall
       \/ /\ ~voice
          /\ queue' = Tail(queue) /\ submitting' = TRUE
          /\ rememberPendingChatPrompt(Head(queue), "confirming")
          /\ Call("send", Head(queue), TRUE)
          /\ hist' = [hist EXCEPT !.drained = Append(@, Head(queue))]
    /\ UNCHANGED <<hub, inbox, online, prep, view, voice, gone, used>>

DrainCompact ==
    /\ CanDrain /\ Head(queue) = "compact" /\ online
    /\ queue' = Tail(queue) /\ submitting' = TRUE
    /\ Call("compact", "none", TRUE)
    /\ UNCHANGED <<hub, inbox, online, pending, prep, view, voice, gone, hist, used>>

\* cancelQueuedPrompt and prioritizeQueuedPrompt; the chat shows prompts only
CancelQueued ==
    /\ Spend("user")
    /\ \E i \in DOMAIN queue :
        /\ queue[i] # "compact"
        /\ queue' = cancelQueuedChatItem(queue, i)
        /\ gone' = gone \cup {queue[i]}
    /\ UNCHANGED <<hub, wire, inbox, online, awaiting, pending, prep, submitting, view, voice, hist>>

PrioritizeQueued ==
    /\ Spend("user")
    /\ \E i \in DOMAIN queue :
        /\ queue[i] # "compact" /\ queue' = moveQueuedChatPromptToFront(queue, i)
    /\ hist' = [hist EXCEPT !.reordered = TRUE]
    /\ UNCHANGED <<hub, wire, inbox, online, awaiting, pending, prep, submitting, view, voice, gone>>

\* cancelSelectedChatPrompt; Stop is shown while a prompt runs
StopPrompt ==
    /\ view.selected /\ (view.running \/ view.openTurn) /\ ~view.compacting
    /\ ~view.cancelling /\ Spend("user")
    /\ view' = [view EXCEPT !.cancelling = TRUE]
    /\ Call("cancel", "none", FALSE)
    /\ UNCHANGED <<hub, inbox, online, queue, pending, prep, submitting, voice, gone, hist>>

SwitchSession ==
    /\ Spend("user") /\ view' = [view EXCEPT !.selected = ~@]
    /\ UNCHANGED <<hub, wire, inbox, online, awaiting, queue, pending, prep, submitting, voice, gone, hist>>

\* Voice input stops and waits for its final text, and gets it (VoiceInput).
VoiceAwait ==
    /\ ~voice /\ Spend("voice") /\ voice' = TRUE
    /\ UNCHANGED <<hub, wire, inbox, online, awaiting, queue, pending, prep, submitting, view, gone, hist>>
VoiceFinal ==
    /\ voice /\ voice' = FALSE
    /\ UNCHANGED <<hub, wire, inbox, online, awaiting, queue, pending, prep, submitting, view, gone, hist, used>>
-----------------------------------------------------------------------------
(* The hub *)

Ev(t, v) == [t |-> t, v |-> v]
Ans(id, res) == [t |-> "answer", v |-> id, res |-> res]
Deliver(msgs) == inbox' = IF online THEN inbox \o msgs ELSE inbox

\* PromptToSession -> beginExecution, StartCompaction, cancelPrompt
HubTake(r) ==
    /\ r \in wire /\ wire' = wire \ {r}
    /\ \/ /\ r.kind = "cancel"
          /\ Deliver(<<Ans(r.id, "ok")>>) /\ UNCHANGED hub
       \/ /\ r.kind # "cancel" /\ hub.phase # "idle"
          /\ Deliver(<<Ans(r.id, "busy")>>) /\ UNCHANGED hub
       \/ /\ r.kind = "send" /\ hub.phase = "idle"
          /\ hub' = [hub EXCEPT !.phase = "prompt", !.req = r.id, !.turns = @ + 1,
                                !.accepted[r.p] = @ + 1]
          /\ Deliver(<<Ev("prompt_request", hub.turns + 1), Ev("running", TRUE)>>)
       \/ /\ r.kind = "compact" /\ hub.phase = "idle"
          /\ hub' = [hub EXCEPT !.phase = "compact", !.req = r.id, !.owes = @ \cup {r.id}]
          /\ Deliver(<<Ev("op_started", r.id), Ev("running", TRUE)>>)
    /\ UNCHANGED <<online, clientvars, gone, hist, used>>

\* Another client of the session prompts.
HubForeign ==
    /\ hub.phase = "idle" /\ Spend("foreign")
    /\ hub' = [hub EXCEPT !.phase = "prompt", !.req = 0, !.turns = @ + 1]
    /\ Deliver(<<Ev("prompt_request", hub.turns + 1), Ev("running", TRUE)>>)
    /\ UNCHANGED <<wire, online, clientvars, gone, hist>>

\* session.compact is answered when the operation was accepted, which its
\* completion may overtake.
HubAnswerCompact ==
    /\ \E id \in hub.owes :
        /\ hub' = [hub EXCEPT !.owes = @ \ {id}] /\ Deliver(<<Ans(id, "ok")>>)
    /\ UNCHANGED <<wire, online, clientvars, gone, hist, used>>

Terminal ==
    IF hub.phase = "prompt" THEN <<Ev("prompt_done", hub.turns), Ev("running", FALSE)>>
    ELSE <<Ev("op_done", hub.req), Ev("running", FALSE)>>
SendAnswer(kind) ==
    IF kind = "prompt" /\ hub.req # 0 THEN <<Ans(hub.req, "ok")>> ELSE <<>>

\* finishPromptState publishes the end, endExecution comes later.
HubFinish ==
    /\ hub.phase \in {"prompt", "compact"}
    /\ IF SlowRelease
       THEN /\ hub' = [hub EXCEPT !.phase = IF @ = "prompt" THEN "endPrompt" ELSE "endCompact"]
            /\ Deliver(Terminal)
       ELSE /\ hub' = [hub EXCEPT !.phase = "idle"]
            /\ Deliver(Terminal \o SendAnswer(hub.phase))
    /\ UNCHANGED <<wire, online, clientvars, gone, hist, used>>

HubRelease ==
    /\ hub.phase \in {"endPrompt", "endCompact"}
    /\ hub' = [hub EXCEPT !.phase = "idle"]
    /\ Deliver(SendAnswer(IF hub.phase = "endPrompt" THEN "prompt" ELSE "compact"))
    /\ UNCHANGED <<wire, online, clientvars, gone, hist, used>>
-----------------------------------------------------------------------------
(* Events and answers at the client *)

\* forgetPendingChatPrompt: any prompt_request of the session confirms.
OnPromptRequest(m) ==
    /\ m.t = "prompt_request"
    /\ view' = [view EXCEPT !.openTurn = TRUE, !.seen = m.v]
    /\ pending' = IF IsPending THEN NoPending ELSE pending
    /\ submitting' = (submitting /\ ~IsPending)
    /\ UNCHANGED <<awaiting, queue, gone>>

OnPromptDone(m) ==
    /\ m.t = "prompt_done"
    /\ view' = [view EXCEPT !.openTurn = FALSE, !.cancelling = @ /\ ~view.selected]
    /\ UNCHANGED <<awaiting, queue, pending, submitting, gone>>

OnUpdated(m) ==
    /\ m.t = "running"
    /\ view' = [view EXCEPT !.running = m.v, !.cancelling = @ /\ m.v]
    /\ UNCHANGED <<awaiting, queue, pending, submitting, gone>>

\* session_operation turns
OnOperation(m) ==
    /\ \/ /\ m.t = "op_started"
          /\ view' = [view EXCEPT !.compacting = TRUE]
       \/ /\ m.t = "op_done"
          /\ view' = [view EXCEPT !.compacting = FALSE, !.terminal = @ \cup {m.v}]
    /\ UNCHANGED <<awaiting, queue, pending, submitting, gone>>

markPendingChatPromptUndelivered(r) ==
    pending' = IF IsPending THEN [pending EXCEPT !.status = "undelivered"]
               ELSE pending

SettleKeepsLock(r, res) ==
    /\ r.kind = "send"
    /\ IF res = "ok" THEN UNCHANGED pending ELSE markPendingChatPromptUndelivered(r)
    /\ UNCHANGED <<submitting, queue, view, gone>>
SettleSend(r, res) ==
    /\ r.kind = "send"
    /\ IF res = "ok" THEN UNCHANGED <<pending, submitting>>
       ELSE /\ markPendingChatPromptUndelivered(r)
            /\ submitting' = (submitting /\ ~IsPending)
    /\ UNCHANGED <<queue, view, gone>>

\* requestSessionCompaction and the two callers that handle busy
SettleCompact(r, res) ==
    /\ r.kind = "compact" /\ submitting' = FALSE
    /\ queue' = IF res # "busy" THEN queue
                ELSE IF r.drained THEN enqueueChatItemToFront(queue, "compact")
                ELSE enqueueChatCompact(queue)
    /\ view' = IF res # "ok" THEN view
               ELSE IF r.id \in view.terminal THEN [view EXCEPT !.terminal = @ \ {r.id}]
               ELSE [view EXCEPT !.compacting = TRUE]
    /\ UNCHANGED <<pending, gone>>

SettleCancel(r, res) ==
    /\ r.kind = "cancel"
    /\ view' = [view EXCEPT !.cancelling = @ /\ res = "ok"]
    /\ UNCHANGED <<queue, pending, submitting, gone>>

Settle(r, res) == SettleSend(r, res) \/ SettleCompact(r, res) \/ SettleCancel(r, res)

OnAnswer(m) ==
    /\ m.t = "answer"
    /\ \/ \E r \in awaiting :
            r.id = m.v /\ awaiting' = awaiting \ {r} /\ Settle(r, m.res)
       \/ /\ \A r \in awaiting : r.id # m.v
          /\ UNCHANGED <<awaiting, queue, pending, submitting, view, gone>>

Receive ==
    /\ inbox # <<>> /\ inbox' = Tail(inbox)
    /\ LET m == Head(inbox)
       IN  OnPromptRequest(m) \/ OnPromptDone(m) \/ OnUpdated(m) \/ OnOperation(m) \/ OnAnswer(m)
    /\ UNCHANGED <<hub, wire, online, prep, voice, hist, used>>

\* The 30 s timer of a request: registry request timed out
RequestTimeout ==
    /\ Spend("expiries")
    /\ \E r \in awaiting : awaiting' = awaiting \ {r} /\ Settle(r, "timeout")
    /\ UNCHANGED <<hub, wire, inbox, online, prep, voice, hist>>

\* CHAT_PENDING_CONFIRM_TIMEOUT_MS
ConfirmTimeout ==
    /\ pending.status = "confirming" /\ Spend("expiries")
    /\ pending' = [pending EXCEPT !.status = "undelivered"] /\ submitting' = FALSE
    /\ UNCHANGED <<hub, wire, inbox, online, awaiting, queue, prep, view, voice, gone, hist>>

\* onClose: the queue and the compaction state are dropped, then every request
\* fails.  Requests on their way may or may not reach the hub.
ConnectionLost ==
    /\ online /\ Spend("drops")
    /\ online' = FALSE /\ inbox' = <<>> /\ awaiting' = {}
    /\ wire' \in SUBSET wire
    /\ gone' = gone \cup (ToSet(queue) \ {"compact"})
    /\ queue' = <<>>
    /\ pending' = IF IsPending /\ \E r \in awaiting : r.kind = "send"
                  THEN [pending EXCEPT !.status = "undelivered"] ELSE pending
    /\ submitting' = (submitting /\ prep # "none")
    /\ view' = [view EXCEPT !.compacting = FALSE, !.terminal = {},
                            !.cancelling = @ /\ \A r \in awaiting : r.kind # "cancel"]
    /\ UNCHANGED <<hub, prep, voice, hist>>

\* The reconnect lists and reads the session again; forgetPendingPromptIfResolved
Reconnect ==
    /\ ~online /\ online' = TRUE
    /\ view' = [view EXCEPT !.running = hub.phase \in {"prompt", "compact"},
                            !.openTurn = hub.phase = "prompt", !.seen = hub.turns]
    /\ LET resolved == IsPending /\ hub.turns >= pending.idx
       IN  /\ pending' = IF resolved THEN NoPending ELSE pending
           /\ submitting' = (submitting /\ ~resolved)
    /\ UNCHANGED <<hub, wire, inbox, awaiting, queue, prep, voice, gone, hist, used>>

Next ==
    \/ \E p \in Prompts : SubmitComposer(p)
    \/ AttachmentsReady \/ AttachmentsFail \/ RetryPending \/ EditPending
    \/ InvokeCompact \/ DrainPrompt \/ DrainCompact
    \/ CancelQueued \/ PrioritizeQueued \/ StopPrompt \/ SwitchSession
    \/ VoiceAwait \/ VoiceFinal
    \/ \E r \in wire : HubTake(r)
    \/ HubForeign \/ HubAnswerCompact \/ HubFinish \/ HubRelease
    \/ Receive \/ RequestTimeout \/ ConfirmTimeout \/ ConnectionLost \/ Reconnect

Spec == Init /\ [][Next]_vars

\* The hub finishes what it starts, messages arrive, and the drain effect
\* runs after every render that makes it possible.
Fairness ==
    /\ WF_vars(AttachmentsReady) /\ WF_vars(Receive)
    /\ WF_vars(\E r \in wire : HubTake(r))
    /\ WF_vars(HubAnswerCompact) /\ WF_vars(HubFinish) /\ WF_vars(HubRelease)
    /\ WF_vars(DrainPrompt) /\ WF_vars(DrainCompact) /\ WF_vars(Reconnect)
    /\ WF_vars(VoiceFinal)
FairSpec == Spec /\ Fairness
-----------------------------------------------------------------------------
(* Properties *)

TypeOK ==
    /\ hub.phase \in {"idle", "prompt", "compact", "endPrompt", "endCompact"}
    /\ hub.owes \subseteq 1..MaxCalls
    /\ wire \subseteq Request /\ awaiting \subseteq Request
    /\ online \in BOOLEAN /\ submitting \in BOOLEAN /\ voice \in BOOLEAN
    /\ queue \in Seq(Item)
    /\ pending.p \in Prompts \cup {"none"} /\ pending.shown \subseteq Prompts
    /\ pending.status \in {"none", "confirming", "undelivered"}
    /\ prep \in Prompts \cup {"none"}
    /\ view.terminal \subseteq 1..MaxCalls

Quiet == online /\ inbox = <<>> /\ awaiting = {} /\ wire = {} /\ hub.owes = {}

\* The hub executes a prompt at most once for every time the user sent it: a
\* second execution needs a Retry.
OncePerSend ==
    \A p \in Prompts : hub.accepted[p] <= 1 + used.retries

\* A prompt that was not executed stays with the client (being prepared, queued
\* or pending) or on its way until the user gives it up.
InClient(p) ==
    \/ prep = p \/ Contains(queue, p) \/ pending.p = p
    \/ \E r \in wire : r.p = p
\* Not kept by the code: see the README.
UndeliveredStays ==
    \A p \in hist.submitted : InClient(p) \/ hub.accepted[p] > 0 \/ p \in gone

\* A prompt that is lost was at least shown as undelivered before.
LossIsShown ==
    \A p \in hist.submitted :
        InClient(p) \/ hub.accepted[p] > 0 \/ p \in gone \/ p \in pending.shown

\* Queued prompts leave the queue in the order in which they joined it, unless
\* the user moves one to the front.
FifoQueue ==
    hist.reordered \/ \A i, j \in DOMAIN hist.drained :
        i < j => \E k, l \in DOMAIN hist.joined :
            k < l /\ hist.joined[k] = hist.drained[i] /\ hist.joined[l] = hist.drained[j]

\* At most one compaction waits in the queue.
\* Not kept by the code: see the README.
OneCompact == Cardinality({i \in DOMAIN queue : queue[i] = "compact"}) <= 1

\* When nothing is on the way, the client shows a compaction only while the hub
\* is compacting, whichever of the answer and the completion came first.
CompactingIsReal == Quiet /\ view.compacting => hub.phase = "compact"

\* When nothing is on the way and the hub is idle, Stop is available again.
CancelEnds == Quiet /\ hub.phase = "idle" => ~view.cancelling

\* A prompt becomes undelivered through its own request or its own timer.  The
\* request of another prompt is the cause only when its 30 s timer fires, or when
\* that prompt was shown as undelivered before and its answer comes late.
BlameOwnCallStep ==
  (pending.status = "confirming" /\ pending'.status = "undelivered")
    => \/ awaiting' = awaiting
       \/ \E r \in awaiting \ awaiting' :
            /\ r.kind = "send"
            /\ r.p = pending.p \/ r.p \in pending.shown \/ used'.expiries > used.expiries

\* The composer unlocks again after every submission.
ComposerUnlocks == submitting ~> ~submitting

\* While its session stays selected the queue becomes empty and every prompt that
\* was in it executed, shown as undelivered or taken back by the user, except one
\* that left it while voice input awaited its text, which is dropped unsent.
QueueDrains ==
    (queue # <<>>) ~> /\ queue = <<>>
                      /\ \A p \in ToSet(hist.joined) :
                            \/ hub.accepted[p] > 0 \/ p \in gone \cup Shown
                            \/ used.voice > 0 /\ p \notin ToSet(hist.drained)
=============================================================================
