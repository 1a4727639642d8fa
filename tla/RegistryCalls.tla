---------------------------- MODULE RegistryCalls ----------------------------
(***************************************************************************)
(* The calls of the page to the registry and, through it, to a hub: the    *)
(* table of methods with their timeouts and with what the page makes of an *)
(* answer, the client's pending requests, the dispatcher of the registry   *)
(* with its workers, the forwards that wait at a hub connection, and the   *)
(* hub, which serves each request in a goroutine of its own and carries on *)
(* when nobody waits for it any more.  One page connection and one hub.    *)
(***************************************************************************)
EXTENDS Naturals, Sequences, FiniteSets

CONSTANTS Calls,        \* identities of the calls of the page
          Methods,      \* names of the methods that are called
          Workers,      \* asyncWorkerCount
          QueueSize,    \* asyncQueueBuffer
          MaxForwards,  \* maxPendingForwards
          MaxEpochs,    \* bound: connections of the hub
          Closes,       \* whether the socket of the page closes
          Bare,         \* whether a hub may answer without the optional fields
          RetryCodes    \* the codes after which a caller repeats a change

VARIABLES call,      \* of every call: row of its method, phase, outcome, operation
          ready,     \* the service: "none", "repository" or also "session"
          reg,       \* of every call: where it is in the registry
          fwd,       \* forwards that wait: id, call, connection of the hub
          hub,       \* link of the hub: connection, state; next forward id
          work,      \* goroutines of the hub
          wire,      \* answers of the hub and answers to the page under way
          applied    \* how often the hub has done an operation
vars == <<call, ready, reg, fwd, hub, work, wire, applied>>
-----------------------------------------------------------------------------
\* The methods.  scope: who serves it; change: whether it changes anything;
\* tc, tr: seconds that the client and the registry wait; guard: what the
\* service does without a repository; shape: how the answer is read.
M(name, scope, change, tc, guard, shape) == [name |-> name, scope |-> scope, change |-> change, tc |-> tc, guard |-> guard, shape |-> shape]
RegistryTable == {
  M("registry.project.list", "registry", FALSE, 8, "empty", "list"), M("security.session.list", "registry", FALSE, 8, "throw", "list"),
  M("security.session.revoke", "registry", TRUE, 8, "throw", "none"), M("security.session.revokeAll", "registry", TRUE, 8, "throw", "none"),
  M("server.config.get", "registry", FALSE, 8, "throw", "fields"), M("server.config.update", "registry", TRUE, 8, "throw", "fields"),
  M("server.androidSpeechCredential.get", "registry", FALSE, 8, "throw", "must"), M("debug.uploadLog", "registry", TRUE, 15, "throw", "ok"),
  M("tts.synthesize", "registry", FALSE, 50, "throw", "must")}
FileTable == {
  M("project.fs.list", "project", FALSE, 20, "empty", "list"), M("project.fs.info", "project", FALSE, 8, "throw", "fields"),
  M("project.fs.read", "project", FALSE, 8, "throw", "fields"), M("project.fs.index.search", "project", FALSE, 20, "throw", "list"),
  M("fileIndex.status", "hub", FALSE, 60, "throw", "section"), M("fileIndex.rebuild", "hub", TRUE, 60, "throw", "section")}
SessionTable == {
  M("session.list", "project", FALSE, 15, "empty", "sessions"), M("session.read", "project", FALSE, 15, "empty", "turns"),
  M("session.artifact.read", "project", FALSE, 30, "throw", "fields"), M("session.markRead", "project", TRUE, 15, "throw", "ok"),
  M("session.create", "project", TRUE, 120, "throw", "ok"), M("session.send", "project", TRUE, 30, "throw", "ok"),
  M("session.status", "project", FALSE, 30, "throw", "status"), M("session.compact", "project", TRUE, 30, "throw", "ok")}
AttachmentTable == {
  M("session.attachment." \o x[1], "project", x[2], x[3], "throw", "ok") :
     x \in {<<"start", TRUE, 30>>, <<"chunk", TRUE, 30>>, <<"finish", TRUE, 30>>, <<"cancel", TRUE, 15>>, <<"delete", TRUE, 15>>,
            <<"thumbnail", FALSE, 15>>, <<"read", FALSE, 30>>}}
LifecycleTable == {
  M("session." \o x[1], "project", TRUE, x[2], "throw", "ok") :
     x \in {<<"cancel", 15>>, <<"archive", 30>>, <<"archive.restore", 30>>, <<"delete", 30>>, <<"rename", 15>>, <<"config", 15>>,
            <<"resume.import", 15>>, <<"reload", 30>>}}
ArchiveTable == {
  M("session.archive.list", "project", FALSE, 15, "throw", "sessions"), M("session.archive.read", "project", FALSE, 15, "throw", "fields"),
  M("session.resume.list", "project", FALSE, 15, "empty", "list")}
HubTable == {
  M("hub.state.get", "hub", FALSE, 15, "throw", "section"), M("tokenStats.scan", "hub", FALSE, 60, "throw", "section"),
  M("tokenStats.providers", "hub", FALSE, 60, "throw", "list"), M("tokenStats.deepseekStats", "hub", FALSE, 60, "throw", "section")}
TerminalTable == {
  M("terminal.list", "hub", FALSE, 8, "throw", "list"), M("terminal.create", "project", TRUE, 8, "throw", "raw"), M("terminal.get", "hub", FALSE, 8, "throw", "raw"),
  M("terminal.resize", "hub", TRUE, 8, "throw", "raw"), M("terminal.close", "hub", TRUE, 8, "throw", "none"), M("terminal.restart", "hub", TRUE, 8, "throw", "raw")}
PackageTable == {M("agentPackages." \o x[1], "hub", x[2], 60, "throw", "section") :
                   x \in {<<"scan", FALSE>>, <<"install", TRUE>>, <<"installMany", TRUE>>, <<"uninstall", TRUE>>}}
  \union {M("wheelmakerUpdate.query", "hub", FALSE, 60, "throw", "section"), M("wheelmakerUpdate.updatePublish", "hub", TRUE, 60, "throw", "section")}
SkillTable == {M("skills." \o x[1], "hub", x[2], 60, "throw", "section") :
                 x \in {<<"scan", FALSE>>, <<"listSource", FALSE>>, <<"install", TRUE>>, <<"uninstall", TRUE>>, <<"detail", FALSE>>, <<"update", TRUE>>}}
Table == UNION {RegistryTable, FileTable, SessionTable, AttachmentTable, LifecycleTable, ArchiveTable, HubTable, TerminalTable, PackageTable, SkillTable}
Row(name) == CHOOSE r \in Table : r.name = name
CallConstants ==
  /\ Methods \subseteq {r.name : r \in Table} /\ \A r, s \in Table : r.name = s.name => r = s
  /\ {Workers, MaxForwards, MaxEpochs} \subseteq Nat \ {0} /\ QueueSize \in Nat /\ {Bare, Closes} \subseteq BOOLEAN /\ Calls \subseteq Nat \ {0} /\ IsFiniteSet(Calls)

\* How long the registry waits for the hub.
projectForwardRequestTimeout(r) == IF r.name = "session.create" THEN 120 ELSE 10
hubStateRequestTimeout(r) == IF r.tc = 60 THEN 60 ELSE 10
RegistryWaits(r) == IF r.scope = "project" THEN projectForwardRequestTimeout(r) ELSE hubStateRequestTimeout(r)

\* What the page gets: entries without an id are dropped, missing fields get
\* defaults, a missing ok counts as not ok, a missing section is an error
\* report, and two calls throw when the content is missing.
normalizeEntry(body) == IF body = "full" THEN {body} ELSE {}
normalizeList(body) == IF normalizeEntry(body) # {} THEN "data" ELSE "empty"
normalizeSessionSummary(body) == IF body = "full" THEN "data" ELSE "empty"
normalizeSessionStatus(body) == IF body = "full" THEN "done" ELSE "notok"
readSessionByMethod(body) == IF body = "full" THEN "data" ELSE "defaults"
normalizeFields(body) == IF body = "full" THEN "data" ELSE "defaults"
normalizeOk(body) == IF body = "full" THEN "done" ELSE "notok"
hubStateSectionData(body) == IF body = "full" THEN "done" ELSE "notok"
requireContent(body) == IF body = "full" THEN "data" ELSE "throw"
Result(r, body) ==
  CASE r.shape = "list" -> normalizeList(body)   [] r.shape = "fields" -> normalizeFields(body)
    [] r.shape = "sessions" -> normalizeSessionSummary(body) [] r.shape = "turns" -> readSessionByMethod(body) [] r.shape = "status" -> normalizeSessionStatus(body)
    [] r.shape = "ok" -> normalizeOk(body)       [] r.shape = "section" -> hubStateSectionData(body)
    [] r.shape = "must" -> requireContent(body)  [] OTHER -> "done"
-----------------------------------------------------------------------------
NoRow == M("", "registry", FALSE, 0, "", "")
Idle == [m |-> NoRow, ph |-> "idle", out |-> "", of |-> 0, op |-> 0]
Bodies == {"full"} \union (IF Bare THEN {"bare"} ELSE {})
Init ==
  /\ call = [c \in Calls |-> Idle] /\ ready = "session" /\ reg = [c \in Calls |-> [ph |-> "none", queued |-> FALSE]]
  /\ fwd = {} /\ hub = [ep |-> 1, up |-> "on", next |-> 1] /\ work = {} /\ wire = [hub |-> {}, page |-> {}]
  /\ applied = [c \in Calls |-> 0]

Settle(c, out, of) == call' = [call EXCEPT ![c].ph = "done", ![c].out = out, ![c].of = of]
\* A call through the service: without a repository, and for the selected
\* project without a session, a read of a list is empty and everything else
\* throws.
WithoutRepository(c, r, op) == call' = [call EXCEPT ![c] = [Idle EXCEPT !.m = r, !.ph = "done", !.out = r.guard, !.op = op]] /\ UNCHANGED reg
Request(c, r, op) == call' = [call EXCEPT ![c] = [Idle EXCEPT !.m = r, !.ph = "wait", !.op = op]] /\ reg' = [reg EXCEPT ![c].ph = "sent"]
Fresh(c) == call[c].ph = "idle" /\ (\A d \in Calls : call[d].ph = "idle" => c <= d)
StartHub(c, r, op) ==
  /\ r.scope # "project" /\ (IF ready # "none" THEN Request(c, r, op) ELSE WithoutRepository(c, r, op))
  /\ UNCHANGED <<ready, fwd, hub, work, wire, applied>>
StartProject(c, r, op) ==
  /\ r.scope = "project" /\ (IF ready # "none" THEN Request(c, r, op) ELSE WithoutRepository(c, r, op))
  /\ UNCHANGED <<ready, fwd, hub, work, wire, applied>>
SelectedMethods == {"session." \o x : x \in {"list", "read", "markRead", "create", "send", "archive", "rename", "resume.list", "resume.import", "reload", "config"}}
  \union {"project.fs." \o x : x \in {"list", "info", "read"}}
StartSelected(c, r, op) ==
  /\ r.name \in SelectedMethods /\ (IF ready = "session" THEN Request(c, r, op) ELSE WithoutRepository(c, r, op))
  /\ UNCHANGED <<ready, fwd, hub, work, wire, applied>>
Start(c, m, op) ==
  /\ Fresh(c)
  /\ LET r == Row(m) IN StartHub(c, r, op) \/ StartProject(c, r, op) \/ StartSelected(c, r, op)
\* The caller repeats a change after an answer that it takes for retryable.
Again(c) ==
  /\ call[c].ph = "done" /\ call[c].out \in RetryCodes /\ call[c].m.change /\ (\A d \in Calls : call[d].op = call[c].op => d <= c)
  /\ \E d \in Calls : Start(d, call[c].m.name, call[c].op)
\* The timer of the request.  While the registry waits for the hub it is the
\* first to give up, unless the request had to wait for a worker.
ClientTimeout(c) ==
  LET r == call[c].m IN
  /\ call[c].ph = "wait"
  /\ reg[c].ph = "forwarded" /\ ~ reg[c].queued /\ r.scope # "registry" => r.tc <= RegistryWaits(r)
  /\ Settle(c, "timed out", 0) /\ UNCHANGED <<ready, reg, fwd, hub, work, wire, applied>>
\* An answer settles its request; the late answer of a settled one is dropped.
Receive(a) ==
  /\ a \in wire.page /\ wire' = [wire EXCEPT !.page = @ \ {a}]
  /\ IF call[a.c].ph = "wait"
     THEN Settle(a.c, IF a.code = "" THEN Result(call[a.c].m, a.body) ELSE a.code, a.of)
     ELSE UNCHANGED call
  /\ UNCHANGED <<ready, reg, fwd, hub, work, applied>>
\* The socket closes: everything that waits is rejected, and the registry
\* drops what no worker has taken yet.
Close ==
  /\ Closes /\ ready # "none" /\ ready' = "none"
  /\ call' = [c \in Calls |-> IF call[c].ph = "wait" THEN [call[c] EXCEPT !.ph = "done", !.out = "closed"] ELSE call[c]]
  /\ reg' = [c \in Calls |-> IF reg[c].ph \in {"sent", "queued"} THEN [reg[c] EXCEPT !.ph = "dropped"] ELSE reg[c]]
  /\ wire' = [wire EXCEPT !.page = {}] /\ UNCHANGED <<fwd, hub, work, applied>>
Reopen ==
  /\ ready # "session" /\ ready' = (IF ready = "none" THEN "repository" ELSE "session") /\ UNCHANGED <<call, reg, fwd, hub, work, wire, applied>>
-----------------------------------------------------------------------------
Busy == {c \in Calls : reg[c].ph = "forwarded"}
Queue == {c \in Calls : reg[c].ph = "queued"}
\* The registry's answer, which is lost when the page is gone.
Answer(c, code, body, of) ==
  /\ reg' = [reg EXCEPT ![c].ph = "answered"]
  /\ wire' = [wire EXCEPT !.page = IF call[c].out = "closed" THEN @ ELSE @ \union {[c |-> c, code |-> code, body |-> body, of |-> of]}]
\* dispatch: a full queue is refused at once; what the registry serves itself
\* never waits for a hub.
dispatch(c) ==
  /\ reg[c].ph = "sent"
  /\ IF call[c].m.scope = "registry"
     THEN (\E b \in Bodies : Answer(c, "", b, c)) /\ applied' = [applied EXCEPT ![call[c].op] = @ + 1]
     ELSE /\ UNCHANGED applied
          /\ IF Cardinality(Queue) >= QueueSize + Workers - Cardinality(Busy) THEN Answer(c, "busy", "", c)
             ELSE reg' = [reg EXCEPT ![c].ph = "queued", ![c].queued = Cardinality(Busy) + Cardinality(Queue) >= Workers] /\ UNCHANGED wire
  /\ UNCHANGED <<call, ready, fwd, hub, work>>

freshForwardId == hub.next
BusyAfterWrite(c, pending) ==
  IF pending < MaxForwards
  THEN /\ fwd' = fwd \union {[id |-> hub.next, c |-> c, ep |-> hub.ep]} /\ work' = work \union {[id |-> hub.next, c |-> c, ep |-> hub.ep]}
       /\ reg' = [reg EXCEPT ![c].ph = "forwarded"] /\ UNCHANGED wire
  ELSE Answer(c, "busy", "", c) /\ work' = work \union {[id |-> hub.next, c |-> c, ep |-> hub.ep]} /\ UNCHANGED fwd
\* registerPending and the write: the connection may be down and not yet
\* unregistered, then the write fails and the slot is given back.
Forward(c, pending) ==
  IF pending >= MaxForwards THEN Answer(c, "busy", "", c) /\ UNCHANGED <<fwd, work>>
  ELSE IF hub.up = "closing" THEN Answer(c, "INTERNAL", "", c) /\ UNCHANGED <<fwd, work>>
  ELSE /\ fwd' = fwd \union {[id |-> freshForwardId, c |-> c, ep |-> hub.ep]} /\ work' = work \union {[id |-> freshForwardId, c |-> c, ep |-> hub.ep]}
       /\ reg' = [reg EXCEPT ![c].ph = "forwarded"] /\ UNCHANGED wire
\* executeClientRequest and executeHubStateRequest by a worker.
execute(c) ==
  /\ reg[c].ph = "queued" /\ Cardinality(Busy) < Workers
  /\ IF hub.up = "off"
     THEN Answer(c, "NOT_FOUND", "", c) /\ UNCHANGED <<fwd, work, hub>>
     ELSE Forward(c, Cardinality({f \in fwd : f.ep = hub.ep})) /\ hub' = [hub EXCEPT !.next = @ + 1]
  /\ UNCHANGED <<call, ready, applied>>
\* The hub's answer resolves the forward with its id on its connection.
resolvePending(a) ==
  /\ a \in wire.hub
  /\ \/ \E f \in fwd : /\ f.id = a.id /\ f.ep = a.ep /\ fwd' = fwd \ {f} /\ reg' = [reg EXCEPT ![f.c].ph = "answered"]
                       /\ wire' = [hub |-> wire.hub \ {a}, page |-> IF call[f.c].out = "closed" THEN wire.page
                                                             ELSE wire.page \union {[c |-> f.c, code |-> a.code, body |-> a.body, of |-> a.c]}]
     \/ (\A f \in fwd : f.id # a.id \/ f.ep # a.ep) /\ wire' = [wire EXCEPT !.hub = @ \ {a}] /\ UNCHANGED <<fwd, reg>>
  /\ UNCHANGED <<call, ready, hub, work, applied>>
TimeoutWhileCallerWaits(f) ==
  /\ f \in fwd /\ call[f.c].ph = "wait" /\ Answer(f.c, "TIMEOUT", "", f.c) /\ fwd' = fwd \ {f} /\ UNCHANGED <<call, ready, hub, work, applied>>
ForwardTimeout(f) ==
  f \in fwd /\ Answer(f.c, "TIMEOUT", "", f.c) /\ fwd' = fwd \ {f} /\ UNCHANGED <<call, ready, hub, work, applied>>
\* The connection of the hub ends: dropAllPending, and later unregisterHub.
dropAllPending ==
  /\ hub.up = "on" /\ hub' = [hub EXCEPT !.up = "closing"]
  /\ LET lost == {f.c : f \in {g \in fwd : g.ep = hub.ep}} IN
     /\ reg' = [c \in Calls |-> IF c \in lost THEN [reg[c] EXCEPT !.ph = "answered"] ELSE reg[c]]
     /\ wire' = [hub |-> {a \in wire.hub : a.ep # hub.ep},
                 page |-> wire.page \union {[c |-> c, code |-> "INTERNAL", body |-> "", of |-> c] : c \in {d \in lost : call[d].out # "closed"}}]
  /\ fwd' = {f \in fwd : f.ep # hub.ep} /\ UNCHANGED <<call, ready, work, applied>>
unregisterHub ==
  /\ hub.up = "closing" /\ hub' = [hub EXCEPT !.up = "off"] /\ UNCHANGED <<call, ready, reg, fwd, work, wire, applied>>
HubReports ==
  /\ hub.up = "off" /\ hub.ep < MaxEpochs /\ hub' = [hub EXCEPT !.up = "on", !.ep = @ + 1]
  /\ UNCHANGED <<call, ready, reg, fwd, work, wire, applied>>
-----------------------------------------------------------------------------
\* The hub does the request and answers on the connection it came from.  An
\* error of the handler is answered with its code; an answer that does not
\* say ok confirms nothing.
handleRegistryRequest(w) ==
  /\ w \in work /\ work' = work \ {w}
  /\ \E ok \in BOOLEAN, b \in Bodies :
       /\ applied' = (IF ok /\ b = "full" THEN [applied EXCEPT ![call[w.c].op] = @ + 1] ELSE applied)
       /\ wire' = [wire EXCEPT !.hub = IF w.ep = hub.ep /\ hub.up = "on"
                                       THEN @ \union {[id |-> w.id, c |-> w.c, ep |-> w.ep, code |-> IF ok THEN "" ELSE "HUB", body |-> b]} ELSE @]
  /\ UNCHANGED <<call, ready, reg, fwd, hub>>

Next ==
  \/ (\E c \in Calls : (\E m \in Methods : Start(c, m, c)) \/ Again(c) \/ ClientTimeout(c) \/ dispatch(c) \/ execute(c))
  \/ (\E a \in wire.page : Receive(a)) \/ (\E a \in wire.hub : resolvePending(a)) \/ (\E f \in fwd : ForwardTimeout(f))
  \/ (\E w \in work : handleRegistryRequest(w))
  \/ Close \/ Reopen \/ dropAllPending \/ unregisterHub \/ HubReports
\* Timers fire and the registry's workers run; a hub need not answer.
Fairness == \A c \in Calls : WF_vars(dispatch(c)) /\ WF_vars(execute(c)) /\ WF_vars(\E f \in fwd : f.c = c /\ ForwardTimeout(f))
Spec == Init /\ [][Next]_vars
FairSpec == Spec /\ Fairness
-----------------------------------------------------------------------------
Codes == {"empty", "throw", "timed out", "closed", "busy", "NOT_FOUND", "INTERNAL", "TIMEOUT", "HUB"}
TypeOK ==
  /\ \A c \in Calls : call[c].ph = "done" <=> call[c].out # ""
  /\ \A c \in Calls : call[c].out \in Codes \union {"", "data", "defaults", "done", "notok"}
  /\ \A c \in Calls : reg[c].ph \in {"none", "sent", "queued", "forwarded", "answered", "dropped"}
  /\ \A f \in fwd : f.ep \in 1..hub.ep /\ f.id < hub.next
  /\ Cardinality(fwd) <= MaxForwards * MaxEpochs

\* An answer settles the call that it answers and no other.
AnswerIsOwn == \A c \in Calls : call[c].of # 0 => call[c].of = c

\* A forward that waits belongs to a call some worker waits for, one each, so
\* abandoned forwards cannot fill the backlog.
SlotsAreUsed == \A f \in fwd : reg[f.c].ph = "forwarded" /\ \A g \in fwd : g.c = f.c => g = f

\* A call that was refused before it was forwarded has changed nothing, also
\* later.
RefusedChangesNothing ==
  \A c \in Calls : (call[c].out \in {"NOT_FOUND", "busy"} /\ \A d \in Calls : call[d].op = call[c].op => d = c) => applied[c] = 0

\* What the page takes for done the hub has done.
DoneWasApplied == \A c \in Calls : call[c].out = "done" => applied[call[c].op] > 0

\* The hub does an operation at most once for each call for it that was not
\* refused, whatever answer made the caller repeat it: after NOT_FOUND and busy
\* a repetition cannot do it twice, and after TIMEOUT, INTERNAL or a lost
\* connection, where the hub may still be at it, no more than once per call.
Tries(o) == {c \in Calls : call[c].op = o /\ call[c].out \notin {"NOT_FOUND", "busy"}}
AppliedOncePerTry == \A o \in Calls : applied[o] <= Cardinality(Tries(o))

\* A request gets its worker whatever the hub does.
WorkersComeBack == \A c \in Calls : (reg[c].ph = "queued") ~> (reg[c].ph \in {"answered", "dropped"})

\* A request for a hub that is not connected is told so.
\* Not kept by the code: see the README.
OfflineIsUnavailable == \A c \in Calls : call[c].out # "NOT_FOUND"
=============================================================================
