----------------------------- MODULE ChatIndex -----------------------------
(***************************************************************************)
(* The client's list of projects and sessions.  It is filled by project    *)
(* and session lists, at most one of each kind at a time, with a second    *)
(* request remembered as dirty, by the lists that the wide layout asks     *)
(* for on its own, and patched by events and by the answer of a read mark. *)
(* An answer is made at the hub at one time and arrives                    *)
(* at another; events arrive in order, and are lost with the connection.   *)
(* A summary is the number of the change that produced it, 0 for none.     *)
(***************************************************************************)
EXTENDS Naturals, Sequences, FiniteSets

CONSTANTS Projects, Sessions,
          First,      \* projects the registry has from the start
          Wide,       \* the wide layout
          Late,       \* whether an answer may be older than its arrival
          MaxChanges, \* bound on changes at the hub
          MaxSignals, \* bound on refreshes by the user and on read marks
          MaxFaults,  \* bound on failed calls
          MaxDrops    \* bound on lost connections
ChatIndexConstants == {MaxChanges, MaxSignals, MaxFaults, MaxDrops} \subseteq Nat /\ {Late, Wide} \subseteq BOOLEAN /\ First \subseteq Projects

VARIABLES hub,       \* summaries at the hub
          registry,  \* projects the registry has
          events,    \* on their way to the client
          connected, projects, list, errors, \* client: the index
          full,      \* the full refresh: at, the lists it waits for, dirty
          refresh,   \* the refresh of each project: inFlight, dirty, the answer
          wide,      \* the list of each project that the wide layout asked for
          mark,      \* a session.markRead under way
          changes, signals, faults, drops
index == <<projects, list, errors>>
counters == <<changes, signals, faults, drops>>
vars == <<hub, registry, events, connected, index, full, refresh, wide, mark, counters>>

NoAnswer == [s \in Sessions |-> 0]
Quiet == [at |-> "idle", rest |-> {}, dirty |-> FALSE]
Still == [inFlight |-> FALSE, dirty |-> FALSE, made |-> FALSE, answer |-> NoAnswer]
NoMark == [p |-> "", s |-> "", v |-> 0]
Init ==
  /\ hub = [p \in Projects |-> NoAnswer] /\ registry = First /\ events = <<>> /\ connected = FALSE
  /\ projects = First /\ list = [p \in Projects |-> NoAnswer] /\ errors = {} /\ full = Quiet /\ refresh = [p \in Projects |-> Still] /\ wide = [p \in Projects |-> Still] /\ mark = NoMark
  /\ changes = 0 /\ signals = 0 /\ faults = 0 /\ drops = 0
-----------------------------------------------------------------------------
\* Requests and ends of a refresh, for one project.
requestChatIndexProjectRefresh(r) == IF r.inFlight THEN [r EXCEPT !.dirty = TRUE] ELSE [Still EXCEPT !.inFlight = TRUE]
LeavesDirty(r) == [Still EXCEPT !.dirty = r.dirty]
finishChatIndexProjectRefresh(r) == [Still EXCEPT !.inFlight = r.dirty]
\* The same for the whole index.
requestChatIndexFullRefresh(f) == IF f.at # "idle" THEN [f EXCEPT !.dirty = TRUE] ELSE [Quiet EXCEPT !.at = "projects"]
finishChatIndexFullRefresh(f, rest) ==
  IF rest # {} THEN [f EXCEPT !.rest = rest, !.at = "sessions"] ELSE [Quiet EXCEPT !.at = IF f.dirty THEN "projects" ELSE "idle"]
refreshChatIndex == full' = requestChatIndexFullRefresh(full) /\ UNCHANGED <<index, refresh>>
refreshChatProjectSessions(p) == refresh' = [refresh EXCEPT ![p] = requestChatIndexProjectRefresh(@)] /\ UNCHANGED <<index, full>>
\* The wide layout lists every project when the connection or the set of
\* projects changes, and then takes no answer of the calls before.
WideLists(c, ps) ==
  wide' = IF c = connected /\ ps = projects THEN wide ELSE [p \in Projects |-> [Still EXCEPT !.inFlight = Wide /\ c /\ p \in ps]]
\* The refresh button.
UserRefresh == connected /\ signals < MaxSignals /\ signals' = signals + 1 /\ refreshChatIndex /\ UNCHANGED <<hub, registry, events, connected, wide, mark, changes, faults, drops>>

\* project.list, then session.list for each project whose list is not under way.
ProjectsArrive ==
  /\ full.at = "projects" /\ connected /\ projects' = registry /\ UNCHANGED <<list, errors>>
  /\ refresh' = [p \in Projects |-> IF p \in registry THEN requestChatIndexProjectRefresh(refresh[p]) ELSE refresh[p]]
  /\ full' = finishChatIndexFullRefresh(full, {p \in registry : ~ refresh[p].inFlight}) /\ WideLists(connected, registry)
  /\ UNCHANGED <<hub, registry, events, connected, mark, counters>>
\* The loop ends with the error.
ProjectsFail ==
  /\ full.at = "projects" /\ connected /\ faults < MaxFaults /\ faults' = faults + 1 /\ full' = [Quiet EXCEPT !.dirty = full.dirty]
  /\ UNCHANGED <<hub, registry, events, connected, index, refresh, wide, mark, changes, signals, drops>>
\* The hub makes its answer.
HubLists(p) ==
  /\ Late /\ refresh[p].inFlight /\ ~ refresh[p].made /\ connected /\ refresh' = [refresh EXCEPT ![p].made = TRUE, ![p].answer = hub[p]]
  /\ UNCHANGED <<hub, registry, events, connected, index, full, wide, mark, counters>>
\* The end of a list: go on when dirty, else the full refresh has one less to wait for.
ListEnds(p) ==
  /\ refresh' = [refresh EXCEPT ![p] = finishChatIndexProjectRefresh(@)]
  /\ full' = IF full.at = "sessions" /\ ~ refresh[p].dirty THEN finishChatIndexFullRefresh(full, full.rest \ {p}) ELSE full
\* rememberProjectSessionList: what the answer has replaces what was there.
ListArrives(p) ==
  /\ refresh[p].inFlight /\ (Late => refresh[p].made) /\ connected
  /\ list' = [list EXCEPT ![p] = IF Late THEN refresh[p].answer ELSE hub[p]] /\ errors' = errors \ {p} /\ ListEnds(p)
  /\ UNCHANGED <<hub, registry, events, connected, projects, wide, mark, counters>>
ListFails(p) ==
  /\ refresh[p].inFlight /\ connected /\ faults < MaxFaults /\ faults' = faults + 1 /\ errors' = errors \cup {p} /\ ListEnds(p)
  /\ UNCHANGED <<hub, registry, events, connected, projects, list, wide, mark, changes, signals, drops>>
\* The same two steps for a list of the wide layout; a failure is ignored.
HubListsWide(p) ==
  /\ Late /\ wide[p].inFlight /\ ~ wide[p].made /\ wide' = [wide EXCEPT ![p].made = TRUE, ![p].answer = hub[p]]
  /\ UNCHANGED <<hub, registry, events, connected, index, full, refresh, mark, counters>>
WideArrives(p) ==
  /\ wide[p].inFlight /\ (Late => wide[p].made) /\ wide' = [wide EXCEPT ![p] = Still] /\ list' = [list EXCEPT ![p] = IF Late THEN wide[p].answer ELSE hub[p]]
  /\ UNCHANGED <<hub, registry, events, connected, projects, errors, full, refresh, mark, counters>>
WideFails(p) ==
  /\ wide[p].inFlight /\ faults < MaxFaults /\ faults' = faults + 1 /\ wide' = [wide EXCEPT ![p] = Still]
  /\ UNCHANGED <<hub, registry, events, connected, index, full, refresh, mark, changes, signals, drops>>
-----------------------------------------------------------------------------
\* The hub: a project registers, with the sessions it has, a session changes with a session.updated, and
\* a turn is published with a session.message.
Publish(e) == events' = IF connected THEN Append(events, e) ELSE events
ProjectAppears(p) ==
  /\ p \notin registry /\ registry' = registry \cup {p} /\ Publish([kind |-> "report", p |-> p, s |-> "", v |-> 0])
  /\ changes < MaxChanges /\ changes' = changes + 1 /\ hub' = [hub EXCEPT ![p] = [s \in Sessions |-> changes + 1]]
  /\ UNCHANGED <<connected, index, full, refresh, wide, mark, signals, faults, drops>>
SessionChanges(p, s) ==
  /\ p \in registry /\ changes < MaxChanges /\ changes' = changes + 1 /\ hub' = [hub EXCEPT ![p][s] = changes + 1]
  /\ Publish([kind |-> "updated", p |-> p, s |-> s, v |-> changes + 1]) /\ UNCHANGED <<registry, connected, index, full, refresh, wide, mark, signals, faults, drops>>
TurnPublished(p, s) ==
  /\ hub[p][s] > 0 /\ signals < MaxSignals /\ signals' = signals + 1 /\ Publish([kind |-> "message", p |-> p, s |-> s, v |-> 0])
  /\ UNCHANGED <<hub, registry, connected, index, full, refresh, wide, mark, changes, faults, drops>>
\* What an event asks for.
classifyChatSessionEvent(e) ==
  IF e.kind = "report" THEN "report"
  ELSE IF e.p \notin projects THEN "refreshAll"
  ELSE IF e.kind = "updated" THEN "patch"
  ELSE IF list[e.p][e.s] = 0 THEN "refreshProject" ELSE "ignore"
mergeChatSession(e) == list' = [list EXCEPT ![e.p][e.s] = e.v] /\ UNCHANGED <<projects, errors, full, refresh>>
\* registry.projectReport puts a project into the index, without its sessions.
mergeReportedProject(e) == projects' = projects \cup {e.p} /\ UNCHANGED <<list, errors, full, refresh>>
OnEvent ==
  /\ events # <<>> /\ events' = Tail(events)
  /\ LET e == Head(events) k == classifyChatSessionEvent(e) IN
     \/ k = "report" /\ mergeReportedProject(e)
     \/ k = "refreshAll" /\ refreshChatIndex
     \/ k = "patch" /\ mergeChatSession(e)
     \/ k = "refreshProject" /\ refreshChatProjectSessions(e.p)
     \/ k = "ignore" /\ UNCHANGED <<index, full, refresh>>
  /\ WideLists(connected, projects') /\ UNCHANGED <<hub, registry, connected, mark, counters>>
\* markChatSessionRead: the answer has the summary of the time it was made.
markChatSessionRead(p, s) ==
  /\ list[p][s] > 0 /\ connected /\ mark = NoMark /\ signals < MaxSignals /\ signals' = signals + 1 /\ mark' = [p |-> p, s |-> s, v |-> hub[p][s]]
  /\ UNCHANGED <<hub, registry, events, connected, index, full, refresh, wide, changes, faults, drops>>
MarkAnswer ==
  /\ mark # NoMark /\ mark' = NoMark /\ mergeChatSession(IF Late THEN mark ELSE [mark EXCEPT !.v = hub[mark.p][mark.s]])
  /\ UNCHANGED <<hub, registry, events, connected, wide, counters>>
\* A lost connection fails every call under way; the connect that follows
\* refreshes the whole index.
Disconnect ==
  /\ connected /\ drops < MaxDrops /\ drops' = drops + 1 /\ connected' = FALSE /\ events' = <<>>
  /\ full' = [Quiet EXCEPT !.dirty = full.at = "projects" /\ full.dirty]
  /\ refresh' = [p \in Projects |-> Still] /\ errors' = errors \cup {p \in Projects : refresh[p].inFlight} /\ mark' = NoMark /\ WideLists(FALSE, projects)
  /\ UNCHANGED <<hub, registry, projects, list, changes, signals, faults>>
Reconnect == ~ connected /\ connected' = TRUE /\ refreshChatIndex /\ WideLists(TRUE, projects) /\ UNCHANGED <<hub, registry, events, mark, counters>>
-----------------------------------------------------------------------------
Answers(p) == HubLists(p) \/ ListArrives(p) \/ ListFails(p)
WideAnswers(p) == HubListsWide(p) \/ WideArrives(p) \/ WideFails(p)
Next ==
  \/ UserRefresh \/ ProjectsArrive \/ ProjectsFail \/ OnEvent \/ MarkAnswer \/ Disconnect \/ Reconnect
  \/ \E p \in Projects : Answers(p) \/ WideAnswers(p) \/ ProjectAppears(p) \/ (\E s \in Sessions : SessionChanges(p, s) \/ TurnPublished(p, s) \/ markChatSessionRead(p, s))
Spec == Init /\ [][Next]_vars
\* Calls are answered, events handled and the connection made again.
Fairness ==
  /\ WF_vars((ProjectsArrive \/ ProjectsFail)) /\ WF_vars(OnEvent) /\ WF_vars(MarkAnswer) /\ WF_vars(Reconnect)
  /\ \A p \in Projects : WF_vars(Answers(p)) /\ WF_vars(WideAnswers(p))
FairSpec == Spec /\ Fairness
-----------------------------------------------------------------------------
TypeOK ==
  /\ projects \subseteq registry /\ errors \subseteq Projects /\ full.rest \subseteq Projects /\ full.at \in {"idle", "projects", "sessions"}
  /\ \A p \in Projects : \A s \in Sessions : list[p][s] <= hub[p][s]
  /\ ~ connected => (events = <<>> /\ mark = NoMark /\ \A p \in Projects : ~ refresh[p].inFlight)
\* The full refresh waits for lists that are under way, and for one at least.
WaitsForRunning == full.at = "sessions" => full.rest # {} /\ \A p \in full.rest : refresh[p].inFlight
\* A refresh of a project that was asked for while one ran is still to come.
FollowUpRuns == \A p \in Projects : refresh[p].dirty => refresh[p].inFlight
\* A failed refresh takes no session out of the list.
KeepsOldStep ==
  \A p \in Projects : \A s \in Sessions : list[p][s] > 0 => list'[p][s] > 0
\* The index has what the hub has.
Current == \A p \in registry : p \in projects /\ list[p] = hub[p]
\* When the hub is quiet and calls do not fail, the index gets what the hub has.
Converges == <>[]Current
\* A full refresh that was asked for while one ran is still to come.
\* Not kept by the code: see the README.
FullFollowUpRuns == full.dirty => full.at # "idle"
\* No two session lists of one project are under way.
\* Not kept by the code: see the README.
OneListPerProject == \A p \in Projects : ~ (refresh[p].inFlight /\ wide[p].inFlight)
=============================================================================
