--------------------------- MODULE SessionSearch ---------------------------
(***************************************************************************)
(* Search over the sessions of every project.  The page makes a search id, *)
(* starts a task with it at the hub of each project, polls the tasks until *)
(* all are done and cancels them.  The hub serves every request in its own *)
(* goroutine, so requests for one task can overtake each other, and so can *)
(* the answers.                                                            *)
(***************************************************************************)
EXTENDS Naturals, Sequences, FiniteSets, SequencesExt

CONSTANTS Projects,      \* visibleProjectItems
          Matches,       \* number of sessions of a project that match
          MaxTasks,      \* sessionSearchMaxTasks
          MaxSearches,   \* bound: submitted searches
          MaxTabs,       \* bound: switches between Chat and another tab
          Reorder,       \* whether requests and answers overtake each other
          Expiry         \* whether an idle task expires
SearchConstants == {Matches, MaxSearches, MaxTabs} \subseteq Nat /\ MaxTasks \in Nat \ {0} /\ {Reorder, Expiry} \subseteq BOOLEAN

VARIABLES tasks,    \* of every project: the tasks, searchId -> done, results
          wire,     \* of every project: requests that the hub has not served
          ans,      \* of every project: answers that have not arrived
          ui,       \* active, results, done, errors, open; the tab
          starts,   \* runs of startSessionSearch that are waiting
          batch,    \* query batches under way: projects still to answer
          loop,     \* the poll of the effect: its run, id and phase
          n         \* counters
vars == <<tasks, wire, ans, ui, starts, batch, loop, n>>

Ids == 1..MaxSearches
NoTask == [on |-> FALSE, done |-> FALSE, results |-> 0]
None == [p \in Projects |-> 0]
NoLoop == [run |-> 0, id |-> 0, ph |-> "off"]
Init ==
  /\ tasks = [p \in Projects |-> [i \in Ids |-> NoTask]] /\ wire = [p \in Projects |-> <<>>] /\ ans = [p \in Projects |-> <<>>]
  /\ ui = [active |-> 0, results |-> None, of |-> None, done |-> [p \in Projects |-> FALSE], error |-> [p \in Projects |-> FALSE], open |-> FALSE, tab |-> "chat"]
  /\ starts = {} /\ batch = {} /\ loop = NoLoop /\ n = [id |-> 0, tab |-> 0, run |-> 0]
-----------------------------------------------------------------------------
\* The effect that polls depends on the active search and the tab; when one
\* of them changes the poll it had is cancelled.
Effect(u, runs) == IF u.active # 0 /\ u.tab = "chat" THEN [run |-> runs, id |-> u.active, ph |-> "poll"] ELSE [NoLoop EXCEPT !.run = runs]
Render(u) ==
  /\ ui' = u
  /\ IF u.active # ui.active \/ u.tab # ui.tab
     THEN loop' = Effect(u, n.run + 1) /\ n' = [n EXCEPT !.run = @ + 1]
     ELSE UNCHANGED <<loop, n>>

SendAll(ps, req(_)) == wire' = [p \in Projects |-> IF p \in ps THEN Append(wire[p], req(p)) ELSE wire[p]]
Request(action, id, by) == [action |-> action, id |-> id, by |-> by]

clearSessionSearchState(u) ==
  [u EXCEPT !.active = 0, !.results = None, !.of = None, !.done = [p \in Projects |-> FALSE], !.error = [p \in Projects |-> FALSE]]

\* exitSessionSearch: the close button and an empty query.
exitSessionSearch ==
  /\ ui.active # 0
  /\ LET req(p) == Request("cancel", ui.active, 0) IN SendAll(Projects, req)
  /\ Render([clearSessionSearchState(ui) EXCEPT !.open = FALSE])
  /\ UNCHANGED <<tasks, ans, starts, batch>>

\* startSessionSearch, up to its first await.
Submit ==
  /\ Cardinality(starts) + n.id < MaxSearches
  /\ LET req(p) == Request("cancel", ui.active, 0) IN SendAll(IF ui.active = 0 THEN {} ELSE Projects, req)
  /\ starts' = starts \union {[ph |-> "cancel", id |-> ui.active, k |-> n.id + Cardinality(starts), left |-> IF ui.active = 0 THEN {} ELSE Projects]}
  /\ UNCHANGED <<tasks, ans, ui, batch, loop, n>>
\* ... when the previous search is cancelled everywhere.
startSessionSearch(s) ==
  LET id == n.id + 1 req(p) == Request("start", id, id) IN
  /\ s.ph = "cancel" /\ s.left = {} /\ SendAll(Projects, req)
  /\ starts' = (starts \ {s}) \union {[s EXCEPT !.ph = "start", !.id = id, !.left = Projects]}
  /\ ui' = [clearSessionSearchState(ui) EXCEPT !.active = id, !.open = TRUE]
  /\ loop' = Effect(ui', n.run + 1) /\ n' = [n EXCEPT !.id = id, !.run = @ + 1]
  /\ UNCHANGED <<tasks, ans, batch>>

\* querySessionSearch sends a query to every project that is not done.
querySessionSearch(id, run) ==
  LET ps == {p \in Projects : ~ ui.done[p]} req(p) == Request("query", id, run) IN
  /\ SendAll(ps, req) /\ batch' = batch \union (IF ps = {} THEN {} ELSE {[id |-> id, run |-> run, left |-> ps]})
\* ... and once more when every start was answered.
Started(s) ==
  /\ s.ph = "start" /\ s.left = {} /\ starts' = starts \ {s}
  /\ IF ui.active = s.id THEN querySessionSearch(s.id, 0) ELSE UNCHANGED <<wire, batch>>
  /\ UNCHANGED <<tasks, ans, ui, loop, n>>
Poll ==
  /\ loop.ph = "poll" /\ querySessionSearch(loop.id, loop.run) /\ loop' = [loop EXCEPT !.ph = "wait"] /\ UNCHANGED <<tasks, ans, ui, starts, n>>
\* The poll goes on, after a delay, unless every project is done.
AllDone == \A p \in Projects : ui.done[p]
PollAgain ==
  /\ loop.ph = "wait" /\ ~ \E b \in batch : b.run = loop.run
  /\ loop' = (IF AllDone THEN [loop EXCEPT !.ph = "off"] ELSE [loop EXCEPT !.ph = "poll"])
  /\ UNCHANGED <<tasks, wire, ans, ui, starts, batch, n>>
SwitchTab ==
  /\ n.tab < MaxTabs
  /\ LET u == [ui EXCEPT !.tab = IF @ = "chat" THEN "file" ELSE "chat"]
     IN  ui' = u /\ loop' = Effect(u, n.run + 1) /\ n' = [n EXCEPT !.run = @ + 1, !.tab = @ + 1]
  /\ UNCHANGED <<tasks, wire, ans, starts, batch>>
-----------------------------------------------------------------------------
\* The search manager of a hub.
Tasks(p) == {i \in Ids : tasks[p][i].on}
Set(p, i, t) == tasks' = [tasks EXCEPT ![p][i] = t]
Reply(p, k, ok, t) ==
  /\ wire' = [wire EXCEPT ![p] = RemoveAt(@, k)]
  /\ ans' = [ans EXCEPT ![p] = Append(@, [req |-> wire[p][k], ok |-> ok, done |-> t.done, results |-> t.results])]
\* start: replaces a task of the same id, makes room by dropping a finished
\* or an idle task, or is refused.
start(p, k) ==
  LET i == wire[p][k].id others == Tasks(p) \ {i} finished == {j \in others : tasks[p][j].done} IN
  /\ wire[p][k].action = "start"
  /\ \/ /\ Cardinality(others) < MaxTasks /\ Set(p, i, [NoTask EXCEPT !.on = TRUE]) /\ Reply(p, k, TRUE, NoTask)
     \/ /\ Cardinality(others) >= MaxTasks
        /\ \E j \in IF finished # {} THEN finished ELSE others :
              tasks' = [tasks EXCEPT ![p] = [@ EXCEPT ![j] = NoTask, ![i] = [NoTask EXCEPT !.on = TRUE]]]
        /\ Reply(p, k, TRUE, NoTask)
     \/ /\ Cardinality(others) >= MaxTasks /\ finished = {} /\ Reply(p, k, FALSE, NoTask) /\ UNCHANGED tasks
query(p, k) ==
  LET i == wire[p][k].id IN
  wire[p][k].action = "query" /\ Reply(p, k, tasks[p][i].on, tasks[p][i]) /\ UNCHANGED tasks
cancel(p, k) ==
  LET i == wire[p][k].id IN
  wire[p][k].action = "cancel" /\ Set(p, i, NoTask) /\ Reply(p, k, TRUE, [NoTask EXCEPT !.done = TRUE])
\* Requests are served in the order they were sent unless Reorder.
Served(p) == IF Reorder THEN DOMAIN wire[p] ELSE DOMAIN wire[p] \cap {1}
Handle(p) ==
  /\ \E k \in Served(p) : start(p, k) \/ query(p, k) \/ cancel(p, k)
  /\ UNCHANGED <<ui, starts, batch, loop, n>>
\* run: the task finds one session after the other and is done.
RunTask(p, i) ==
  /\ tasks[p][i].on /\ ~ tasks[p][i].done
  /\ Set(p, i, IF tasks[p][i].results < Matches THEN [tasks[p][i] EXCEPT !.results = @ + 1] ELSE [tasks[p][i] EXCEPT !.done = TRUE])
  /\ UNCHANGED <<wire, ans, ui, starts, batch, loop, n>>
\* cleanupLocked: only a task that nobody polls gets idle.
Expire(p, i) ==
  /\ Expiry /\ tasks[p][i].on /\ (ui.active # i \/ ui.tab # "chat") /\ Set(p, i, NoTask)
  /\ UNCHANGED <<wire, ans, ui, starts, batch, loop, n>>
-----------------------------------------------------------------------------
\* A section shows the sessions of the list that the search found.
Show(u, p, id, k, done, err) == [u EXCEPT !.results[p] = k, !.of[p] = id, !.done[p] = done, !.error[p] = err]
FailedAt(u, p) == [u EXCEPT !.done[p] = TRUE, !.error[p] = TRUE]
\* An answer that is not for the active search changes nothing.
Apply(u, p, a) ==
  CASE u.active # a.req.id -> u
    [] a.req.action = "query" -> (IF a.ok THEN Show(u, p, a.req.id, a.results, a.done, FALSE) ELSE FailedAt(u, p))
    [] a.req.action = "start" /\ ~ a.ok -> FailedAt(u, p)
    [] OTHER -> u
Waits(s, a) == (a.req.action = "cancel" /\ s.ph = "cancel" /\ s.id = a.req.id) \/ (a.req.action = "start" /\ s.ph = "start" /\ s.id = a.req.id)
Arrive(p) ==
  \E k \in IF Reorder THEN DOMAIN ans[p] ELSE DOMAIN ans[p] \cap {1} :
    LET a == ans[p][k] IN
    /\ ans' = [ans EXCEPT ![p] = RemoveAt(@, k)] /\ ui' = Apply(ui, p, a)
    /\ starts' = {IF Waits(s, a) THEN [s EXCEPT !.left = @ \ {p}] ELSE s : s \in starts}
    /\ batch' = {IF a.req.action = "query" /\ b.id = a.req.id /\ b.run = a.req.by THEN [b EXCEPT !.left = @ \ {p}] ELSE b : b \in batch} \ {[id |-> i, run |-> r, left |-> {}] : i \in Ids, r \in 0..n.run}
    /\ UNCHANGED <<tasks, wire, loop, n>>

Next ==
  \/ Submit \/ exitSessionSearch \/ SwitchTab \/ Poll \/ PollAgain
  \/ (\E s \in starts : startSessionSearch(s) \/ Started(s))
  \/ (\E p \in Projects : Handle(p) \/ Arrive(p) \/ (\E i \in Ids : RunTask(p, i) \/ Expire(p, i)))
Fairness ==
  /\ WF_vars(Poll) /\ WF_vars(PollAgain) /\ WF_vars((\E s \in starts : startSessionSearch(s) \/ Started(s)))
  /\ \A p \in Projects : WF_vars(Handle(p)) /\ WF_vars(Arrive(p)) /\ \A i \in Ids : WF_vars(RunTask(p, i))
Spec == Init /\ [][Next]_vars
FairSpec == Spec /\ Fairness
-----------------------------------------------------------------------------
Quiet == starts = {} /\ batch = {} /\ loop.ph = "off" /\ \A p \in Projects : wire[p] = <<>> /\ ans[p] = <<>>
TypeOK ==
  /\ ui.active \in 0..n.id /\ loop.run <= n.run /\ loop.id \in 0..n.id
  /\ \A p \in Projects : ui.results[p] \in 0..Matches /\ (ui.active = 0 => ui.results[p] = 0 /\ ~ ui.done[p])
  /\ \A b \in batch : b.left # {} /\ b.id \in 1..n.id

\* The sessions shown were found by the search that is active.
ShownIsActive == \A p \in Projects : ui.of[p] # 0 => ui.of[p] = ui.active

\* A project that is done without an error shows everything its task found.
DoneShowsAll == \A p \in Projects : ui.active # 0 /\ ui.done[p] /\ ~ ui.error[p] => ui.results[p] = Matches

\* Every project can be searched when no task expires and there is room.
SearchesSucceed == Quiet => \A p \in Projects : ~ ui.error[p]

\* A search that stays on the Chat tab gets to its end.
SearchFinishes == \A i \in Ids : (ui.active = i) ~> (ui.active # i \/ ui.tab # "chat" \/ AllDone)

\* When nothing is under way only the active search has tasks.
\* Not kept by the code: see the README.
NoOrphanTask == Quiet /\ ui.tab = "chat" => \A p \in Projects : Tasks(p) \subseteq {ui.active}

\* Closing the search restores the list: only a later submit opens it again.
\* Not kept by the code: see the README.
ClosedStaysClosed == [][ui.active = 0 /\ ~ ui.open /\ ui'.active # 0 => \A s \in starts : s.ph = "cancel" => s.id = 0]_vars
=============================================================================
