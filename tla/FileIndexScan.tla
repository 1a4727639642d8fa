---------------------------- MODULE FileIndexScan ----------------------------
(***************************************************************************)
(* The file index section of the update page: scans of one project and of  *)
(* all projects of a hub, the refresh of the status with its timer, and    *)
(* the hub, which accepts a rebuild and scans in a goroutine of its own.   *)
(***************************************************************************)
EXTENDS Naturals, FiniteSets

CONSTANTS Projects,     \* projects
          Hubs,         \* hubs
          HubOf,        \* the hub of every project
          Refreshes,    \* identities of refreshProjectFileIndexes calls
          ScanAlls,     \* identities (strings) of handleScanAllProjectIndexes calls
          Concurrency,  \* PROJECT_INDEX_SCAN_CONCURRENCY
          Ops,          \* what the user does: "scan", "all", "view"
          StatusFails,  \* whether a status call may fail
          RebuildFails  \* whether a rebuild call may fail
ScanConstants ==
  /\ HubOf \in [Projects -> Hubs] /\ Concurrency \in Nat \ {0} /\ Ops \subseteq {"scan", "all", "view"} /\ {StatusFails, RebuildFails} \subseteq BOOLEAN

VARIABLES running,  \* projects that the hubs are scanning
          view,     \* whether the update page is open
          shown,    \* projects whose last status says that they are scanned
          pend,     \* projectIndexScanPendingByProjectId
          allPend,  \* projectIndexScanAllPendingByHubId
          timer,    \* hubs that the poll timer will ask for; none without a timer
          refresh,  \* of every refresh: status calls, hubs that scan, who waits
          scanAll,  \* of every scan of all: hub, projects left, workers
          calls     \* rebuild calls
vars == <<running, view, shown, pend, allPend, timer, refresh, scanAll, calls>>

NoHub == ""  \* also: no scan of all
Of(h) == {p \in Projects : HubOf[p] = h}
Idle == [on |-> FALSE, wait |-> {}, run |-> {}, then |-> NoHub, by |-> NoHub]
NoScan == [on |-> FALSE, hub |-> NoHub, left |-> {}, live |-> 0, failed |-> FALSE, skipped |-> {}]
Init ==
  /\ running = {} /\ view = FALSE /\ shown = {} /\ pend = {} /\ allPend = {} /\ timer = {}
  /\ refresh = [r \in Refreshes |-> Idle] /\ scanAll = [k \in ScanAlls |-> NoScan] /\ calls = {}
-----------------------------------------------------------------------------
\* refreshProjectFileIndexes: the timer goes, every hub is asked; `then' is
\* the hub for which the caller schedules a poll afterwards, `by' the scan of
\* all whose flags it clears then.
StartRefresh(r, hubs, then, by) ==
  /\ ~ refresh[r].on /\ timer' = {}
  /\ refresh' = [refresh EXCEPT ![r] = [on |-> TRUE, wait |-> {[hub |-> h, ph |-> "sent", val |-> {}] : h \in hubs}, run |-> {}, then |-> then, by |-> by]]
scheduleProjectIndexPoll(t, hubs) == IF t # {} THEN t ELSE hubs
ServeStatus(r, q) ==
  /\ refresh[r].on /\ q \in refresh[r].wait /\ q.ph = "sent"
  /\ refresh' = [refresh EXCEPT ![r].wait = (@ \ {q}) \union {[q EXCEPT !.ph = "ok", !.val = running \intersect Of(q.hub)]}]
  /\ UNCHANGED <<running, view, shown, pend, allPend, timer, scanAll, calls>>
FailStatus(r, q) ==
  /\ StatusFails /\ refresh[r].on /\ q \in refresh[r].wait /\ q.ph = "sent"
  /\ refresh' = [refresh EXCEPT ![r].wait = @ \ {q}] /\ UNCHANGED <<running, view, shown, pend, allPend, timer, scanAll, calls>>
ApplyStatus(r, q) ==
  /\ refresh[r].on /\ q \in refresh[r].wait /\ q.ph = "ok"
  /\ shown' = (shown \ Of(q.hub)) \union q.val /\ pend' = pend \ (Of(q.hub) \ q.val)
  /\ refresh' = [refresh EXCEPT ![r].wait = @ \ {q}, ![r].run = @ \union (IF q.val # {} THEN {q.hub} ELSE {})]
  /\ UNCHANGED <<running, view, allPend, timer, scanAll, calls>>
\* All are answered: hubs that scan are polled, and the caller goes on.
EndRefresh(r) ==
  /\ refresh[r].on /\ refresh[r].wait = {} /\ refresh' = [refresh EXCEPT ![r] = Idle]
  /\ timer' = scheduleProjectIndexPoll(scheduleProjectIndexPoll(timer, refresh[r].run), {refresh[r].then} \ {NoHub})
  /\ IF refresh[r].by = NoHub THEN UNCHANGED <<pend, allPend>>
     ELSE pend' = pend \ Of(refresh[r].then) /\ allPend' = allPend \ {refresh[r].then}
  /\ UNCHANGED <<running, view, shown, scanAll, calls>>
Poll(r) == timer # {} /\ StartRefresh(r, timer, NoHub, NoHub) /\ UNCHANGED <<running, view, shown, pend, allPend, scanAll, calls>>
\* The page opens: everything is asked for.  It closes: the timer goes.
OpenView(r) == "view" \in Ops /\ ~ view /\ view' = TRUE /\ StartRefresh(r, Hubs, NoHub, NoHub) /\ UNCHANGED <<running, shown, pend, allPend, scanAll, calls>>
CloseView == "view" \in Ops /\ view /\ view' = FALSE /\ timer' = {} /\ UNCHANGED <<running, shown, pend, allPend, refresh, scanAll, calls>>
-----------------------------------------------------------------------------
C(p, by) == [p |-> p, by |-> by, ph |-> "sent"]
\* handleScanProjectIndex; the button is disabled while a scan is shown.
handleScanProjectIndex(p) ==
  /\ "scan" \in Ops /\ view /\ p \notin pend \union shown /\ pend' = pend \union {p} /\ calls' = calls \union {C(p, NoHub)}
  /\ UNCHANGED <<running, view, shown, allPend, timer, refresh, scanAll>>
\* The hub marks the project as running and answers at once.
startRebuild(c) ==
  /\ c \in calls /\ c.ph = "sent" /\ running' = running \union {c.p} /\ calls' = (calls \ {c}) \union {[c EXCEPT !.ph = "running"]}
  /\ UNCHANGED <<view, shown, pend, allPend, timer, refresh, scanAll>>
RebuildFailure(c) ==
  /\ RebuildFails /\ c \in calls /\ c.ph = "sent" /\ calls' = (calls \ {c}) \union {[c EXCEPT !.ph = "failed"]}
  /\ UNCHANGED <<running, view, shown, pend, allPend, timer, refresh, scanAll>>
ScanEnds(p) == p \in running /\ running' = running \ {p} /\ UNCHANGED <<view, shown, pend, allPend, timer, refresh, scanAll, calls>>
\* The scan was accepted: a silent refresh, then a poll of the hub; the flag
\* stays until a status clears it.
ScanAccepted(c, r) ==
  /\ c \in calls /\ c.by = NoHub /\ c.ph = "running" /\ calls' = calls \ {c} /\ StartRefresh(r, {HubOf[c.p]}, HubOf[c.p], NoHub)
  /\ UNCHANGED <<running, view, shown, pend, allPend, scanAll>>
ScanFailed(c) ==
  /\ c \in calls /\ c.by = NoHub /\ c.ph = "failed" /\ calls' = calls \ {c} /\ pend' = pend \ {c.p}
  /\ UNCHANGED <<running, view, shown, allPend, timer, refresh, scanAll>>
-----------------------------------------------------------------------------
\* handleScanAllProjectIndexes: workers that take the next project each.
Workers(k) == {c \in calls : c.by = k}
handleScanAllProjectIndexes(k, h) ==
  /\ "all" \in Ops /\ view /\ h \notin allPend /\ Of(h) # {} /\ scanAll[k].live = 0 /\ ~ scanAll[k].on
  /\ allPend' = allPend \union {h} /\ pend' = pend \union Of(h)
  /\ \E first \in {q \in SUBSET Of(h) : Cardinality(q) = (IF Cardinality(Of(h)) < Concurrency THEN Cardinality(Of(h)) ELSE Concurrency)} :
       /\ calls' = calls \union {C(p, k) : p \in first}
       /\ scanAll' = [scanAll EXCEPT ![k] = [NoScan EXCEPT !.on = TRUE, !.hub = h, !.left = Of(h) \ first, !.live = Cardinality(first)]]
  /\ UNCHANGED <<running, view, shown, timer, refresh>>
\* A worker has its answer; it takes the next project or ends.
WorkerAnswer(c) ==
  /\ c \in calls /\ c.by \in ScanAlls /\ c.ph = "running" /\ pend' = pend \ {c.p}
  /\ IF scanAll[c.by].left = {}
     THEN calls' = calls \ {c} /\ scanAll' = [scanAll EXCEPT ![c.by].live = @ - 1]
     ELSE \E p \in scanAll[c.by].left :
            calls' = (calls \ {c}) \union {C(p, c.by)} /\ scanAll' = [scanAll EXCEPT ![c.by].left = @ \ {p}]
  /\ UNCHANGED <<running, view, shown, allPend, timer, refresh>>
\* A call that fails ends its worker and, through Promise.all, the handler:
\* all flags go, while other workers carry on.
WorkerFails(c) ==
  LET k == c.by IN
  /\ c \in calls /\ k \in ScanAlls /\ c.ph = "failed" /\ calls' = calls \ {c}
  /\ scanAll' = [scanAll EXCEPT ![k].live = @ - 1, ![k].failed = TRUE, ![k].on = FALSE, ![k].skipped = IF scanAll[k].live = 1 THEN scanAll[k].left ELSE @]
  /\ IF scanAll[k].on THEN allPend' = allPend \ {scanAll[k].hub} /\ pend' = pend \ Of(scanAll[k].hub)
     ELSE pend' = pend \ {c.p} /\ UNCHANGED allPend
  /\ UNCHANGED <<running, view, shown, timer, refresh>>
\* All workers are done: a silent refresh, a poll, and the flags go.
ScanAllDone(k, r) ==
  /\ scanAll[k].on /\ scanAll[k].live = 0 /\ scanAll' = [scanAll EXCEPT ![k].on = FALSE]
  /\ StartRefresh(r, {scanAll[k].hub}, scanAll[k].hub, k) /\ UNCHANGED <<running, view, shown, pend, allPend, calls>>

Next ==
  \/ \E r \in Refreshes :
       \/ \E q \in refresh[r].wait : ServeStatus(r, q) \/ FailStatus(r, q) \/ ApplyStatus(r, q)
       \/ EndRefresh(r) \/ Poll(r) \/ OpenView(r) \/ (\E c \in calls : ScanAccepted(c, r)) \/ (\E k \in ScanAlls : ScanAllDone(k, r))
  \/ CloseView
  \/ \E p \in Projects : handleScanProjectIndex(p) \/ ScanEnds(p)
  \/ \E c \in calls : startRebuild(c) \/ RebuildFailure(c) \/ ScanFailed(c) \/ WorkerAnswer(c) \/ WorkerFails(c)
  \/ \E k \in ScanAlls, h \in Hubs : handleScanAllProjectIndexes(k, h)
Spec == Init /\ [][Next]_vars
\* Calls are answered, timers fire and scans end.
RefreshStep(r) == (\E q \in refresh[r].wait : ServeStatus(r, q) \/ FailStatus(r, q) \/ ApplyStatus(r, q)) \/ EndRefresh(r)
CallStep(c) == startRebuild(c) \/ RebuildFailure(c) \/ ScanFailed(c) \/ WorkerAnswer(c) \/ WorkerFails(c) \/ (\E r \in Refreshes : ScanAccepted(c, r))
Fairness ==
  /\ (\A r \in Refreshes : WF_vars(RefreshStep(r))) /\ WF_vars(\E r \in Refreshes : Poll(r)) /\ (\A p \in Projects : WF_vars(ScanEnds(p)))
  /\ (\A p \in Projects : \A by \in {NoHub} \union ScanAlls : SF_vars(\E c \in calls : c.p = p /\ c.by = by /\ CallStep(c)))
  /\ \A k \in ScanAlls : WF_vars(\E r \in Refreshes : ScanAllDone(k, r))
FairSpec == Spec /\ Fairness
-----------------------------------------------------------------------------
TypeOK ==
  /\ {running, shown, pend} \subseteq SUBSET Projects /\ {allPend, timer} \subseteq SUBSET Hubs /\ view \in BOOLEAN
  /\ \A c \in calls : c.p \in Projects /\ c.by \in ScanAlls \union {NoHub} /\ c.ph \in {"sent", "running", "failed"}
  /\ \A k \in ScanAlls : scanAll[k].live = Cardinality(Workers(k)) /\ scanAll[k].live <= Concurrency

\* What a scan of all leaves undone is left by a failure of every worker;
\* otherwise each project of the hub has been asked for.
AllAreAsked == \A k \in ScanAlls : scanAll[k].live = 0 => scanAll[k].left = scanAll[k].skipped

\* A project is not shown as scanned forever when its scan is over, as long
\* as the page is open.
ScanIsSeenToEnd == \A p \in Projects : (view /\ p \in pend \union shown /\ p \notin running) ~> (p \notin pend \union shown \/ p \in running \/ ~ view)

\* With Scan All alone, no more projects are scanned at a time than the
\* page's limit.
\* Not kept by the code: see the README.
ScanAllLimit == Cardinality(running) <= Concurrency
=============================================================================
