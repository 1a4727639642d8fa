---------------------------- MODULE AgentPackages ----------------------------
(***************************************************************************)
(* The npm packages of the update page: scans of all hubs, the timer that  *)
(* scans again while an operation runs, installs and removals, and the     *)
(* hubs, which run one npm operation at a time.                            *)
(***************************************************************************)
EXTENDS Naturals, FiniteSets

CONSTANTS Hubs,       \* hubs that the registry lists
          Refreshes,  \* identities of refreshAgentPackages calls
          MaxTimers,  \* bound on timers that are set at a time
          Ops,        \* what happens: "act", "all", "view", "expire", "refresh"
          ScanFails,  \* whether a scan may fail or run into its timeout
          ListFails   \* whether the list of the hubs may fail
PackageConstants == MaxTimers \in Nat \ {0} /\ Ops \subseteq {"act", "all", "view", "expire", "refresh"} /\ {ScanFails, ListFails} \subseteq BOOLEAN

VARIABLES op,       \* the operation of every hub: "none", "latest", "npm", "done"
          expired,  \* hubs whose latest versions are not cached
          view,     \* whether the update page is open
          cards,    \* agentPackageHubs: of every hub whether it is there, loading, error, operation
          loading,  \* agentPackagesLoading
          listErr,  \* agentPackagesError
          timer,    \* whether agentPackageScanPollTimerRef holds a timer
          orphans,  \* timers that the reference does not hold any more
          refresh,  \* of every refresh: phase, silent, scans, hubs that run, what follows
          confirm,  \* the confirmation: kind and hub, or none
          pending,  \* agentPackageActionPendingKey / agentPackageHubUpdatePendingId
          action    \* the action call that is not answered
vars == <<op, expired, view, cards, loading, listErr, timer, orphans, refresh, confirm, pending, action>>

None == [kind |-> "none", hub |-> ""]
NoCard == [there |-> FALSE, loading |-> FALSE, err |-> FALSE, op |-> "none"]
Off == [ph |-> "off", silent |-> FALSE, wait |-> {}, run |-> {}, then |-> None]
Running(o) == o \in {"latest", "npm"}
Init ==
  /\ op = [h \in Hubs |-> "none"] /\ expired = Hubs /\ view = FALSE /\ cards = [h \in Hubs |-> NoCard] /\ loading = FALSE /\ listErr = FALSE
  /\ timer = FALSE /\ orphans = 0 /\ refresh = [r \in Refreshes |-> Off] /\ confirm = None /\ pending = None /\ action = [c |-> None, ph |-> "none"]
Busy == {r \in Refreshes : refresh[r].ph # "off"}
-----------------------------------------------------------------------------
\* The hub: an operation is accepted when none runs, and ends by itself.
acceptOperation(h, o) == ~ Running(op[h]) /\ op' = [op EXCEPT ![h] = o]
OperationEnds(h) ==
  /\ Running(op[h]) /\ op' = [op EXCEPT ![h] = "done"] /\ expired' = (IF op[h] = "latest" THEN expired \ {h} ELSE expired)
  /\ UNCHANGED <<view, cards, loading, listErr, timer, orphans, refresh, confirm, pending, action>>
CacheExpires(h) == "expire" \in Ops /\ h \notin expired /\ expired' = expired \union {h} /\ UNCHANGED <<op, view, cards, loading, listErr, timer, orphans, refresh, confirm, pending, action>>
\* scan: a missing cache starts an operation when none runs.
ServeScan(r, q) ==
  /\ refresh[r].ph = "scan" /\ q \in refresh[r].wait /\ q.ph = "sent"
  /\ \E o \in {IF q.hub \in expired /\ ~ Running(op[q.hub]) THEN "latest" ELSE op[q.hub]} :
       op' = [op EXCEPT ![q.hub] = o] /\ refresh' = [refresh EXCEPT ![r].wait = (@ \ {q}) \union {[q EXCEPT !.ph = "ok", !.op = o]}]
  /\ UNCHANGED <<expired, view, cards, loading, listErr, timer, orphans, confirm, pending, action>>
-----------------------------------------------------------------------------
\* refreshAgentPackages: the timer goes, the hubs are listed.
Started(r, silent, then) == refresh' = [refresh EXCEPT ![r] = [Off EXCEPT !.ph = "list", !.silent = silent, !.then = then]]
StartLoading(silent) == loading' = (loading \/ ~ silent) /\ listErr' = (listErr /\ silent)
refreshAgentPackages(r, silent, then) == refresh[r].ph = "off" /\ timer' = FALSE /\ StartLoading(silent) /\ Started(r, silent, then)
Listed(r) ==
  /\ refresh[r].ph = "list"
  /\ refresh' = [refresh EXCEPT ![r].ph = "scan", ![r].wait = {[hub |-> h, ph |-> "sent", op |-> "none"] : h \in Hubs}]
  /\ cards' = [h \in Hubs |-> [there |-> TRUE, loading |-> ~ refresh[r].silent, err |-> FALSE, op |-> cards[h].op]]
  /\ UNCHANGED <<op, expired, view, loading, listErr, timer, orphans, confirm, pending, action>>
\* What follows a refresh: the caller's flag goes.
Ended(r) == refresh' = [refresh EXCEPT ![r] = Off] /\ pending' = IF refresh[r].then = None THEN pending ELSE None
ListFailed(r) ==
  /\ ListFails /\ refresh[r].ph = "list" /\ listErr' = TRUE /\ loading' = (loading /\ refresh[r].silent) /\ Ended(r)
  /\ UNCHANGED <<op, expired, view, cards, timer, orphans, confirm, action>>
ApplyScan(r, q) ==
  /\ refresh[r].ph = "scan" /\ q \in refresh[r].wait /\ q.ph = "ok"
  /\ cards' = [cards EXCEPT ![q.hub] = [there |-> TRUE, loading |-> FALSE, err |-> FALSE, op |-> IF q.op = "none" THEN @.op ELSE q.op]]
  /\ refresh' = [refresh EXCEPT ![r].wait = @ \ {q}, ![r].run = @ \union (IF Running(q.op) THEN {q.hub} ELSE {})]
  /\ UNCHANGED <<op, expired, view, loading, listErr, timer, orphans, confirm, pending, action>>
\* The call fails or takes longer than AGENT_PACKAGE_SCAN_TIMEOUT_MS; a late
\* answer is not seen.
FailScan(r, q) ==
  /\ ScanFails /\ refresh[r].ph = "scan" /\ q \in refresh[r].wait
  /\ cards' = [cards EXCEPT ![q.hub] = [there |-> TRUE, loading |-> FALSE, err |-> TRUE, op |-> @.op]] /\ refresh' = [refresh EXCEPT ![r].wait = @ \ {q}]
  /\ UNCHANGED <<op, expired, view, loading, listErr, timer, orphans, confirm, pending, action>>
\* All are answered.  A timer that is set already is not cleared, only lost
\* from the reference.
EndRefresh(r) ==
  /\ refresh[r].ph = "scan" /\ refresh[r].wait = {} /\ loading' = (loading /\ refresh[r].silent) /\ Ended(r)
  /\ IF refresh[r].run = {} THEN UNCHANGED <<timer, orphans>> ELSE timer' = TRUE /\ orphans' = IF timer THEN orphans + 1 ELSE orphans
  /\ UNCHANGED <<op, expired, view, cards, listErr, confirm, action>>
\* A timer fires; with the page closed it does nothing more.
PollTimer(r) ==
  /\ timer /\ timer' = FALSE /\ IF view THEN refresh[r].ph = "off" /\ StartLoading(TRUE) /\ Started(r, TRUE, None) ELSE UNCHANGED <<loading, listErr, refresh>>
  /\ UNCHANGED <<op, expired, view, cards, orphans, confirm, pending, action>>
\* So does one that was lost: it empties the reference and clears no timer.
PollOrphan(r) ==
  /\ orphans > 0 /\ orphans' = (IF timer THEN orphans + 1 ELSE orphans) - 1 /\ timer' = FALSE
  /\ IF view THEN refresh[r].ph = "off" /\ StartLoading(TRUE) /\ Started(r, TRUE, None) ELSE UNCHANGED <<loading, listErr, refresh>>
  /\ UNCHANGED <<op, expired, view, cards, confirm, pending, action>>
\* A bound of the model on what runs at a time.
Room == orphans + Cardinality(Busy) < MaxTimers
OpenView(r) ==
  /\ "view" \in Ops /\ Room /\ ~ view /\ view' = TRUE /\ refreshAgentPackages(r, FALSE, None)
  /\ UNCHANGED <<op, expired, cards, orphans, confirm, pending, action>>
CloseView == "view" \in Ops /\ view /\ confirm = None /\ view' = FALSE /\ timer' = FALSE /\ UNCHANGED <<op, expired, cards, loading, listErr, orphans, refresh, confirm, pending, action>>
Refresh(r) ==
  /\ "refresh" \in Ops /\ Room /\ view /\ ~ loading /\ confirm = None /\ refreshAgentPackages(r, FALSE, None)
  /\ UNCHANGED <<op, expired, view, cards, orphans, confirm, pending, action>>
-----------------------------------------------------------------------------
\* requestAgentPackageAction, requestAgentPackageHubUpdate: buttons are
\* disabled while the card shows an operation or the action is pending.
request(kind, h) ==
  /\ kind \in Ops /\ view /\ confirm = None /\ cards[h].there /\ ~ Running(cards[h].op) /\ pending # [kind |-> kind, hub |-> h] /\ pending # [kind |-> "all", hub |-> h]
  /\ (kind = "all" => ~ cards[h].loading) /\ confirm' = [kind |-> kind, hub |-> h]
  /\ UNCHANGED <<op, expired, view, cards, loading, listErr, timer, orphans, refresh, pending, action>>
\* The confirmed action; the dialog is busy while its own flag is set.
handleConfirmed ==
  /\ confirm # None /\ pending # confirm /\ action.ph = "none" /\ action' = [c |-> confirm, ph |-> "sent"] /\ pending' = confirm
  /\ listErr' = (listErr /\ confirm.kind # "all") /\ UNCHANGED <<op, expired, view, cards, loading, timer, orphans, refresh, confirm>>
Cancel == confirm # None /\ pending # confirm /\ confirm' = None /\ UNCHANGED <<op, expired, view, cards, loading, listErr, timer, orphans, refresh, pending, action>>
ServeAction ==
  /\ action.ph = "sent"
  /\ \/ acceptOperation(action.c.hub, "npm") /\ action' = [action EXCEPT !.ph = "ok"]
     \/ Running(op[action.c.hub]) /\ action' = [action EXCEPT !.ph = "conflict"] /\ UNCHANGED op
  /\ UNCHANGED <<expired, view, cards, loading, listErr, timer, orphans, refresh, confirm, pending>>
\* Accepted: the card shows the operation, everything is scanned again.
Accepted(r) ==
  /\ action.ph = "ok" /\ Room /\ refreshAgentPackages(r, FALSE, action.c) /\ confirm' = None /\ action' = [c |-> None, ph |-> "none"]
  /\ cards' = [cards EXCEPT ![action.c.hub].there = TRUE, ![action.c.hub].op = "npm"] /\ UNCHANGED <<op, expired, view, orphans, pending>>
\* Refused: the error is shown; the dialog of a hub update is closed.
Refused ==
  /\ action.ph = "conflict" /\ listErr' = TRUE /\ confirm' = (IF action.c.kind = "all" THEN None ELSE confirm) /\ pending' = None /\ action' = [c |-> None, ph |-> "none"]
  /\ UNCHANGED <<op, expired, view, cards, loading, timer, orphans, refresh>>
Act == (\E kind \in {"act", "all"}, h \in Hubs : request(kind, h)) \/ handleConfirmed \/ Cancel \/ ServeAction \/ (\E r \in Refreshes : Accepted(r)) \/ Refused
RefreshStep(r) == Listed(r) \/ ListFailed(r) \/ (\E q \in refresh[r].wait : ServeScan(r, q) \/ ApplyScan(r, q) \/ FailScan(r, q)) \/ EndRefresh(r)
Next ==
  \/ \E h \in Hubs : OperationEnds(h) \/ CacheExpires(h)
  \/ \E r \in Refreshes : RefreshStep(r) \/ PollTimer(r) \/ PollOrphan(r) \/ OpenView(r) \/ Refresh(r)
  \/ CloseView \/ Act
Spec == Init /\ [][Next]_vars
\* Calls are answered, timers fire and operations end.
Fairness ==
  /\ (\A r \in Refreshes : WF_vars(RefreshStep(r))) /\ (\A h \in Hubs : WF_vars(OperationEnds(h)))
  /\ SF_vars(\E r \in Refreshes : PollTimer(r)) /\ SF_vars(\E r \in Refreshes : PollOrphan(r)) /\ WF_vars(ServeAction) /\ WF_vars(Refused) /\ SF_vars(\E r \in Refreshes : Accepted(r))
FairSpec == Spec /\ Fairness
-----------------------------------------------------------------------------
TypeOK ==
  /\ \A h \in Hubs : op[h] \in {"none", "latest", "npm", "done"} /\ cards[h].op \in {"none", "latest", "npm", "done"}
  /\ expired \subseteq Hubs /\ {view, loading, listErr, timer} \subseteq BOOLEAN /\ orphans \in 0..(MaxTimers - 1)
  /\ \A r \in Refreshes : refresh[r].ph \in {"off", "list", "scan"} /\ {q.hub : q \in refresh[r].wait} \subseteq Hubs
  /\ confirm.kind \in {"none", "act", "all"} /\ action.ph \in {"none", "sent", "ok", "conflict"}

\* Nothing says that it is loading when no refresh is left that would end it:
\* neither the page nor a card.
LoadingIsLoading ==
  /\ loading => \E r \in Busy : ~ refresh[r].silent
  /\ \A h \in Hubs : cards[h].loading => \E r \in Busy : ~ refresh[r].silent /\ \E q \in refresh[r].wait : q.hub = h

\* An operation that is over does not stay on the page as running.
OperationIsSeenToEnd ==
  \A h \in Hubs : (view /\ Running(cards[h].op) /\ ~ Running(op[h])) ~> (~ view \/ ~ Running(cards[h].op) \/ Running(op[h]))
=============================================================================
