----------------------------- MODULE SkillsScan -----------------------------
(***************************************************************************)
(* The skills page: scans of all hubs and of one hub, the one timer with   *)
(* the hubs it will scan again, confirmed actions with the one key that    *)
(* says which of them is pending, and the hubs, which run one skills       *)
(* operation at a time.                                                    *)
(***************************************************************************)
EXTENDS Naturals, FiniteSets

CONSTANTS Hubs,   \* hubs
          Calls,  \* identities of calls that run at a time
          Ops,    \* what happens: "act", "refresh", "view", "gone", "menu", "other"
          Fails   \* calls that may fail: "scan", "list"
SkillConstants == Ops \subseteq {"act", "refresh", "view", "gone", "menu", "other"} /\ Fails \subseteq {"scan", "list"}

VARIABLES op,       \* the operation of every hub: "none", "run", "done"
          view,     \* whether the skills page is open
          cards,    \* skillHubs: of every hub whether it is there, loading, and its operation
          loading,  \* skillsLoading
          poll,     \* skillOperationPollHubIdsRef
          timer,    \* whether skillOperationPollTimerRef holds a timer
          call,     \* of every call: phase, the hub of an action, scans not applied, hubs that run
          confirm,  \* confirmTarget: hub and scope, or none
          pending,  \* skillsPendingKey: hub and scope, or none
          active    \* activeSkillHubId
vars == <<op, view, cards, loading, poll, timer, call, confirm, pending, active>>

None == [hub |-> "", scope |-> ""]
NoHub == ""
NoCard == [there |-> FALSE, loading |-> FALSE, op |-> "none"]
Off == [ph |-> "off", act |-> None, wait |-> {}, run |-> {}]
Sent(h) == [hub |-> h, ph |-> "sent", op |-> "none"]
Init ==
  /\ op = [h \in Hubs |-> "none"] /\ view = FALSE /\ cards = [h \in Hubs |-> NoCard] /\ loading = FALSE /\ poll = {} /\ timer = FALSE
  /\ call = [c \in Calls |-> Off] /\ confirm = None /\ pending = None /\ active = NoHub
There == {h \in Hubs : cards[h].there}
-----------------------------------------------------------------------------
\* The hub: one operation at a time, which ends by itself.
acceptOperation(h) == op[h] # "run" /\ op' = [op EXCEPT ![h] = "run"]
finishOperation(h) == op[h] = "run" /\ op' = [op EXCEPT ![h] = "done"] /\ UNCHANGED <<view, cards, loading, poll, timer, call, confirm, pending, active>>
\* Another client of the registry starts one.
OtherClient(h) == "other" \in Ops /\ acceptOperation(h) /\ UNCHANGED <<view, cards, loading, poll, timer, call, confirm, pending, active>>
scan(c, q) ==
  /\ q \in call[c].wait /\ q.ph = "sent" /\ call' = [call EXCEPT ![c].wait = (@ \ {q}) \union {[q EXCEPT !.ph = "ok", !.op = op[q.hub]]}]
  /\ UNCHANGED <<op, view, cards, loading, poll, timer, confirm, pending, active>>
-----------------------------------------------------------------------------
\* A timer that is set already takes the hubs along.
scheduleSkillOperationPoll(hs) == poll' = poll \union hs /\ timer' = TRUE
Schedule(hs) == IF hs = {} THEN UNCHANGED <<poll, timer>> ELSE scheduleSkillOperationPoll(hs)
clearSkillOperationPollTimer == timer' = FALSE /\ poll' = {}
ScanOfHub(h, a) == [ph |-> "scan", act |-> a, wait |-> {Sent(h)}, run |-> {}]
LoadingCard(h) == [cards EXCEPT ![h].there = TRUE, ![h].loading = TRUE]
\* The timer: every hub of the set is scanned by a call of its own.
PollTimer ==
  /\ timer /\ timer' = FALSE /\ poll' = {}
  /\ \E f \in [poll -> {c \in Calls : call[c].ph = "off"}] :
       /\ \A h, i \in poll : f[h] = f[i] => h = i
       /\ call' = [c \in Calls |-> IF \E h \in poll : f[h] = c THEN ScanOfHub(CHOOSE h \in poll : f[h] = c, None) ELSE call[c]]
  /\ cards' = [h \in Hubs |-> IF h \in poll THEN [cards[h] EXCEPT !.there = TRUE, !.loading = TRUE] ELSE cards[h]]
  /\ UNCHANGED <<op, view, loading, confirm, pending, active>>
\* refreshSkillManagement forgets what the timer would scan and lists the hubs.
refreshSkillManagement(c) ==
  /\ call[c].ph = "off" /\ call' = [call EXCEPT ![c] = [Off EXCEPT !.ph = "list"]] /\ loading' = TRUE /\ clearSkillOperationPollTimer
OpenView(c) == ~ view /\ view' = TRUE /\ refreshSkillManagement(c) /\ UNCHANGED <<op, cards, confirm, pending, active>>
CloseView == "view" \in Ops /\ view /\ confirm = None /\ view' = FALSE /\ UNCHANGED <<op, cards, loading, poll, timer, call, confirm, pending, active>>
Refresh(c) == "refresh" \in Ops /\ view /\ ~ loading /\ confirm = None /\ refreshSkillManagement(c) /\ UNCHANGED <<op, view, cards, confirm, pending, active>>
\* The cards are those of the listed hubs; with no hub the call is over.
Listed(c, hs) ==
  /\ call[c].ph = "list" /\ cards' = [h \in Hubs |-> IF h \in hs THEN [there |-> TRUE, loading |-> TRUE, op |-> cards[h].op] ELSE NoCard]
  /\ call' = [call EXCEPT ![c] = IF hs = {} THEN Off ELSE [@ EXCEPT !.ph = "all", !.wait = {Sent(h) : h \in hs}]] /\ loading' = (loading /\ hs # {})
  /\ UNCHANGED <<op, view, poll, timer, confirm, pending, active>>
ListFailed(c) ==
  /\ "list" \in Fails /\ call[c].ph = "list" /\ call' = [call EXCEPT ![c] = Off] /\ loading' = FALSE /\ UNCHANGED <<op, view, cards, poll, timer, confirm, pending, active>>
\* The answer of a scan of all hubs; the last one sets the timer.
AllAnswered(c, q, run) ==
  /\ call[c].ph = "all"
  /\ IF call[c].wait = {q} THEN call' = [call EXCEPT ![c] = Off] /\ loading' = FALSE /\ Schedule(call[c].run \union run)
     ELSE call' = [call EXCEPT ![c].wait = @ \ {q}, ![c].run = @ \union run] /\ UNCHANGED <<loading, poll, timer>>
  /\ UNCHANGED pending
HubAnsweredNoPoll(c, q, run) == call[c].ph = "scan" /\ call' = [call EXCEPT ![c] = Off] /\ pending' = (IF call[c].act = None THEN pending ELSE None) /\ UNCHANGED <<loading, poll, timer>>
\* The answer of a scan of one hub; the action that it follows is over.
HubAnswered(c, q, run) == call[c].ph = "scan" /\ call' = [call EXCEPT ![c] = Off] /\ Schedule(run) /\ pending' = (IF call[c].act = None THEN pending ELSE None) /\ UNCHANGED loading
ApplyScan(c, q) ==
  /\ q \in call[c].wait /\ q.ph = "ok" /\ cards' = [cards EXCEPT ![q.hub] = [there |-> TRUE, loading |-> FALSE, op |-> q.op]]
  /\ \E run \in {{h \in {q.hub} : q.op = "run"}} : AllAnswered(c, q, run) \/ HubAnswered(c, q, run)
  /\ UNCHANGED <<op, view, confirm, active>>
\* A failed scan keeps the data of the card and follows nothing.
FailScan(c, q) ==
  /\ "scan" \in Fails /\ q \in call[c].wait /\ cards' = [cards EXCEPT ![q.hub].there = TRUE, ![q.hub].loading = FALSE]
  /\ (AllAnswered(c, q, {}) \/ HubAnswered(c, q, {})) /\ UNCHANGED <<op, view, confirm, active>>
-----------------------------------------------------------------------------
isSkillActionPendingForHub(h) == pending.hub = h
\* The buttons of a scope; only those of the hub's own skills wait for a scan.
actionDisabled(h, scope) == cards[h].op = "run" \/ isSkillActionPendingForHub(h) \/ (scope = "hub" /\ cards[h].loading)
request(h, scope) ==
  /\ "act" \in Ops /\ view /\ confirm = None /\ active = h /\ cards[h].there /\ ~ actionDisabled(h, scope) /\ confirm' = [hub |-> h, scope |-> scope]
  /\ UNCHANGED <<op, view, cards, loading, poll, timer, call, pending, active>>
Cancel == confirm # None /\ pending # confirm /\ confirm' = None /\ UNCHANGED <<op, view, cards, loading, poll, timer, call, pending, active>>
handleSkillConfirmedAction(c) ==
  /\ confirm # None /\ pending # confirm /\ call[c].ph = "off" /\ call' = [call EXCEPT ![c] = [Off EXCEPT !.ph = "act", !.act = confirm]] /\ pending' = confirm
  /\ UNCHANGED <<op, view, cards, loading, poll, timer, confirm, active>>
Serve(c) ==
  /\ call[c].ph = "act"
  /\ \/ acceptOperation(call[c].act.hub) /\ call' = [call EXCEPT ![c].ph = "accepted"]
     \/ op[call[c].act.hub] = "run" /\ call' = [call EXCEPT ![c].ph = "refused"] /\ UNCHANGED op
  /\ UNCHANGED <<view, cards, loading, poll, timer, confirm, pending, active>>
\* Accepted: whatever is confirmed now is dropped, the hub is scanned.
Accepted(c) ==
  /\ call[c].ph = "accepted" /\ confirm' = None /\ call' = [call EXCEPT ![c] = ScanOfHub(@.act.hub, @.act)] /\ cards' = LoadingCard(call[c].act.hub)
  /\ UNCHANGED <<op, view, loading, poll, timer, pending, active>>
Refused(c) == call[c].ph = "refused" /\ call' = [call EXCEPT ![c] = Off] /\ pending' = None /\ UNCHANGED <<op, view, cards, loading, poll, timer, confirm, active>>
-----------------------------------------------------------------------------
\* The effect that keeps the shown hub among the cards.
FollowHubs == view /\ (active \notin There) /\ (There # {} \/ active # NoHub) /\ active' = (IF There = {} THEN NoHub ELSE CHOOSE h \in There : TRUE) /\ UNCHANGED <<op, view, cards, loading, poll, timer, call, confirm, pending>>
PickHub(h) == "menu" \in Ops /\ view /\ confirm = None /\ cards[h].there /\ active # NoHub /\ active # h /\ active' = h /\ UNCHANGED <<op, view, cards, loading, poll, timer, call, confirm, pending>>
-----------------------------------------------------------------------------
Lists == IF "gone" \in Ops THEN SUBSET Hubs ELSE {Hubs}
CallStep(c) ==
  \/ \E hs \in Lists : Listed(c, hs)
  \/ ListFailed(c) \/ (\E q \in call[c].wait : scan(c, q) \/ ApplyScan(c, q) \/ FailScan(c, q))
  \/ Serve(c) \/ Accepted(c) \/ Refused(c)
Next ==
  \/ \E h \in Hubs : finishOperation(h) \/ OtherClient(h) \/ PickHub(h)
  \/ \E c \in Calls : CallStep(c) \/ OpenView(c) \/ Refresh(c) \/ handleSkillConfirmedAction(c)
  \/ PollTimer \/ CloseView \/ Cancel \/ FollowHubs
  \/ \E h \in Hubs : \E scope \in {"hub", "project"} : request(h, scope)
Spec == Init /\ [][Next]_vars
\* Calls are answered, the timer fires, operations end.
Fairness == (\A c \in Calls : WF_vars(CallStep(c))) /\ (\A h \in Hubs : WF_vars(finishOperation(h))) /\ SF_vars(PollTimer)
FairSpec == Spec /\ Fairness
-----------------------------------------------------------------------------
TypeOK ==
  /\ \A h \in Hubs : op[h] \in {"none", "run", "done"} /\ cards[h].op \in {"none", "run", "done"}
  /\ {view, loading, timer} \subseteq BOOLEAN /\ poll \subseteq Hubs /\ active \in Hubs \union {NoHub}
  /\ \A c \in Calls : call[c].ph \in {"off", "list", "all", "scan", "act", "accepted", "refused"} /\ {q.hub : q \in call[c].wait} \subseteq Hubs

\* A card that says it is scanning has a scan that will be answered; the page
\* says so only while a refresh is under way.
ScanningIsScanning ==
  /\ \A h \in Hubs : cards[h].loading => \E c \in Calls : \E q \in call[c].wait : q.hub = h
  /\ loading => \E c \in Calls : call[c].ph \in {"list", "all"}

\* With one hub, the buttons keep a second action of the hub from being sent
\* while the first is not answered.
OneActionUnanswered == \A h \in Hubs : Cardinality({c \in Calls : call[c].act.hub = h /\ call[c].ph \in {"act", "accepted", "refused"}}) <= 1

\* The page does not keep showing a finished operation as running.
OperationIsSeenToEnd == \A h \in Hubs : (cards[h].op = "run" /\ op[h] # "run") ~> (cards[h].op # "run" \/ op[h] = "run")
=============================================================================
