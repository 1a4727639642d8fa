---------------------------- MODULE ReleaseUpdates ----------------------------
(***************************************************************************)
(* Release updates of the update page: the check of one hub or of all, the *)
(* poll while a hub fetches in the background, the request to update one   *)
(* hub or all of them, and the card of the Android package.                *)
(***************************************************************************)
EXTENDS Integers, FiniteSets

CONSTANTS Hubs,       \* hubs that the registry lists
          Checks,     \* identities of refreshWheelMakerUpdates calls
          Ops,        \* what happens: "view", "force", "one", "all", "apk"
          FirstFetch, \* "recent": the hubs have fetched just now, or "never"
          QueryFails, \* whether a query may fail
          UpdateFails \* whether an update request may fail
UpdateConstants == FirstFetch \in {"never", "recent"} /\ Ops \subseteq {"view", "force", "one", "all", "apk"} /\ {QueryFails, UpdateFails} \subseteq BOOLEAN

VARIABLES git,      \* the version every hub's repository knows: "old" or "new"
          fetch,    \* its background fetch: "never", "running", "recent"
          signal,   \* hubs with an update signal
          view,     \* whether the update page is open
          cards,    \* wheelMakerUpdateHubs: loading, error, version
          loading,  \* wheelMakerUpdatesLoading
          timer,    \* whether the poll timer is set
          pollSet,  \* wheelMakerUpdatePollHubIdsRef
          checks,   \* of every check: phase, force, who waits for it
          queries,  \* queries under way: of a check, of a poll (0) or after an update (-1)
          confirm,  \* the dialog: "none", "all" or a hub
          pendOne,  \* wheelMakerUpdatePendingHubId
          pendAll,  \* wheelMakerUpdateAllPending
          update    \* the update requests under way: target, hubs left, hubs that failed
vars == <<git, fetch, signal, view, cards, loading, timer, pollSet, checks, queries, confirm, pendOne, pendAll, update>>

NoCard == [loading |-> FALSE, err |-> "none", val |-> "none", run |-> FALSE]
Off == [ph |-> "off", force |-> FALSE, by |-> "none"]
NoUpdate == [kind |-> "none", left |-> {}, failed |-> {}]
Init ==
  /\ git = [h \in Hubs |-> "old"] /\ fetch = [h \in Hubs |-> FirstFetch] /\ signal = {} /\ view = FALSE /\ cards = [h \in Hubs |-> NoCard]
  /\ loading = FALSE /\ timer = FALSE /\ pollSet = {} /\ checks = [k \in Checks |-> Off] /\ queries = {} /\ confirm = "none" /\ pendOne = "none"
  /\ pendAll = FALSE /\ update = NoUpdate
Q(h, k, force) == [h |-> h, k |-> k, force |-> force, ph |-> "sent", val |-> "none", run |-> FALSE]
hubs == <<git, fetch, signal>>
req == <<confirm, pendOne, pendAll, update>>
-----------------------------------------------------------------------------
\* The hub: a forced query fetches first; another one reads what is there and
\* then sees to a background fetch.
QueryReads(q) ==
  /\ q \in queries /\ q.ph = "sent"
  /\ \E v \in {IF q.force /\ q.h \notin signal THEN "new" ELSE git[q.h]} :
       /\ git' = [git EXCEPT ![q.h] = v] /\ fetch' = [fetch EXCEPT ![q.h] = IF q.force /\ q.h \notin signal THEN "recent" ELSE @]
       /\ queries' = (queries \ {q}) \union {[q EXCEPT !.ph = IF q.force \/ q.h \in signal THEN "ok" ELSE "read", !.val = IF q.h \in signal THEN "pending" ELSE v]}
  /\ UNCHANGED <<signal, view, cards, loading, timer, pollSet, checks>> /\ UNCHANGED req
startBackgroundFetchIfNeeded(q) ==
  /\ q \in queries /\ q.ph = "read" /\ fetch' = [fetch EXCEPT ![q.h] = IF @ = "never" THEN "running" ELSE @]
  /\ queries' = (queries \ {q}) \union {[q EXCEPT !.ph = "ok", !.run = fetch[q.h] # "recent"]}
  /\ UNCHANGED <<git, signal, view, cards, loading, timer, pollSet, checks>> /\ UNCHANGED req
FetchEnds(h) ==
  /\ fetch[h] = "running" /\ fetch' = [fetch EXCEPT ![h] = "recent"] /\ git' = [git EXCEPT ![h] = "new"]
  /\ UNCHANGED <<signal, view, cards, loading, timer, pollSet, checks, queries>> /\ UNCHANGED req
\* The updater takes the signal; the hub is then at a new release.
UpdaterTakesSignal(h) == h \in signal /\ signal' = signal \ {h} /\ UNCHANGED <<git, fetch, view, cards, loading, timer, pollSet, checks, queries>> /\ UNCHANGED req
-----------------------------------------------------------------------------
\* refreshWheelMakerUpdates: the flag, then the list of the hubs, then a
\* query each.  A forced one stops the poll.
CheckAll(k, force, by) ==
  /\ checks[k].ph = "off" /\ checks' = [checks EXCEPT ![k] = [ph |-> "list", force |-> force, by |-> by]] /\ loading' = TRUE
  /\ timer' = (timer /\ ~ force) /\ pollSet' = IF force THEN {} ELSE pollSet
Listed(k) ==
  /\ checks[k].ph = "list" /\ checks' = [checks EXCEPT ![k].ph = "query"] /\ queries' = queries \union {Q(h, k, checks[k].force) : h \in Hubs}
  /\ cards' = [h \in Hubs |-> [cards[h] EXCEPT !.loading = TRUE, !.err = "none"]] /\ UNCHANGED <<view, loading, timer, pollSet>> /\ UNCHANGED hubs /\ UNCHANGED req
ListFailed(k) ==
  /\ QueryFails /\ checks[k].ph = "list" /\ checks' = [checks EXCEPT ![k].ph = "done"] /\ loading' = FALSE
  /\ UNCHANGED <<view, cards, timer, pollSet, queries>> /\ UNCHANGED hubs /\ UNCHANGED req
scheduleWheelMakerUpdatePoll(h, yes) == timer' = (timer \/ yes) /\ pollSet' = IF yes THEN pollSet \union {h} ELSE pollSet
QueryAnswer(q) ==
  /\ q \in queries /\ q.ph = "ok" /\ queries' = queries \ {q} /\ cards' = [cards EXCEPT ![q.h] = [loading |-> FALSE, err |-> "none", val |-> q.val, run |-> q.run]]
  /\ scheduleWheelMakerUpdatePoll(q.h, ~ q.force /\ q.run) /\ UNCHANGED <<view, loading, checks>> /\ UNCHANGED hubs /\ UNCHANGED req
QueryFailed(q) ==
  /\ QueryFails /\ q \in queries /\ q.ph = "sent" /\ queries' = queries \ {q} /\ cards' = [cards EXCEPT ![q.h].loading = FALSE, ![q.h].err = "check"]
  /\ UNCHANGED <<view, loading, timer, pollSet, checks>> /\ UNCHANGED hubs /\ UNCHANGED req
EndCheck(k) ==
  /\ checks[k].ph = "query" /\ (~ \E q \in queries : q.k = k) /\ checks' = [checks EXCEPT ![k].ph = "done"] /\ loading' = FALSE
  /\ UNCHANGED <<view, cards, timer, pollSet, queries>> /\ UNCHANGED hubs /\ UNCHANGED req
\* The caller goes on; after an update of all it shows what had failed, since
\* the check has cleared the errors.
CheckReturns(k) ==
  /\ checks[k].ph = "done" /\ checks' = [checks EXCEPT ![k] = Off]
  /\ IF checks[k].by = "all"
     THEN /\ pendAll' = FALSE /\ update' = NoUpdate
          /\ cards' = [h \in Hubs |-> IF h \in update.failed THEN [cards[h] EXCEPT !.loading = FALSE, !.err = "update"] ELSE cards[h]]
     ELSE UNCHANGED <<pendAll, update, cards>>
  /\ UNCHANGED <<view, loading, timer, pollSet, queries, confirm, pendOne>> /\ UNCHANGED hubs
Poll ==
  /\ timer /\ timer' = FALSE /\ pollSet' = {} /\ queries' = queries \union (IF view THEN {Q(h, 0, FALSE) : h \in pollSet} ELSE {})
  /\ UNCHANGED <<view, cards, loading, checks>> /\ UNCHANGED hubs /\ UNCHANGED req
OpenView(k) == "view" \in Ops /\ ~ view /\ view' = TRUE /\ CheckAll(k, FALSE, "none") /\ UNCHANGED <<cards, queries>> /\ UNCHANGED hubs /\ UNCHANGED req
CloseView == "view" \in Ops /\ view /\ confirm = "none" /\ view' = FALSE /\ timer' = FALSE /\ pollSet' = {} /\ UNCHANGED <<cards, loading, checks, queries>> /\ UNCHANGED hubs /\ UNCHANGED req
Refresh(k) == "force" \in Ops /\ view /\ ~ loading /\ confirm = "none" /\ CheckAll(k, TRUE, "none") /\ UNCHANGED <<view, cards, queries>> /\ UNCHANGED hubs /\ UNCHANGED req
-----------------------------------------------------------------------------
shouldShowWheelMakerUpdateAction(h) == ~ cards[h].loading /\ cards[h].val # "none"
\* requestWheelMakerUpdatePublish and ...All open the dialog.
request(t) ==
  /\ view /\ confirm = "none" /\ ~ pendAll
  /\ \/ t = "all" /\ "all" \in Ops /\ \E h \in Hubs : cards[h] # NoCard
     \/ t \in Hubs /\ "one" \in Ops /\ shouldShowWheelMakerUpdateAction(t) /\ cards[t].val # "pending" /\ pendOne # t
  /\ confirm' = t /\ UNCHANGED <<view, cards, loading, timer, pollSet, checks, queries, pendOne, pendAll, update>> /\ UNCHANGED hubs
Confirmed ==
  /\ confirm # "none" /\ update = NoUpdate /\ UNCHANGED <<view, cards, loading, timer, pollSet, checks, queries, confirm>> /\ UNCHANGED hubs
  /\ IF confirm = "all" THEN pendAll' = TRUE /\ pendOne' = "none" /\ update' = [kind |-> "all", left |-> Hubs, failed |-> {}]
     ELSE pendOne' = confirm /\ UNCHANGED pendAll /\ update' = [kind |-> confirm, left |-> {confirm}, failed |-> {}]
requestUpdatePublish(h) ==
  /\ update.kind # "none" /\ h \in update.left /\ signal' = signal \union {h} /\ update' = [update EXCEPT !.left = @ \ {h}]
  /\ UNCHANGED <<git, fetch, view, cards, loading, timer, pollSet, checks, queries, confirm, pendOne, pendAll>>
RequestFails(h) ==
  /\ UpdateFails /\ update.kind # "none" /\ h \in update.left /\ update' = [update EXCEPT !.left = @ \ {h}, !.failed = @ \union {h}]
  /\ UNCHANGED <<view, cards, loading, timer, pollSet, checks, queries, confirm, pendOne, pendAll>> /\ UNCHANGED hubs
\* The request for one hub is answered: its card, and a check of the hub.
OneAnswered ==
  LET h == update.kind IN
  /\ h \in Hubs /\ update.left = {} /\ UNCHANGED <<view, loading, timer, pollSet, checks, pendAll>> /\ UNCHANGED hubs /\ update' = NoUpdate
  /\ IF update.failed = {}
     THEN confirm' = "none" /\ cards' = [cards EXCEPT ![h] = [loading |-> TRUE, err |-> "none", val |-> "pending", run |-> FALSE]] /\ queries' = queries \union {Q(h, -1, FALSE)} /\ pendOne' = pendOne
     ELSE UNCHANGED <<confirm, cards, queries>> /\ pendOne' = "none"
OneDone(h) == pendOne = h /\ update = NoUpdate /\ (~ \E q \in queries : q.h = h /\ q.k = -1) /\ pendOne' = "none" /\ UNCHANGED <<view, cards, loading, timer, pollSet, checks, queries, confirm, pendAll, update>> /\ UNCHANGED hubs
\* All requests are answered: the cards, then a check of everything.
AllAnswered(k) ==
  /\ update.kind = "all" /\ update.left = {} /\ confirm = "all" /\ confirm' = "none" /\ CheckAll(k, FALSE, "all")
  /\ cards' = [h \in Hubs |-> [loading |-> FALSE, err |-> IF h \in update.failed THEN "update" ELSE "none", val |-> IF h \in update.failed THEN cards[h].val ELSE "pending", run |-> h \in update.failed /\ cards[h].run]]
  /\ UNCHANGED <<view, queries, pendOne, pendAll, update>> /\ UNCHANGED hubs
CheckStep(k) == Listed(k) \/ ListFailed(k) \/ EndCheck(k) \/ CheckReturns(k)
QueryStep(q) == QueryReads(q) \/ startBackgroundFetchIfNeeded(q) \/ QueryAnswer(q) \/ QueryFailed(q)
UpdateStep == (\E h \in Hubs : requestUpdatePublish(h) \/ RequestFails(h) \/ OneDone(h)) \/ OneAnswered
Next ==
  \/ \E k \in Checks : CheckStep(k) \/ OpenView(k) \/ Refresh(k) \/ AllAnswered(k)
  \/ \E q \in queries : QueryStep(q)
  \/ \E h \in Hubs : FetchEnds(h) \/ UpdaterTakesSignal(h) \/ request(h)
  \/ Poll \/ CloseView \/ request("all") \/ Confirmed \/ UpdateStep
Spec == Init /\ [][Next]_vars
Fairness ==
  /\ (\A k \in Checks : WF_vars(CheckStep(k))) /\ (\A h \in Hubs : \A k \in Checks \union {0, -1} : WF_vars(\E q \in queries : q.h = h /\ q.k = k /\ QueryStep(q)))
  /\ (\A h \in Hubs : WF_vars(FetchEnds(h))) /\ WF_vars(Poll) /\ WF_vars(UpdateStep) /\ SF_vars(\E k \in Checks : AllAnswered(k))
FairSpec == Spec /\ Fairness
-----------------------------------------------------------------------------
TypeOK ==
  /\ \A h \in Hubs : git[h] \in {"old", "new"} /\ fetch[h] \in {"never", "running", "recent"} /\ cards[h].val \in {"none", "old", "new", "pending"}
  /\ signal \subseteq Hubs /\ pollSet \subseteq Hubs /\ (pollSet # {} => timer) /\ confirm \in Hubs \union {"none", "all"} /\ pendOne \in Hubs \union {"none"}
  /\ update.failed \intersect update.left = {} /\ update.left \subseteq Hubs

\* A card says that it loads only while a query or a check for it is left.
LoadingIsLoading == \A h \in Hubs : cards[h].loading => \E q \in queries : q.h = h
\* A card whose last answer said that a fetch is running is asked again
\* until one says that it is over.
FetchIsFollowed == \A h \in Hubs : (view /\ cards[h].run) ~> (~ view \/ ~ cards[h].run)
=============================================================================
