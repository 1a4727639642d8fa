---------------------------- MODULE SessionAdmin ----------------------------
(***************************************************************************)
(* The administration of sessions on the page, for one project: archive,   *)
(* delete, rename and reload of a session, the batch that archives older   *)
(* sessions, the archived mode with its preview and restore, the session   *)
(* list with the older sessions folded away.  Calls are served by the hub  *)
(* in any order and answers are applied in any order.                      *)
(***************************************************************************)
EXTENDS Naturals, FiniteSets, Sequences, SequencesExt

CONSTANTS Sessions,  \* sessions of the project, as numbers: the order of the list
          Age,       \* days since a session was updated; 0 when it cannot be parsed
          Days,      \* ages that the archive menu offers
          FoldDays,  \* OLDER_SESSION_DAYS
          MinShown,  \* MIN_COLLAPSED_VISIBLE_SESSIONS
          Slots,     \* bound: calls of one kind under way
          Batches,   \* identities of batches
          Ops,       \* what the user and others do in a run
          MayRefuse  \* whether the hub may refuse a call
None == 0
AllOps == {"archive", "delete", "rename", "reload", "batch", "archived", "restore", "list", "other", "fold", "reconnect"}
AdminConstants ==
  /\ Sessions \subseteq Nat \ {None} /\ Age \in [Sessions -> Nat] /\ Days \subseteq Nat
  /\ {FoldDays, MinShown} \subseteq Nat /\ Ops \subseteq AllOps /\ MayRefuse \in BOOLEAN

VARIABLES hub,     \* active and archived sessions, running and renamed ones
          page,    \* list, selection, renamed, the fold, removed and restored
          busy,    \* the session that every handler is busy with
          confirm, \* the confirm dialog
          batch,   \* of every batch: candidates, what is left, results
          shown,   \* the batch whose progress is shown
          arch,    \* the archived mode
          calls    \* calls under way
vars == <<hub, page, busy, confirm, batch, shown, arch, calls>>

Kinds == {"archive", "delete", "rename", "reload", "restore"}
NoConfirm == [kind |-> "none", s |-> None, cands |-> <<>>]
NoBatch == [cands |-> <<>>, left |-> <<>>, ok |-> {}, failed |-> {}]
NoArchived == [mode |-> FALSE, list |-> {}, sel |-> None, preview |-> None]
Init ==
  /\ hub = [active |-> Sessions, archived |-> {}, running |-> {}, named |-> {}]
  /\ page = [list |-> Sessions, sel |-> None, named |-> {}, expanded |-> FALSE, removed |-> {}, restored |-> {}, dirty |-> FALSE, fresh |-> TRUE]
  /\ busy = [k \in Kinds |-> None] /\ confirm = NoConfirm /\ batch = [b \in Batches |-> NoBatch]
  /\ shown = None /\ arch = NoArchived /\ calls = {}

Ordered(set) == SetToSortSeq(set, <)
\* A call: kind, slot, session, phase, and the sessions in the answer.
C(kind, slot, s) == [kind |-> kind, slot |-> slot, s |-> s, ph |-> "sent", val |-> {}]
Out(kind, slot) == \E c \in calls : c.kind = kind /\ c.slot = slot
Answered(c) == c \in calls /\ c.ph \in {"ok", "refused"}
-----------------------------------------------------------------------------
isOlderThanDays(s, days) == Age[s] > days
\* What the project shows: the recent sessions and, of the older ones, as
\* many as fill the list up to MinShown.
splitOlderProjectSessions(list, expanded) ==
  LET recent == SelectSeq(list, LAMBDA s : ~ isOlderThanDays(s, FoldDays))
      older == SelectSeq(list, LAMBDA s : isOlderThanDays(s, FoldDays))
      n == IF MinShown > Len(recent) THEN MinShown - Len(recent) ELSE 0
      hidden == IF Len(older) <= 1 \/ expanded THEN <<>> ELSE SubSeq(older, n + 1, Len(older))
  IN [visible |-> recent \o SubSeq(older, 1, Len(older) - Len(hidden)), hidden |-> hidden,
      toggle |-> Len(older) > 1 /\ (expanded \/ hidden # <<>>)]
Fold == splitOlderProjectSessions(Ordered(page.list), page.expanded)
toggleOlderSessionsExpanded ==
  /\ "fold" \in Ops /\ Fold.toggle /\ page' = [page EXCEPT !.expanded = ~ @] /\ UNCHANGED <<hub, busy, confirm, batch, shown, arch, calls>>
-----------------------------------------------------------------------------
\* requestArchiveProjectSession, requestDeleteProjectSession and the restore
\* button open the dialog; a running session cannot be archived or deleted.
\* Dialogs are modal: one is opened when none is open.
Request(kind, s) ==
  /\ kind \in Ops /\ confirm = NoConfirm
  /\ \/ kind \in {"archive", "delete"} /\ s \in page.list /\ s \notin hub.running /\ busy[kind] = None
     \/ kind = "restore" /\ arch.mode /\ arch.sel = s /\ s \in arch.list /\ busy[kind] # s
  /\ confirm' = [NoConfirm EXCEPT !.kind = kind, !.s = s] /\ UNCHANGED <<hub, page, busy, batch, shown, arch, calls>>
\* requestArchiveOlderSessions, over the sessions that the page knows.
collectArchiveCandidates(days) == Ordered({s \in page.list : s \notin hub.running /\ isOlderThanDays(s, days)})
requestArchiveOlderSessions(days) ==
  /\ "batch" \in Ops /\ confirm = NoConfirm /\ ~ arch.mode
  /\ LET cands == collectArchiveCandidates(days) IN
     IF cands = <<>> THEN shown' = None /\ confirm' = confirm
     ELSE shown' = shown /\ confirm' = [NoConfirm EXCEPT !.kind = "batch", !.cands = cands]
  /\ UNCHANGED <<hub, page, busy, batch, arch, calls>>
CancelDialog == confirm # NoConfirm /\ confirm' = NoConfirm /\ UNCHANGED <<hub, page, busy, batch, shown, arch, calls>>
\* The button of the dialog; while its own handler is busy it is disabled.
handleSession(kind) ==
  /\ confirm.kind = kind /\ kind \in {"archive", "delete", "restore"} /\ busy[kind] = None
  /\ busy' = [busy EXCEPT ![kind] = confirm.s] /\ calls' = calls \union {C(kind, None, confirm.s)} /\ UNCHANGED <<hub, page, confirm, batch, shown, arch>>
\* Rename and reload have a dialog and a menu of their own.
handleRename(s) ==
  /\ "rename" \in Ops /\ s \in page.list /\ busy["rename"] = None /\ busy' = [busy EXCEPT !["rename"] = s]
  /\ calls' = calls \union {C("rename", None, s)} /\ UNCHANGED <<hub, page, confirm, batch, shown, arch>>
handleReload(s) ==
  /\ "reload" \in Ops /\ s \in page.list /\ busy["reload"] = None /\ busy' = [busy EXCEPT !["reload"] = s]
  /\ calls' = calls \union {C("reload", None, s)} /\ UNCHANGED <<hub, page, confirm, batch, shown, arch>>

Running(b) == batch[b].left # <<>>
BatchBusy == shown # None /\ Running(shown)
\* handleArchiveBatch: the loop over the candidates, one call at a time.
handleArchiveBatch(b) ==
  /\ confirm.kind = "batch" /\ ~ BatchBusy /\ ~ Running(b)
  /\ batch' = [batch EXCEPT ![b] = [NoBatch EXCEPT !.cands = confirm.cands, !.left = confirm.cands]]
  /\ shown' = b /\ confirm' = NoConfirm /\ calls' = calls \union {C("batch", b, Head(confirm.cands))} /\ UNCHANGED <<hub, page, busy, arch>>
clearArchiveBatchStatus == shown # None /\ ~ BatchBusy /\ shown' = None /\ UNCHANGED <<hub, page, busy, confirm, batch, arch, calls>>
-----------------------------------------------------------------------------
removeProjectChatSessionFromState(s) ==
  [page EXCEPT !.list = @ \ {s}, !.sel = IF @ = s THEN None ELSE @, !.removed = @ \union {s}, !.restored = @ \ {s}]
\* The answers.  Every handler clears its flag, whatever the answer was.
ArchivedOrDeleted(c) ==
  /\ Answered(c) /\ c.kind \in {"archive", "delete"} /\ calls' = calls \ {c} /\ busy' = [busy EXCEPT ![c.kind] = None]
  /\ IF c.ph = "ok" THEN page' = removeProjectChatSessionFromState(c.s) /\ confirm' = NoConfirm ELSE UNCHANGED <<page, confirm>>
  /\ UNCHANGED <<hub, batch, shown, arch>>
nextArchiveBatchProgress(b, s, ok) ==
  [batch EXCEPT ![b] = [@ EXCEPT !.left = Tail(@), !.ok = IF ok THEN @ \union {s} ELSE @, !.failed = IF ok THEN @ ELSE @ \union {s}]]
BatchAnswer(c) ==
  /\ Answered(c) /\ c.kind = "batch"
  /\ page' = IF c.ph = "ok" THEN removeProjectChatSessionFromState(c.s) ELSE page
  /\ \E bt \in {nextArchiveBatchProgress(c.slot, c.s, c.ph = "ok")} :
       /\ batch' = bt /\ calls' = (calls \ {c}) \union IF bt[c.slot].left = <<>> THEN {} ELSE {C("batch", c.slot, Head(bt[c.slot].left))}
  /\ shown' = c.slot /\ UNCHANGED <<hub, busy, confirm, arch>>
Renamed(c) ==
  /\ Answered(c) /\ c.kind = "rename" /\ calls' = calls \ {c} /\ busy' = [busy EXCEPT !["rename"] = None]
  /\ page' = IF c.ph = "ok" THEN [page EXCEPT !.named = @ \union {c.s}, !.list = @ \union {c.s}] ELSE page
  /\ UNCHANGED <<hub, confirm, batch, shown, arch>>
Reloaded(c) ==
  /\ Answered(c) /\ c.kind = "reload" /\ calls' = calls \ {c} /\ busy' = [busy EXCEPT !["reload"] = None]
  /\ UNCHANGED <<hub, page, confirm, batch, shown, arch>>
-----------------------------------------------------------------------------
\* The archived mode: the list of the project, the preview of a row, Cancel.
enterArchivedMode(i) ==
  /\ "archived" \in Ops /\ confirm = NoConfirm /\ ~ arch.mode /\ ~ Out("archived", i)
  /\ arch' = [NoArchived EXCEPT !.mode = TRUE] /\ calls' = calls \union {C("archived", i, None)} /\ UNCHANGED <<hub, page, busy, confirm, batch, shown>>
exitArchivedMode == arch.mode /\ confirm = NoConfirm /\ arch' = NoArchived /\ UNCHANGED <<hub, page, busy, confirm, batch, shown, calls>>
ArchivedList(c) ==
  /\ Answered(c) /\ c.kind = "archived" /\ calls' = calls \ {c}
  /\ arch' = IF c.ph = "ok" THEN [arch EXCEPT !.list = c.val] ELSE arch
  /\ UNCHANGED <<hub, page, busy, confirm, batch, shown>>
loadArchivedSessionPreview(i, s) ==
  /\ arch.mode /\ confirm = NoConfirm /\ s \in arch.list /\ ~ Out("read", i) /\ arch' = [arch EXCEPT !.sel = s]
  /\ calls' = calls \union {C("read", i, s)} /\ UNCHANGED <<hub, page, busy, confirm, batch, shown>>
ArchivedPreview(c) ==
  /\ Answered(c) /\ c.kind = "read" /\ calls' = calls \ {c}
  /\ arch' = IF c.ph = "ok" THEN [arch EXCEPT !.preview = c.s] ELSE arch
  /\ UNCHANGED <<hub, page, busy, confirm, batch, shown>>
\* mergeChatSessionList: the answer replaces the list.
WithList(p, list) == [p EXCEPT !.list = list, !.named = hub.named \intersect list]
\* refreshChatProjectSessions: one call at a time; a refresh that is wanted
\* meanwhile marks the one under way, which is then repeated.
Refreshing == Out("refresh", None)
refreshChatProjectSessions ==
  /\ "list" \in Ops
  /\ IF Refreshing THEN page' = [page EXCEPT !.dirty = TRUE] /\ UNCHANGED calls
     ELSE calls' = calls \union {C("refresh", None, None)} /\ UNCHANGED page
  /\ UNCHANGED <<hub, busy, confirm, batch, shown, arch>>
\* The answer to a restore leaves the archived mode and asks for the list;
\* when that is there the session is selected.
Restored(c) ==
  /\ Answered(c) /\ c.kind = "restore"
  /\ \E p \in {[page EXCEPT !.removed = @ \ {c.s}, !.restored = @ \union {c.s}, !.fresh = FALSE]} :
     CASE c.ph = "refused" -> calls' = calls \ {c} /\ busy' = [busy EXCEPT !["restore"] = None] /\ UNCHANGED <<confirm, arch, page>>
       [] c.ph = "ok" /\ Refreshing ->
            /\ calls' = calls \ {c} /\ busy' = [busy EXCEPT !["restore"] = None] /\ confirm' = NoConfirm /\ arch' = NoArchived
            /\ page' = [p EXCEPT !.dirty = TRUE, !.sel = c.s]
       [] OTHER ->
            /\ calls' = (calls \ {c}) \union {C("refresh", None, c.s)} /\ confirm' = NoConfirm /\ arch' = NoArchived /\ page' = p /\ UNCHANGED busy
  /\ UNCHANGED <<hub, batch, shown>>
RefreshAnswer(c) ==
  /\ Answered(c) /\ c.kind = "refresh"
  /\ IF page.dirty THEN calls' = (calls \ {c}) \union {C("refresh", None, c.s)} /\ UNCHANGED busy
     ELSE calls' = calls \ {c} /\ busy' = (IF c.s # None THEN [busy EXCEPT !["restore"] = None] ELSE busy)
  /\ page' = [WithList(page, IF c.ph = "ok" THEN c.val ELSE page.list)
                EXCEPT !.dirty = FALSE, !.fresh = c.ph = "ok", !.sel = IF ~ page.dirty /\ c.s # None THEN c.s ELSE @]
  /\ UNCHANGED <<hub, confirm, batch, shown, arch>>
\* loadChatSessions, after connecting: the list, then a selection when there is none.
loadChatSessions(i) == "reconnect" \in Ops /\ ~ Out("list", i) /\ calls' = calls \union {C("list", i, None)} /\ UNCHANGED <<hub, page, busy, confirm, batch, shown, arch>>
resolveChatListSelection(list) == IF page.sel # None THEN page.sel ELSE IF list = {} THEN None ELSE Ordered(list)[1]
ListAnswer(c) ==
  /\ Answered(c) /\ c.kind = "list" /\ calls' = calls \ {c}
  /\ page' = IF c.ph = "ok" THEN [WithList(page, c.val) EXCEPT !.sel = resolveChatListSelection(c.val)] ELSE page
  /\ UNCHANGED <<hub, busy, confirm, batch, shown, arch>>
-----------------------------------------------------------------------------
\* The hub serves a call, or refuses it.
Serves(c) ==
  CASE c.kind \in {"archive", "batch"} -> c.s \in hub.active \ hub.running
    [] c.kind = "delete" -> c.s \notin hub.running
    [] c.kind = "rename" -> c.s \in hub.active
    [] c.kind = "reload" -> c.s \in hub.active \ hub.running
    [] c.kind = "restore" -> c.s \in hub.archived \ hub.active
    [] c.kind = "read" -> c.s \in hub.archived
    [] OTHER -> TRUE
Effect(c) ==
  CASE c.kind \in {"archive", "batch"} -> [hub EXCEPT !.active = @ \ {c.s}, !.archived = @ \union {c.s}]
    [] c.kind = "delete" -> [hub EXCEPT !.active = @ \ {c.s}]
    [] c.kind = "rename" -> [hub EXCEPT !.named = @ \union {c.s}]
    [] c.kind = "restore" -> [hub EXCEPT !.active = @ \union {c.s}, !.archived = @ \ {c.s}]
    [] OTHER -> hub
Content(c) == CASE c.kind \in {"list", "refresh"} -> hub.active [] c.kind = "archived" -> hub.archived [] OTHER -> {}
Serve(c) ==
  /\ c \in calls /\ c.ph = "sent" /\ Serves(c) /\ hub' = Effect(c)
  /\ calls' = (calls \ {c}) \union {[c EXCEPT !.ph = "ok", !.val = Content(c)]} /\ UNCHANGED <<page, busy, confirm, batch, shown, arch>>
Refuse(c) ==
  /\ c \in calls /\ c.ph = "sent" /\ (MayRefuse \/ ~ Serves(c))
  /\ calls' = (calls \ {c}) \union {[c EXCEPT !.ph = "refused"]} /\ UNCHANGED <<hub, page, busy, confirm, batch, shown, arch>>
\* A session runs or ends somewhere.
Toggle(s) ==
  /\ "other" \in Ops /\ s \in hub.active /\ hub' = [hub EXCEPT !.running = IF s \in @ THEN @ \ {s} ELSE @ \union {s}]
  /\ UNCHANGED <<page, busy, confirm, batch, shown, arch, calls>>

Answer(c) ==
  ArchivedOrDeleted(c) \/ BatchAnswer(c) \/ Renamed(c) \/ Reloaded(c) \/ ArchivedList(c) \/ ArchivedPreview(c) \/ Restored(c) \/ RefreshAnswer(c) \/ ListAnswer(c)
Next ==
  \/ \E s \in Sessions :
       (\E kind \in {"archive", "delete", "restore"} : Request(kind, s)) \/ handleRename(s) \/ handleReload(s) \/ Toggle(s)
         \/ (\E i \in Slots : loadArchivedSessionPreview(i, s))
  \/ (\E d \in Days : requestArchiveOlderSessions(d)) \/ CancelDialog \/ (\E kind \in Kinds : handleSession(kind))
  \/ (\E b \in Batches : handleArchiveBatch(b)) \/ clearArchiveBatchStatus \/ toggleOlderSessionsExpanded
  \/ (\E i \in Slots : enterArchivedMode(i) \/ loadChatSessions(i)) \/ refreshChatProjectSessions \/ exitArchivedMode
  \/ \E c \in calls : Serve(c) \/ Refuse(c) \/ Answer(c)
Spec == Init /\ [][Next]_vars
\* Every call is answered, at the latest by its timeout, and answers are
\* handled.
CallStep(k) == \E c \in calls : c.kind = k /\ (Serve(c) \/ Refuse(c) \/ Answer(c))
Fairness == \A k \in Kinds \union {"refresh"} : WF_vars(CallStep(k))
FairSpec == Spec /\ Fairness
-----------------------------------------------------------------------------
TypeOK ==
  /\ hub \in [active : SUBSET Sessions, archived : SUBSET Sessions, running : SUBSET Sessions, named : SUBSET Sessions]
  /\ page \in [list : SUBSET Sessions, sel : Sessions \union {None}, named : SUBSET Sessions, expanded : BOOLEAN, removed : SUBSET Sessions,
                restored : SUBSET Sessions, dirty : BOOLEAN, fresh : BOOLEAN]
  /\ busy \in [Kinds -> Sessions \union {None}] /\ shown \in Batches \union {None}
  /\ \A k \in Kinds \ {"restore"} : busy[k] # None <=> \E c \in calls : c.kind = k /\ c.s = busy[k]

\* A batch that is over has asked for every candidate: what it counts as
\* archived is not active, the rest is listed as failed.
BatchReports ==
  \A b \in Batches : ~ Running(b) =>
    /\ batch[b].ok \union batch[b].failed = ToSet(batch[b].cands) /\ batch[b].ok \intersect hub.active = {}

\* Folding loses and doubles nothing, hides older sessions only, and hides
\* none while fewer than MinShown are shown.
FoldKeepsAll ==
  /\ ToSet(Fold.visible) \union ToSet(Fold.hidden) = page.list /\ Len(Fold.visible) + Len(Fold.hidden) = Cardinality(page.list)
  /\ \A s \in ToSet(Fold.hidden) : Age[s] > FoldDays
  /\ Fold.hidden # <<>> => Len(Fold.visible) >= MinShown

\* A session whose restore was answered is in the list once the refreshes
\* are over, also when the restore came while one was under way.
RestoredIsListed ==
  ~ Refreshing /\ page.fresh =>
    \A s \in page.restored \intersect hub.active : s \in page.list \/ (\E c \in calls : c.s = s /\ c.kind \in {"archive", "restore"})

\* A session that the page has removed is gone from its list until it is
\* restored, whatever the order of the answers.
\* Not kept by the code: see the README.
RemovedStaysRemoved == page.removed \intersect page.list = {}

\* At most one batch runs.
\* Not kept by the code: see the README.
OneBatch == \A a, b \in Batches : Running(a) /\ Running(b) => a = b

\* The preview in the archived mode is that of the selected row.
\* Not kept by the code: see the README.
PreviewIsSelected == arch.mode /\ arch.preview # None => arch.preview = arch.sel

\* Outside the archived mode nothing of it is left.
\* Not kept by the code: see the README.
CancelClears == ~ arch.mode => arch = NoArchived

=============================================================================
