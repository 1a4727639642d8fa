-------------------------- MODULE PreviewWorkbench --------------------------
(***************************************************************************)
(* The preview pane of the web client: previewWorkbenchState (tabs per     *)
(* project, the active one, the rendered ones, the snapshot that survives  *)
(* a page reload) and the loads of WorkspaceApp that fill the tabs.        *)
(*                                                                         *)
(* A load belongs to a tab by its request number.  Opening a tab again,    *)
(* closing it, aborting its load and reloading the page happen while       *)
(* answers are on their way, and an aborted read may already have its      *)
(* answer.  What a tab shows is represented by the number of the request   *)
(* that delivered it.                                                      *)
(***************************************************************************)
EXTENDS Integers, Sequences, SequencesExt, FiniteSets

CONSTANTS Projects, TabIds,
          Kind,         \* TabIds -> {"file", "diff", "image", "inline", "text", "relay"}
          MaxLoads, MaxReloads   \* bounds

BoundsAreNatural == MaxLoads \in Nat /\ MaxReloads \in Nat
KindsOfTabs == Kind \in [TabIds -> {"file", "diff", "image", "inline", "text", "relay"}]

None == "none"
Inline == -1            \* an image that came inside the message

VARIABLES
  wb,          \* PreviewWorkbenchState
  saved,       \* previewWorkbenchSnapshot of the global state
  seq,         \* the three request counters
  loads,       \* reads in flight
  connected,
  click,       \* what became of the last click on a tab's link (ghost)
  used         \* reads and page reloads so far

vars == <<wb, saved, seq, loads, connected, click, used>>

Counters == {"peek", "artifact", "attachment"}
Counter(id) == CASE Kind[id] = "file" -> "peek" [] Kind[id] = "diff" -> "artifact" [] OTHER -> "attachment"
Attachments == {id \in TabIds : Kind[id] \in {"image", "inline", "text"}}

NewTab(id) == [id |-> id, loading |-> FALSE, err |-> FALSE, req |-> 0, body |-> 0]
EmptyWb == [active |-> None, tabs |-> [p \in Projects |-> << >>], act |-> [p \in Projects |-> None],
            rendered |-> [p \in Projects |-> {}], treeOpen |-> FALSE]
Ids(w, p) == {w.tabs[p][i].id : i \in DOMAIN w.tabs[p]}
Index(w, p, id) == CHOOSE i \in DOMAIN w.tabs[p] : w.tabs[p][i].id = id
Tab(w, p, id) == w.tabs[p][Index(w, p, id)]
-----------------------------------------------------------------------------
(* previewWorkbenchState.ts *)

selectPreviewProject(w, p) == [w EXCEPT !.active = p]

\* The active project stays when it is visible, else the preferred or the first visible one.
ensurePreviewProjectVisible(w, visible, preferred) ==
  IF w.active \in visible THEN w
  ELSE IF preferred \in visible THEN selectPreviewProject(w, preferred)
  ELSE IF visible # {} THEN selectPreviewProject(w, CHOOSE p \in visible : TRUE) ELSE w

updatePreviewTab(w, p, id, t) == IF id \in Ids(w, p) THEN [w EXCEPT !.tabs[p][Index(w, p, id)] = t] ELSE w

\* mergeTab: what opening an existing tab keeps and replaces.
mergeTab(t) ==
  CASE Kind[t.id] = "inline" -> [t EXCEPT !.body = Inline]
    [] Kind[t.id] \in {"image", "diff"} -> [t EXCEPT !.body = 0]
    [] OTHER -> t
createTab(id) == IF Kind[id] = "inline" THEN [NewTab(id) EXCEPT !.body = Inline] ELSE NewTab(id)

openPreviewTab(w, p, id) ==
  [selectPreviewProject(w, p) EXCEPT
     !.tabs[p] = IF id \in Ids(w, p) THEN [@ EXCEPT ![Index(w, p, id)] = mergeTab(@)] ELSE Append(@, createTab(id)),
     !.act[p] = id, !.rendered[p] = @ \union {id}]

selectPreviewTab(w, p, id) ==
  IF id \in Ids(w, p) THEN [w EXCEPT !.act[p] = id, !.rendered[p] = @ \union {id}] ELSE w

beginPreviewTabLoad(w, p, id, n) ==
  updatePreviewTab(w, p, id, IF id \in Ids(w, p) THEN [Tab(w, p, id) EXCEPT !.loading = TRUE, !.err = FALSE, !.req = n] ELSE NewTab(id))

AfterAnyLoad(w, p, id, n, t) == updatePreviewTab(w, p, id, t)
\* An answer counts only for the request the tab waits for.
updatePreviewTabAfterLoad(w, p, id, n, t) ==
  IF id \in Ids(w, p) /\ Tab(w, p, id).req = n THEN updatePreviewTab(w, p, id, t) ELSE w

Loaded(w, p, id, n) ==
  IF id \notin Ids(w, p) THEN w
  ELSE updatePreviewTabAfterLoad(w, p, id, n, [Tab(w, p, id) EXCEPT !.body = n, !.loading = FALSE, !.err = FALSE])

\* clear: readChatFilePeek also empties the content.
failPreviewTabLoad(w, p, id, n, clear) ==
  IF id \notin Ids(w, p) THEN w
  ELSE updatePreviewTabAfterLoad(w, p, id, n,
         [Tab(w, p, id) EXCEPT !.loading = FALSE, !.err = TRUE, !.body = IF clear THEN 0 ELSE @])

\* The neighbour at the same position, or the last one, becomes active.
closePreviewTab(w, p, id) ==
  IF id \notin Ids(w, p) THEN w
  ELSE LET i == Index(w, p, id)
           rest == SelectSeq(w.tabs[p], LAMBDA t : t.id # id)
           next == IF w.act[p] # id THEN w.act[p]
                   ELSE IF rest = << >> THEN None ELSE rest[IF i <= Len(rest) THEN i ELSE Len(rest)].id
       IN  [w EXCEPT !.tabs[p] = rest, !.act[p] = next,
                     !.rendered[p] = (@ \ {id}) \union ({next} \ {None})]

cyclePreviewTabId(w, p, d) ==
  LET n == Len(w.tabs[p])
      i == IF w.act[p] \in Ids(w, p) THEN Index(w, p, w.act[p]) ELSE 1
  IN  w.tabs[p][((i - 1 + d + n) % n) + 1].id

activePreviewTab(w) == IF w.active # None /\ w.act[w.active] \in Ids(w, w.active) THEN w.act[w.active] ELSE None
previewRenderedTabs(w) ==
  IF w.active = None THEN {} ELSE Ids(w, w.active) \intersect (w.rendered[w.active] \union {w.act[w.active]})

\* The snapshot keeps which tabs there are and none of what they show.
previewWorkbenchSnapshotFromState(w) ==
  [w EXCEPT !.tabs = [p \in Projects |-> [i \in DOMAIN w.tabs[p] |-> NewTab(w.tabs[p][i].id)]]]

previewWorkbenchStateFromSnapshot(s) ==
  LET withTabs == {p \in Projects : s.tabs[p] # << >>}
  IN  [s EXCEPT !.act = [p \in Projects |-> IF s.act[p] \in Ids(s, p) THEN s.act[p] ELSE None],
                !.rendered = [p \in Projects |-> s.rendered[p] \intersect Ids(s, p)],
                !.active = IF @ \in withTabs THEN @ ELSE IF withTabs # {} THEN CHOOSE p \in withTabs : TRUE ELSE None]
-----------------------------------------------------------------------------
(* WorkspaceApp.  Every change of the state is followed by the effect that *)
(* stores the snapshot.                                                    *)

Init ==
  /\ wb = EmptyWb /\ saved = EmptyWb /\ seq = [c \in Counters |-> 0] /\ loads = {} /\ connected = TRUE
  /\ click = [p \in Projects |-> [id \in TabIds |-> None]] /\ used = [load |-> 0, reload |-> 0]

SetWb(w) == wb' = w /\ saved' = previewWorkbenchSnapshotFromState(w)
NextSeq(id) == seq[Counter(id)] + 1
Bump(id) == seq' = [seq EXCEPT ![Counter(id)] = @ + 1]
NewLoad(p, id, by) == [p |-> p, id |-> id, n |-> NextSeq(id), by |-> by, aborted |-> FALSE]
\* previewFileLoadControllersRef: a file has one live controller.
AbortFile(p, id) == {IF l.p = p /\ l.id = id /\ Kind[id] = "file" THEN [l EXCEPT !.aborted = TRUE] ELSE l : l \in loads}
SpendLoad == used.load < MaxLoads /\ used' = [used EXCEPT !.load = @ + 1]

\* readChatFilePeek and openPromptArtifactDiff: open the tab and begin its load.
OpenAndLoad(p, id) ==
  /\ Kind[id] \in {"file", "diff"} /\ SpendLoad
  /\ SetWb(beginPreviewTabLoad(openPreviewTab(wb, p, id), p, id, NextSeq(id)))
  /\ Bump(id) /\ loads' = AbortFile(p, id) \union {NewLoad(p, id, "open")}
  /\ click' = [click EXCEPT ![p][id] = "pending"]
  /\ UNCHANGED connected

\* openChatAttachmentPreview: only an image's tab is told of the read.
openChatAttachmentPreview(p, id) ==
  /\ id \in Attachments
  /\ SetWb(IF Kind[id] = "image" THEN beginPreviewTabLoad(openPreviewTab(wb, p, id), p, id, NextSeq(id))
           ELSE openPreviewTab(wb, p, id))
  /\ Bump(id)
  /\ SpendLoad
  /\ loads' = IF Kind[id] = "inline" THEN loads ELSE loads \union {NewLoad(p, id, "open")}
  /\ click' = [click EXCEPT ![p][id] = IF Kind[id] = "inline" THEN "ok" ELSE "pending"]
  /\ UNCHANGED connected

\* openPortRelayFrameInPreview: a tab with a URL, nothing to load.
OpenRelay(p, id) ==
  /\ Kind[id] = "relay" /\ SetWb(openPreviewTab(wb, p, id))
  /\ UNCHANGED <<seq, loads, connected, click, used>>

\* loadRestoredPreviewTab, run by the effect on the active tab after every
\* change: a tab that shows nothing and was never loaded.
NeedsRestore(w) ==
  LET id == activePreviewTab(w) IN
  /\ connected /\ id # None /\ Kind[id] \notin {"relay", "inline"}
  /\ LET t == Tab(w, w.active, id) IN ~ t.loading /\ t.body = 0 /\ t.req = 0
loadRestoredPreviewTab ==
  /\ NeedsRestore(wb) /\ SpendLoad
  /\ LET id == activePreviewTab(wb) p == wb.active IN
       /\ SetWb(beginPreviewTabLoad(wb, p, id, NextSeq(id)))
       /\ Bump(id) /\ loads' = AbortFile(p, id) \union {NewLoad(p, id, "restore")}
  /\ UNCHANGED <<connected, click>>

\* A ghost: the answer of the last click.
Clicked(l, how) == IF l.by = "open" /\ \A m \in loads : m.p = l.p /\ m.id = l.id /\ m.by = "open" => m.n <= l.n
                   THEN [click EXCEPT ![l.p][l.id] = IF @ = "pending" THEN how ELSE @] ELSE click

Answer(l) ==
  /\ l \in loads /\ loads' = loads \ {l}
  /\ SetWb(Loaded(wb, l.p, l.id, l.n)) /\ click' = Clicked(l, "ok")
  /\ UNCHANGED <<seq, connected, used>>

\* The read fails, is too large or is declined: the tab says so.
Fails(l) ==
  /\ l \in loads /\ ~ l.aborted /\ loads' = loads \ {l}
  /\ SetWb(failPreviewTabLoad(wb, l.p, l.id, l.n, Kind[l.id] = "file" /\ l.by = "open")) /\ click' = Clicked(l, "failed")
  /\ UNCHANGED <<seq, connected, used>>

AbortTakesEffect(l) ==
  /\ l \in loads /\ l.aborted /\ loads' = loads \ {l} /\ click' = Clicked(l, "failed")
  /\ UNCHANGED <<wb, saved, seq, connected, used>>
-----------------------------------------------------------------------------
\* closeWorkbenchTab
closeWorkbenchTab(p, id) ==
  /\ p = wb.active /\ id \in Ids(wb, p)
  /\ SetWb(closePreviewTab(wb, p, id)) /\ loads' = AbortFile(p, id)
  /\ click' = [click EXCEPT ![p][id] = None]
  /\ UNCHANGED <<seq, connected, used>>

\* The close buttons and the back button close the active tab of their kind;
\* the counter moves on and the read is left to end.
closeActivePreview ==
  /\ activePreviewTab(wb) # None /\ Kind[activePreviewTab(wb)] # "file"
  /\ LET id == activePreviewTab(wb) IN
       /\ SetWb(closePreviewTab(wb, wb.active, id))
       /\ seq' = [seq EXCEPT ![Counter(id)] = IF Kind[id] = "relay" \/ @ >= 2 * MaxLoads THEN @ ELSE @ + 1]
       /\ click' = [click EXCEPT ![wb.active][id] = None]
  /\ UNCHANGED <<loads, connected, used>>

selectWorkbenchTab(id) ==
  /\ wb.active # None /\ id \in Ids(wb, wb.active) /\ SetWb(selectPreviewTab(wb, wb.active, id))
  /\ UNCHANGED <<seq, loads, connected, click, used>>

CycleTab(d) ==
  /\ wb.active # None /\ wb.tabs[wb.active] # << >>
  /\ SetWb(selectPreviewTab(wb, wb.active, cyclePreviewTabId(wb, wb.active, d)))
  /\ UNCHANGED <<seq, loads, connected, click, used>>

toggleChatFilePreviewTree ==
  /\ SetWb([wb EXCEPT !.treeOpen = ~ @]) /\ UNCHANGED <<seq, loads, connected, click, used>>

\* The selected chat decides the project of the pane; a project that is no
\* longer visible gives way to another.
FollowChat(p) ==
  /\ p # wb.active /\ SetWb(selectPreviewProject(wb, p)) /\ UNCHANGED <<seq, loads, connected, click, used>>
ProjectHidden(visible, p) ==
  /\ SetWb(ensurePreviewProjectVisible(wb, visible, p)) /\ UNCHANGED <<seq, loads, connected, click, used>>

\* The connection closes (the reads on it fail one by one) or comes back.
Disconnect ==
  /\ connected /\ connected' = FALSE /\ UNCHANGED <<wb, saved, seq, loads, click, used>>
Reconnect ==
  /\ ~ connected /\ connected' = TRUE /\ UNCHANGED <<wb, saved, seq, loads, click, used>>

PageReload ==
  /\ used.reload < MaxReloads /\ used' = [used EXCEPT !.reload = @ + 1]
  /\ SetWb(previewWorkbenchStateFromSnapshot(saved))
  /\ seq' = [c \in Counters |-> 0] /\ loads' = {}
  /\ click' = [p \in Projects |-> [id \in TabIds |-> None]]
  /\ UNCHANGED connected

User ==
  \/ \E p \in Projects, id \in TabIds :
       OpenAndLoad(p, id) \/ openChatAttachmentPreview(p, id) \/ OpenRelay(p, id) \/ closeWorkbenchTab(p, id)
  \/ closeActivePreview \/ (\E id \in TabIds : selectWorkbenchTab(id)) \/ (\E d \in {1, -1} : CycleTab(d))
  \/ toggleChatFilePreviewTree \/ (\E p \in Projects : FollowChat(p))
  \/ (\E v \in SUBSET Projects, p \in Projects : ProjectHidden(v, p)) \/ Disconnect \/ Reconnect \/ PageReload
Settles == \E l \in loads : Answer(l) \/ Fails(l) \/ AbortTakesEffect(l)
Next == User \/ loadRestoredPreviewTab \/ Settles
Spec == Init /\ [][Next]_vars

\* Every read ends (answer, timeout or abort) and effects run after a render.
Fairness == WF_vars(loadRestoredPreviewTab) /\ WF_vars(Settles)
FairSpec == Spec /\ Fairness
-----------------------------------------------------------------------------
TabType == [id : TabIds, loading : BOOLEAN, err : BOOLEAN, req : Nat, body : Nat \union {Inline}]
\* The shape of the state; a project never has two tabs for one resource.
TypeOK ==
  /\ wb.active \in Projects \union {None} /\ wb.treeOpen \in BOOLEAN
  /\ \A p \in Projects :
       /\ \A i \in DOMAIN wb.tabs[p] : wb.tabs[p][i] \in TabType
       /\ \A i, j \in DOMAIN wb.tabs[p] : wb.tabs[p][i].id = wb.tabs[p][j].id => i = j

\* The active tab of every project is one of its tabs, there is one whenever
\* the project has tabs that were opened, and every tab kept mounted exists:
\* closing, restoring a snapshot and switching projects agree on it.
PaneIsConsistent ==
  \A p \in Projects :
    /\ wb.act[p] \in Ids(wb, p) \union {None}
    /\ wb.tabs[p] # << >> => wb.act[p] # None
    /\ wb.rendered[p] \subseteq Ids(wb, p)
    /\ wb.act[p] # None => wb.act[p] \in wb.rendered[p]

\* A tab that spins has a read under way that will end it: no abort, close,
\* second opening or reload leaves a tab loading for ever.
SpinnerHasRead ==
  \A p \in Projects : \A i \in DOMAIN wb.tabs[p] :
    LET t == wb.tabs[p][i] IN
    t.loading => \E l \in loads : l.p = p /\ l.id = t.id /\ l.n = t.req /\ ~ l.aborted

\* A tab at rest shows what its last request brought, or nothing; a read that
\* was overtaken never replaces it.
ShowsLastRequest ==
  \A p \in Projects : \A i \in DOMAIN wb.tabs[p] :
    LET t == wb.tabs[p][i] IN ~ t.loading => t.body \in {0, Inline, t.req}

\* The tab on screen shows something or an error, as far as the loads reach.
ActiveShown ==
  LET id == activePreviewTab(wb) IN
  id = None \/ ~ connected \/ Kind[id] = "relay" \/ used.load = MaxLoads \/
  (LET t == Tab(wb, wb.active, id) IN ~ t.loading /\ (t.body # 0 \/ t.err))
\* The tab on screen ends up showing something or an error.
ActiveTabFills == []<>ActiveShown

\* After a click whose read succeeded the tab shows the resource.
ClickIsShown ==
  \A p \in Projects, id \in TabIds :
    click[p][id] = "ok" /\ id \in Ids(wb, p) =>
      LET t == Tab(wb, p, id) IN t.loading \/ (t.body # 0 /\ ~ t.err)
=============================================================================
