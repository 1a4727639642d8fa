----------------------------- MODULE FileSearch -----------------------------
(***************************************************************************)
(* The three boxes that search the file index of a project: the mention    *)
(* menu of the composer (@), the search of the preview's file tree and the *)
(* quick open dialog.  Each has a timer that delays its call and a         *)
(* generation that marks the answers it still wants; a generation never    *)
(* comes back, so a timer or a call only says whether its generation is    *)
(* the current one (live).                                                 *)
(***************************************************************************)
EXTENDS Naturals, Sequences, SequencesExt

CONSTANTS Projects, Queries, \* queries that are not empty
          Boxes,             \* the boxes that are used
          MaxResults, MaxCalls \* bounds on files of an answer and on calls under way
FileSearchConstants == "" \notin Projects \cup Queries /\ Boxes \subseteq {"mention", "tree", "quick"} /\ {MaxResults, MaxCalls} \subseteq Nat

VARIABLES project,      \* of the selected chat and, by the effect, of the preview; "" for none
          quickProject, \* quickFileProjectId
          open,         \* the box is on the screen
          box,          \* query, results and flags of each box
          timer,        \* the pending timer of each box
          calls,        \* searchFileIndex calls under way
          taken         \* the file that was taken last, where to, and whether it was shown
vars == <<project, quickProject, open, box, timer, calls, taken>>

NoTimer == [set |-> FALSE, project |-> "", query |-> "", live |-> FALSE]
None == [box |-> "", file |-> [project |-> "", query |-> "", n |-> 0], to |-> "", shown |-> TRUE]
Clean == [query |-> "", res |-> <<>>, loading |-> FALSE, err |-> FALSE, indexed |-> TRUE, active |-> 0, folded |-> FALSE]
Init ==
  /\ project = "" /\ quickProject = "" /\ open = [b \in Boxes |-> FALSE]
  /\ box = [b \in Boxes |-> Clean] /\ timer = [b \in Boxes |-> NoTimer]
  /\ calls = {} /\ taken = None
-----------------------------------------------------------------------------
\* The generation goes up: no call and no timer of the box is live any more.
Outdated(b) == {IF c.box = b THEN [c EXCEPT !.live = FALSE] ELSE c : c \in calls}
NotLive(t) == [t EXCEPT !.live = FALSE]
\* The files of the tree's second directory are hidden while it is folded.
Visible(b) == SelectSeq(box[b].res, LAMBDA f : ~ (box[b].folded /\ f.n = 2))
Shown(b) == open[b] /\ ~ box[b].loading /\ ~ box[b].err /\ box[b].indexed /\ (b = "tree" => box[b].query # "")

reset(b) ==
  /\ box' = [box EXCEPT ![b] = Clean] /\ timer' = [timer EXCEPT ![b] = NoTimer] /\ calls' = Outdated(b)
\* The query is shown at once, the call is made when the timer ends.
Later(b, p, q) ==
  /\ box' = [box EXCEPT ![b] = [@ EXCEPT !.query = q, !.loading = TRUE, !.folded = FALSE]]
  /\ timer' = [timer EXCEPT ![b] = [set |-> TRUE, project |-> p, query |-> q, live |-> TRUE]]
  /\ calls' = Outdated(b)
-----------------------------------------------------------------------------
\* The mention menu.  NoMention: the text before the cursor has no @ token.
NoMention == [mention |-> FALSE, query |-> ""]
Mention(q) == [mention |-> TRUE, query |-> q]
resetChatFileMentionSearchSession == reset("mention")
scheduleChatFileMentionSearch(mq) ==
  /\ open' = [open EXCEPT !["mention"] = mq.mention]
  /\ IF mq.mention THEN Later("mention", "", mq.query) ELSE resetChatFileMentionSearchSession
  /\ UNCHANGED <<project, quickProject, taken>>
TypeMention == \E mq \in {Mention(q) : q \in Queries \cup {""}} \cup {NoMention} : scheduleChatFileMentionSearch(mq)
\* The button adds an @, or goes on with the query that is there.
openChatFileMentionShortcut == ~ open["mention"] /\ \E q \in Queries \cup {""} : scheduleChatFileMentionSearch(Mention(q))
\* A press elsewhere, the other menus and the voice button only hide the menu.
HideMention == open["mention"] /\ open' = [open EXCEPT !["mention"] = FALSE] /\ UNCHANGED <<project, quickProject, box, timer, calls, taken>>
EscapeMention ==
  /\ open["mention"] /\ open' = [open EXCEPT !["mention"] = FALSE] /\ resetChatFileMentionSearchSession
  /\ UNCHANGED <<project, quickProject, taken>>
\* Enter and Tab take the active result whether or not it is on the screen.
Active(b) == box[b].active < Len(Visible(b))
Take(b, f, p) == taken' = [box |-> b, file |-> f, to |-> p, shown |-> Shown(b)]
applyChatFileMentionResult ==
  /\ open["mention"] /\ Active("mention") /\ Take("mention", Visible("mention")[box["mention"].active + 1], project)
  /\ open' = [open EXCEPT !["mention"] = FALSE] /\ resetChatFileMentionSearchSession
  /\ UNCHANGED <<project, quickProject>>
-----------------------------------------------------------------------------
\* The search of the file tree.
OpenTree == ~ open["tree"] /\ open' = [open EXCEPT !["tree"] = TRUE] /\ UNCHANGED <<project, quickProject, box, timer, calls, taken>>
resetPreviewFileTreeSearchSession ==
  /\ open["tree"] /\ open' = [open EXCEPT !["tree"] = FALSE] /\ reset("tree")
  /\ UNCHANGED <<project, quickProject, taken>>
schedulePreviewFileTreeSearch(q) ==
  /\ open["tree"] /\ UNCHANGED <<project, quickProject, open, taken>>
  /\ \/ q = "" /\ reset("tree")
     \/ q # "" /\ project # "" /\ Later("tree", project, q)
     \* Without a project the generation stays.
     \/ /\ q # "" /\ project = "" /\ box' = [box EXCEPT !["tree"] = [Clean EXCEPT !.query = q, !.err = TRUE]]
        /\ timer' = [timer EXCEPT !["tree"] = NoTimer] /\ UNCHANGED calls
TypeTree == \E q \in Queries \cup {""} : schedulePreviewFileTreeSearch(q)
togglePreviewFileTreeSearchDirectory ==
  /\ Shown("tree") /\ \E i \in DOMAIN box["tree"].res : box["tree"].res[i].n = 2
  /\ box' = [box EXCEPT !["tree"].folded = ~ @] /\ UNCHANGED <<project, quickProject, open, timer, calls, taken>>
openPreviewFileTreeSearchResult ==
  /\ open["tree"] /\ Active("tree") /\ project # "" /\ Take("tree", Visible("tree")[box["tree"].active + 1], project)
  /\ UNCHANGED <<project, quickProject, open, box, timer, calls>>
\* The chat of another project is selected: the preview follows, the search
\* of the tree starts anew, its timer goes on.
TreeFollows ==
  IF "tree" \in Boxes
  THEN box' = [box EXCEPT !["tree"] = Clean] /\ timer' = [timer EXCEPT !["tree"] = NotLive(@)] /\ calls' = Outdated("tree")
  ELSE UNCHANGED <<box, timer, calls>>
SelectChat(p) == p # project /\ project' = p /\ TreeFollows /\ UNCHANGED <<quickProject, open, taken>>
-----------------------------------------------------------------------------
\* The quick open dialog, for the project that was selected when it opened.
openQuickFileSearch ==
  /\ ~ open["quick"] /\ quickProject' = project
  /\ open' = [b \in Boxes |-> IF b = "quick" THEN TRUE ELSE IF b = "mention" THEN FALSE ELSE open[b]]
  /\ calls' = Outdated("quick")
  /\ IF project # ""
     THEN /\ box' = [box EXCEPT !["quick"] = [Clean EXCEPT !.loading = TRUE]]
          /\ timer' = [timer EXCEPT !["quick"] = [set |-> TRUE, project |-> project, query |-> "", live |-> TRUE]]
     ELSE box' = [box EXCEPT !["quick"] = [Clean EXCEPT !.err = TRUE]] /\ timer' = [timer EXCEPT !["quick"] = NoTimer]
  /\ UNCHANGED <<project, taken>>
TypeQuick ==
  /\ open["quick"]
  /\ \E q \in Queries \cup {""} :
       IF quickProject # "" THEN Later("quick", quickProject, q)
       ELSE box' = [box EXCEPT !["quick"].query = q, !["quick"].err = TRUE] /\ UNCHANGED <<timer, calls>>
  /\ UNCHANGED <<project, quickProject, open, taken>>
closeQuickFileSearch ==
  /\ open["quick"] /\ open' = [open EXCEPT !["quick"] = FALSE] /\ reset("quick")
  /\ UNCHANGED <<project, quickProject, taken>>
openQuickFileResult ==
  /\ open["quick"] /\ Active("quick") /\ quickProject # "" /\ Take("quick", Visible("quick")[box["quick"].active + 1], quickProject)
  /\ open' = [open EXCEPT !["quick"] = FALSE] /\ reset("quick") /\ UNCHANGED <<project, quickProject>>
-----------------------------------------------------------------------------
\* Arrow keys and the mouse move the active index over what is visible.
Move(b) ==
  /\ open[b] /\ \E i \in 0..MaxResults : (i < Len(Visible(b)) \/ i = 0) /\ i # box[b].active /\ box' = [box EXCEPT ![b].active = i]
  /\ UNCHANGED <<project, quickProject, open, timer, calls, taken>>
\* The timer ends and the call is made.  The mention menu asks for the
\* project of the chat that is selected by now.
Run(b, p) ==
  /\ timer[b].set /\ timer' = [timer EXCEPT ![b] = NoTimer]
  /\ \/ /\ p = "" /\ box' = [box EXCEPT ![b].err = TRUE, ![b].loading = FALSE] /\ UNCHANGED calls
     \/ /\ p # "" /\ box' = [box EXCEPT ![b].err = FALSE, ![b].loading = TRUE]
        /\ \E c \in {[box |-> b, project |-> p, query |-> timer[b].query, live |-> timer[b].live]} : calls' = calls \cup {c}
  /\ UNCHANGED <<project, quickProject, open, taken>>
runChatFileMentionSearch == Run("mention", project)
runPreviewFileTreeSearch == Run("tree", timer["tree"].project)
runQuickFileSearch == Run("quick", timer["quick"].project)
Files(c, n) == [i \in 1..n |-> [project |-> c.project, query |-> c.query, n |-> i]]
IfLive(c, b) == IF c.live THEN box' = [box EXCEPT ![c.box] = b] ELSE UNCHANGED box
\* An answer of the index: some files, or no index, with or without an error.
Answer(c) ==
  /\ \E n \in 0..MaxResults : \E ix \in BOOLEAN : \E e \in BOOLEAN :
       /\ ix => ~ e
       /\ ~ ix => n = 0
       /\ IfLive(c, [box[c.box] EXCEPT !.res = Files(c, n), !.indexed = ix, !.err = e, !.active = 0, !.loading = FALSE])
  /\ calls' = calls \ {c} /\ UNCHANGED <<project, quickProject, open, timer, taken>>
Failure(c) ==
  /\ IfLive(c, [box[c.box] EXCEPT !.res = <<>>, !.indexed = TRUE, !.err = TRUE, !.loading = FALSE])
  /\ calls' = calls \ {c} /\ UNCHANGED <<project, quickProject, open, timer, taken>>
-----------------------------------------------------------------------------
Room == \A b \in Boxes : Len(SelectSeq(SetToSeq(calls), LAMBDA c : c.box = b)) < MaxCalls
MentionStep == "mention" \in Boxes /\ (TypeMention \/ openChatFileMentionShortcut \/ HideMention \/ EscapeMention \/ applyChatFileMentionResult \/ (Room /\ runChatFileMentionSearch))
TreeStep == "tree" \in Boxes /\ (OpenTree \/ resetPreviewFileTreeSearchSession \/ TypeTree \/ togglePreviewFileTreeSearchDirectory \/ openPreviewFileTreeSearchResult \/ (Room /\ runPreviewFileTreeSearch))
QuickStep == "quick" \in Boxes /\ (openQuickFileSearch \/ TypeQuick \/ closeQuickFileSearch \/ openQuickFileResult \/ (Room /\ runQuickFileSearch))
Next ==
  \/ MentionStep \/ TreeStep \/ QuickStep
  \/ \E p \in Projects : SelectChat(p)
  \/ \E b \in Boxes : Move(b)
  \/ \E c \in calls : Answer(c) \/ Failure(c)
Spec == Init /\ [][Next]_vars
\* Timers end and every call is answered, or rejected by its timeout.
TimerEnds(b) == IF b = "mention" THEN runChatFileMentionSearch ELSE IF b = "tree" THEN runPreviewFileTreeSearch ELSE runQuickFileSearch
Fairness == \A b \in Boxes : /\ WF_vars(Room /\ TimerEnds(b))
                         /\ \A p \in Projects : \A q \in Queries \cup {""} : WF_vars((\E c \in calls : c.box = b /\ c.project = p /\ c.query = q /\ (Answer(c) \/ Failure(c))))
FairSpec == Spec /\ Fairness
-----------------------------------------------------------------------------
CallsT == [box : Boxes, project : Projects, query : Queries \cup {""}, live : BOOLEAN]
TypeOK ==
  /\ {project, quickProject} \subseteq Projects \cup {""} /\ open \in [Boxes -> BOOLEAN] /\ calls \subseteq CallsT
  /\ \A b \in Boxes : box[b].query \in Queries \cup {""} /\ Len(box[b].res) <= MaxResults /\ box[b].active \in 0..MaxResults
  /\ \A b \in Boxes : Len(SelectSeq(SetToSeq(calls), LAMBDA c : c.box = b /\ c.live)) <= 1
\* The results on the screen are those of the query in the box, and of the
\* project in which they would be opened.
ShownAnswersQuery == \A b \in Boxes : Shown(b) => \A i \in DOMAIN box[b].res :
  box[b].res[i].query = box[b].query /\ (b = "tree" => box[b].res[i].project = project) /\ (b = "quick" => box[b].res[i].project = quickProject)
\* Every file that is taken out of a box is opened in, or mentioned to, the
\* project it was found in.
TakenInOwnProject == taken.file.project = taken.to
\* For the mention menu that is lost only when the chat of another project is
\* selected while the menu has results or a call.
OwnMention ==
  /\ \A i \in DOMAIN box["mention"].res : box["mention"].res[i].project = project
  /\ \A c \in calls : c.box = "mention" /\ c.live => c.project = project
  /\ taken.box = "mention" => TakenInOwnProject
MixedStep == OwnMention /\ ~ OwnMention' => project' # project
\* A file that is taken was on the screen.
\* Not kept by the code: see the README.
TakenWasShown == taken.shown
Searching(b) == open[b] /\ box[b].loading /\ (b = "tree" => box[b].query # "")
Typing == \E b \in Boxes : timer'[b].set /\ timer'[b].live /\ box'[b].loading
\* Once the user stops typing, the sign that a search goes on does not stay
\* for ever.
LoadingEnds == <>[][~ Typing]_vars => \A b \in Boxes : Searching(b) ~> ~ Searching(b)
=============================================================================
