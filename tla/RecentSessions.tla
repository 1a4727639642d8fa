--------------------------- MODULE RecentSessions ---------------------------
(***************************************************************************)
(* The sessions of all projects at a glance: the recent list, computed     *)
(* anew by two effects when session lists change, and the quick-switch     *)
(* menu, computed when it is shown.  Both take the best sessions of the    *)
(* visible projects: running or counted as unread first, then the newest, and    *)
(* group them by project.  A session without a time has time 0.            *)
(***************************************************************************)
EXTENDS Naturals, Sequences, SequencesExt, FiniteSets

CONSTANTS Order,    \* projects in the order of the sidebar
          Sessions, \* sessions of each project
          Times,    \* values of updatedAt
          Counts,   \* values of unreadCount; the hub sends none, which is read as 0
          Limit, MenuLimit,
          MaxChanges, \* bound on changes of the lists
          Hiding    \* the user may hide a project
RecentSessionsConstants == {Limit, MenuLimit, MaxChanges} \subseteq Nat /\ Times \cup Counts \subseteq Nat /\ Hiding \in BOOLEAN

VARIABLES lists,   \* session list of each project that has one
          loaded,  \* projects with a list
          hidden,  \* projects the user hides
          tick,    \* the recent list is to be computed anew
          recents, \* sections of the recent list
          changes
vars == <<lists, loaded, hidden, tick, recents, changes>>

Projects == Range(Order)
Summaries(p) == [id : Sessions[p], at : Times, count : Counts, busy : BOOLEAN, done : {0, 1}, read : {0, 1}]
Shown(hs) == SelectSeq(Order, LAMBDA p : p \notin hs)
Visible == Shown(hidden)
Loaded(vs, ld) == vs # <<>> /\ Range(vs) \subseteq ld
AllLoaded == Loaded(Visible, loaded)
Init == lists = [p \in Projects |-> <<>>] /\ loaded = {} /\ hidden = {} /\ tick = FALSE /\ recents = <<>> /\ changes = 0
-----------------------------------------------------------------------------
\* Newest first; equal times keep their order.
SortedBy(xs, Before(_, _)) == LET ix == SetToSortSeq(DOMAIN xs, LAMBDA i, j : Before(xs[i], xs[j]) \/ (~ Before(xs[j], xs[i]) /\ i < j)) IN [k \in DOMAIN ix |-> xs[ix[k]]]
compareUpdatedAtDesc(a, b) == a.at > b.at
sortChatSessions(xs) == SortedBy(xs, compareUpdatedAtDesc)
Unread(s) == s.done > s.read
isPriorityQuickSwitchSession(s) == s.count > 0 \/ s.busy
hasCompletedUnreadChatSession == \E p \in Range(Visible) : \E s \in Range(lists[p]) : ~ s.busy /\ Unread(s)
\* One candidate for each session, in the order of projects and lists.
buildQuickSwitchCandidates == FlattenSeq([i \in DOMAIN Visible |-> [k \in DOMAIN lists[Visible[i]] |-> [p |-> Visible[i], s |-> lists[Visible[i]][k]]]])
compareQuickSwitchCandidates(a, b) ==
  IF isPriorityQuickSwitchSession(a.s) # isPriorityQuickSwitchSession(b.s) THEN isPriorityQuickSwitchSession(a.s) ELSE compareUpdatedAtDesc(a.s, b.s)
Best(n) == LET c == SortedBy(buildQuickSwitchCandidates, compareQuickSwitchCandidates) IN SubSeq(c, 1, IF n < Len(c) THEN n ELSE Len(c))
buildRecentChatSessionRows == Best(Limit)
\* Rows by project: a section for each run of the order in which projects appear.
SectionOf(rows, p) == [p |-> p, sessions |-> LET mine == SelectSeq(rows, LAMBDA r : r.p = p) IN [k \in DOMAIN mine |-> mine[k].s]]
FirstOf(rows, p) == CHOOSE i \in DOMAIN rows : rows[i].p = p /\ \A j \in DOMAIN rows : rows[j].p = p => i <= j
\* By the sidebar's order in the recent list, by first appearance in the menu.
buildRecentChatSessionProjectSections ==
  LET rows == buildRecentChatSessionRows IN LET ps == SelectSeq(Order, LAMBDA p : \E i \in DOMAIN rows : rows[i].p = p) IN [i \in DOMAIN ps |-> SectionOf(rows, ps[i])]
buildMobileChatQuickSwitchSections ==
  LET rows == Best(MenuLimit) IN LET ps == SetToSortSeq({rows[i].p : i \in DOMAIN rows}, LAMBDA p, q : FirstOf(rows, p) < FirstOf(rows, q)) IN [i \in DOMAIN ps |-> SectionOf(rows, ps[i])]
-----------------------------------------------------------------------------
\* The second effect: the map of lists changed, and every visible project has one.
TickOnChange(ld) == tick' = (tick \/ Loaded(Visible, ld))
\* session.list of a project.
ListArrives(p, xs) ==
  /\ changes < MaxChanges /\ changes' = changes + 1 /\ lists' = [lists EXCEPT ![p] = sortChatSessions(xs)] /\ loaded' = loaded \cup {p} /\ TickOnChange(loaded \cup {p})
  /\ UNCHANGED <<hidden, recents>>
\* session.updated for a project that has a list.
SessionPatched(p, s) ==
  /\ p \in loaded /\ changes < MaxChanges /\ changes' = changes + 1
  /\ lists' = [lists EXCEPT ![p] = sortChatSessions(<<s>> \o SelectSeq(@, LAMBDA x : x.id # s.id))] /\ TickOnChange(loaded) /\ UNCHANGED <<loaded, hidden, recents>>
\* The first effect; it also runs when the last visible project gets its list.
recomputeRecentSessions ==
  tick /\ tick' = FALSE /\ recents' = (IF AllLoaded THEN buildRecentChatSessionProjectSections ELSE recents) /\ UNCHANGED <<lists, loaded, hidden, changes>>
\* Hiding or showing a project runs no effect unless it changes whether all are loaded.
SetHidden(hs) ==
  /\ Hiding /\ hs # hidden /\ changes < MaxChanges /\ changes' = changes + 1 /\ hidden' = hs
  /\ tick' = (tick \/ (Loaded(Shown(hs), loaded) /\ ~ AllLoaded)) /\ UNCHANGED <<lists, loaded, recents>>
-----------------------------------------------------------------------------
Changed == \E p \in Projects :
  \/ \E s \in Summaries(p) : SessionPatched(p, s) \/ ListArrives(p, <<s>>)
  \/ ListArrives(p, <<>>) \/ (\E s \in Summaries(p), t \in Summaries(p) : s.id # t.id /\ s.read = 0 /\ t.done = 0 /\ ListArrives(p, <<s, t>>))
Next == Changed \/ recomputeRecentSessions \/ (\E hs \in SUBSET Projects : SetHidden(hs))
Spec == Init /\ [][Next]_vars
\* An effect runs after the render that scheduled it.
Fairness == WF_vars(recomputeRecentSessions)
FairSpec == Spec /\ Fairness
-----------------------------------------------------------------------------
TypeOK ==
  /\ loaded \subseteq Projects /\ hidden \subseteq Projects /\ changes <= MaxChanges
  /\ \A p \in Projects : \A i, j \in DOMAIN lists[p] : i < j => lists[p][i].at >= lists[p][j].at /\ lists[p][i].id # lists[p][j].id
Members(sections) == UNION {{<<sections[i].p, s>> : s \in Range(sections[i].sessions)} : i \in DOMAIN sections}
All == UNION {{<<p, s>> : s \in Range(lists[p])} : p \in Range(Visible)}
Better(a, b) == (isPriorityQuickSwitchSession(a) /\ ~ isPriorityQuickSwitchSession(b)) \/ (isPriorityQuickSwitchSession(a) = isPriorityQuickSwitchSession(b) /\ a.at > b.at)
Fills(sections, n) ==
  /\ Members(sections) \subseteq All /\ Cardinality(Members(sections)) = (IF n < Cardinality(All) THEN n ELSE Cardinality(All))
  /\ \A x \in All \ Members(sections) : \A y \in Members(sections) : ~ Better(x[2], y[2])
\* The menu has as many sessions as fit, and none that was left out should
\* have been there instead: a running one never gives way to an idle one.
MenuHasBest == Fills(buildMobileChatQuickSwitchSections, MenuLimit)
\* A project has one section, and the recent list has them in the order of the sidebar.
GroupedOnce == \A i, j \in DOMAIN recents : i < j =>
  (CHOOSE k \in DOMAIN Order : Order[k] = recents[i].p) < (CHOOSE k \in DOMAIN Order : Order[k] = recents[j].p)
\* Unread and running sessions come first: when the green dot says that a
\* session ended unread, the menu starts with one that is unread or running.
\* Not kept by the code: see the README.
UnreadFirst == hasCompletedUnreadChatSession =>
  LET first == buildMobileChatQuickSwitchSections[1].sessions[1] IN Unread(first) \/ first.busy
=============================================================================
