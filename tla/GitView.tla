------------------------------ MODULE GitView ------------------------------
(***************************************************************************)
(* The Git tab: the revision check that decides whether the heavy lists    *)
(* are loaded again, the load itself (branches and status, then the log),  *)
(* the file lists of commits and the diffs with their cache.  Handlers are *)
(* functions of the state c of the page; every answer is a task of c.tasks *)
(* and may arrive after the user has moved on.                             *)
(***************************************************************************)
EXTENDS Naturals, Sequences, FiniteSets

CONSTANTS Projects,   \* the projects of the workspace, a set of strings
          First,      \* the one shown at the start
          Diffs,      \* whether this instance follows file lists and diffs
          MaxChange, MaxSwitch, MaxClick, MaxFail, MaxTasks   \* bounds
GitConstants == First \in Projects /\ Diffs \in BOOLEAN /\ "" \notin Projects /\ {MaxChange, MaxSwitch, MaxClick, MaxFail, MaxTasks} \subseteq Nat

VARIABLES c,     \* the page
          rev,   \* what is true in the repositories: per project [git, wt]
          n      \* how often each bounded thing happened
vars == <<c, rev, n>>

Heavy == {"b"}                                   \* isHeavyGeneratedDiffPath
NoRev == [git |-> <<"", 0>>, wt |-> <<"", 0>>]
NoSha == <<"", "", 0>>
NoText == [p |-> "", at |-> NoSha, path |-> "", ver |-> 0]
NoCommits == [p |-> "", refs |-> <<>>, git |-> 0]
NoWork == [p |-> "", wt |-> 0, files |-> <<>>]
NoSnapshot == [commits |-> NoCommits, selCommit |-> NoSha, path |-> "", files |-> {}]

\* Answers of the server to project.git.rev, refs, log and status.
gitRev(p) == [git |-> <<p, rev[p].git>>, wt |-> <<p, rev[p].wt>>]
gitBranches(p) == [current |-> "main", branches |-> IF rev[p].git < 2 THEN <<"dev", "main">> ELSE <<"main">>]
gitLog(p, refs) == [p |-> p, refs |-> refs, git |-> rev[p].git]
Shas(l) == {<<l.p, l.refs[i], k>> : i \in DOMAIN l.refs, k \in 1..l.git}
Head1(l) == IF l.refs = <<>> THEN NoSha ELSE <<l.p, l.refs[1], l.git>>
gitStatus(p) ==
  [wt |-> rev[p].wt, unstaged |-> IF rev[p].wt = 1 THEN <<"b">> ELSE <<>>, staged |-> IF rev[p].wt = 1 THEN <<"f">> ELSE <<>>, untracked |-> <<>>]

buildWorkingTreeFiles(s) ==
  LET Rows(paths, scope) == [i \in DOMAIN paths |-> [path |-> paths[i], scope |-> scope]]
  IN  Rows(s.unstaged, "unstaged") \o Rows(s.staged, "staged") \o Rows(s.untracked, "untracked")
pickPreferred(rows) ==
  LET Light(r) == r.path \notin Heavy IN IF SelectSeq(rows, Light) # <<>> THEN SelectSeq(rows, Light)[1] ELSE rows[1]
normalizeGitBranches(b, current) == LET Other(x) == x # current IN <<current>> \o SelectSeq(b, Other)
InSeq(x, s) == \E i \in DOMAIN s : s[i] = x
pickGitSelectedBranches(previous, available, current) ==
  LET Valid(x) == InSeq(x, available)
  IN  CASE SelectSeq(previous, Valid) # <<>> -> SelectSeq(previous, Valid)
        [] InSeq(current, available) -> <<current>>
        [] available # <<>> -> <<available[1]>> [] OTHER -> <<>>
sameGitRev(left, right) == left = right
shouldLoadGitForRev(target, loaded, current, next, err) == loaded # target \/ err \/ ~ sameGitRev(current, next)

Init ==
  /\ rev = [p \in Projects |-> [git |-> 1, wt |-> 1]]
  /\ c = [proj |-> First, tab |-> FALSE, loading |-> FALSE, error |-> FALSE, loaded |-> "", known |-> NoRev, failed |-> <<"", NoRev>>,
          refs |-> <<>>, commits |-> NoCommits, work |-> NoWork, selCommit |-> NoSha, source |-> "commit", scope |-> "unstaged",
          path |-> "", text |-> NoText, dloading |-> FALSE, files |-> {}, checking |-> FALSE, allow |-> FALSE, cache |-> {},
          tasks |-> {}, snap |-> [p \in Projects |-> NoSnapshot]]
  /\ n = [change |-> 0, switch |-> 0, click |-> 0, fail |-> 0]
-----------------------------------------------------------------------------
Add(d, t) == [d EXCEPT !.tasks = @ \union {[t EXCEPT !.id = CHOOSE i \in 1..12 : \A u \in d.tasks : u.id # i]}]
Done(d, t) == [d EXCEPT !.tasks = @ \ {t}]

\* loadGit up to its first await; key is the revision a check found.
loadGit(d, pref, nodiff, key) ==
  Add([d EXCEPT !.loading = TRUE, !.error = FALSE, !.failed = <<"", NoRev>>],
      [k |-> "load1", id |-> 0, p |-> d.proj, target |-> d.proj, pref |-> pref, nodiff |-> nodiff, key |-> key])

\* loadGitIfRevChanged up to its await: one check at a time.
loadGitIfRevChanged(d) ==
  IF d.loading \/ d.checking THEN d
  ELSE Add([d EXCEPT !.checking = TRUE],
           [k |-> "check", id |-> 0, p |-> d.proj, target |-> d.proj, loaded |-> d.loaded, err |-> d.error, nodiff |-> d.path = ""])

CheckEffect(o, d) ==
  IF d.tab /\ ~ d.loading /\ <<o.tab, o.proj, o.error, o.loading, o.loaded>> # <<d.tab, d.proj, d.error, d.loading, d.loaded>>
  THEN loadGitIfRevChanged(d) ELSE d
CommitFilesEffect(o, d) ==
  IF Diffs /\ d.selCommit # NoSha /\ d.selCommit \notin d.files /\ <<o.selCommit, o.files, o.path>> # <<d.selCommit, d.files, d.path>>
  THEN Add(d, [k |-> "files", id |-> 0, p |-> d.proj, sha |-> d.selCommit, nodiff |-> d.path = ""]) ELSE d

diffCacheScope(d) == IF d.source = "worktree" THEN <<"WORKTREE", d.scope, 0>> ELSE d.selCommit
getCachedDiff(d, p, scope, path) == {e \in d.cache : e.p = p /\ e.scope = scope /\ e.path = path}
cacheDiff(d, t, text) == [d EXCEPT !.cache = (@ \ getCachedDiff(d, t.p, t.scope, t.path)) \union {[p |-> t.p, scope |-> t.scope, path |-> t.path, text |-> text]}]
DiffEffect(o, d) ==
  LET key == diffCacheScope(d) hit == getCachedDiff(d, d.proj, key, d.path) IN
  CASE ~ Diffs \/ d.path = "" \/ <<o.proj, o.selCommit, o.path, o.source, o.scope, o.allow>> = <<d.proj, d.selCommit, d.path, d.source, d.scope, d.allow>> -> d
    [] d.path \in Heavy /\ ~ d.allow -> [d EXCEPT !.text = NoText]
    [] key = NoSha -> d
    [] hit # {} -> [d EXCEPT !.text = (CHOOSE e \in hit : TRUE).text]
    [] OTHER -> Add([d EXCEPT !.dloading = TRUE], [k |-> "diff", id |-> 0, p |-> d.proj, scope |-> key, path |-> d.path])
AllowEffect(o, d) ==
  IF <<o.path, o.selCommit, o.source, o.scope>> # <<d.path, d.selCommit, d.source, d.scope>> THEN [d EXCEPT !.allow = FALSE] ELSE d
rememberProjectSnapshot(d) ==
  [d EXCEPT !.snap[d.proj] = [commits |-> d.commits, selCommit |-> d.selCommit, path |-> d.path, files |-> d.files]]

\* A handler ran and React runs the effects whose dependencies changed.
Render(d) ==
  \E d1 \in {AllowEffect(c, d)} : \E d2 \in {CheckEffect(c, d1)} : \E d3 \in {CommitFilesEffect(c, d2)} : \E d4 \in {DiffEffect(c, d3)} :
    c' = rememberProjectSnapshot(d4)
-----------------------------------------------------------------------------
RevAnswer(t) ==
  LET next == gitRev(t.p) key == <<t.target, next>> d == Done(c, t) IN
  IF t.err /\ c.failed = key THEN [d EXCEPT !.checking = FALSE]
  ELSE IF ~ shouldLoadGitForRev(t.target, t.loaded, c.known, next, t.err) THEN [d EXCEPT !.checking = FALSE, !.known = next]
  ELSE loadGit([d EXCEPT !.loaded = ""], <<>>, t.nodiff, key)

\* Branches and status are there: choose the branches, ask for the log.
RefsAnswer(t) ==
  LET b == gitBranches(t.p)
      refs == pickGitSelectedBranches(IF t.pref = <<>> THEN c.refs ELSE t.pref, normalizeGitBranches(b.branches, b.current), b.current)
  IN  Add(Done(c, t), [k |-> "load2", id |-> 0, p |-> c.proj, target |-> t.target, refs |-> refs, status |-> gitStatus(t.p), from |-> t.p,
                       nodiff |-> t.nodiff, key |-> t.key])

\* What loadGitIfRevChanged does when its load is over.
SettleCheck(d, t, ok) ==
  IF t.key = <<"", NoRev>> THEN d
  ELSE IF ok THEN [d EXCEPT !.checking = FALSE, !.failed = <<"", NoRev>>, !.known = t.key[2]]
  ELSE [d EXCEPT !.checking = FALSE, !.failed = t.key]

\* The log is there; g is the gitRev the project list of the page shows.
LogAnswer(t, g) ==
  LET log == gitLog(t.p, t.refs) work == buildWorkingTreeFiles(t.status) d == Done(c, t)
      pick == pickPreferred(work)
      e == [d EXCEPT !.refs = t.refs, !.work = [p |-> t.from, wt |-> t.status.wt, files |-> work],
                     !.known = [git |-> IF t.target = c.proj THEN <<c.proj, g>> ELSE @.git, wt |-> <<t.from, t.status.wt>>], !.commits = log, !.loaded = t.target,
                     !.selCommit = IF @ \in Shas(log) THEN @ ELSE Head1(log), !.loading = FALSE]
      f == CASE t.nodiff /\ work # <<>> -> [e EXCEPT !.path = pick.path, !.source = "worktree", !.scope = pick.scope]
             [] t.nodiff /\ work = <<>> -> [e EXCEPT !.source = "commit"] [] OTHER -> e
  IN  SettleCheck(f, t, TRUE)

FilesAnswer(t) ==
  LET d == [Done(c, t) EXCEPT !.files = @ \union {t.sha}]
  IN  IF t.nodiff THEN [d EXCEPT !.path = "f", !.source = "commit"] ELSE d

DiffText(t) == [p |-> t.p, at |-> t.scope, path |-> t.path, ver |-> IF t.scope[1] = "WORKTREE" THEN rev[t.p].wt ELSE 0]
DiffAnswer(t) == cacheDiff([Done(c, t) EXCEPT !.text = DiffText(t), !.dloading = FALSE], t, DiffText(t))

Answer(t) ==
  /\ t \in c.tasks
  /\ CASE t.k = "check" -> Render(RevAnswer(t)) [] t.k = "load1" -> Render(RefsAnswer(t))
       [] t.k = "load2" -> (\E g \in 1..rev[c.proj].git : Render(LogAnswer(t, g))) [] t.k = "files" -> Render(FilesAnswer(t)) [] OTHER -> Render(DiffAnswer(t))
  /\ UNCHANGED <<rev, n>>

LoadFails(t) == SettleCheck([Done(c, t) EXCEPT !.error = TRUE, !.loading = FALSE], t, FALSE)
Fail(t) ==
  /\ t \in c.tasks /\ n.fail < MaxFail /\ n' = [n EXCEPT !.fail = @ + 1]
  /\ Render(CASE t.k = "check" -> [Done(c, t) EXCEPT !.error = TRUE, !.checking = FALSE]
              [] t.k \in {"load1", "load2"} -> LoadFails(t)
              [] t.k = "files" -> [Done(c, t) EXCEPT !.error = TRUE]
              [] OTHER -> [Done(c, t) EXCEPT !.error = TRUE, !.dloading = FALSE])
  /\ UNCHANGED rev
-----------------------------------------------------------------------------
Click == n.click < MaxClick /\ Cardinality(c.tasks) <= MaxTasks /\ n' = [n EXCEPT !.click = @ + 1] /\ UNCHANGED rev
SelectTab == Click /\ Render([c EXCEPT !.tab = ~ @])
Refresh == c.tab /\ Click /\ Render(loadGit(c, <<>>, c.path = "", <<"", NoRev>>))
toggleGitBranchSelection(b) ==
  LET Other(x) == x # b
      next == IF InSeq(b, c.refs) THEN SelectSeq(c.refs, Other) ELSE Append(c.refs, b)
      eff == IF next = <<>> THEN <<"main">> ELSE next
  IN  /\ c.tab /\ c.commits # NoCommits /\ Click
      /\ Render(loadGit([c EXCEPT !.refs = eff, !.loaded = ""], eff, c.path = "", <<"", NoRev>>))
ClickCommit(s) ==
  /\ Diffs /\ c.tab /\ Click /\ s \in Shas(c.commits)
  /\ Render([c EXCEPT !.selCommit = s, !.source = "commit", !.scope = "unstaged", !.path = IF s \in c.files THEN "f" ELSE ""])
ClickWorkingFile(r) ==
  Diffs /\ c.tab /\ Click /\ Render([c EXCEPT !.path = r.path, !.source = "worktree", !.scope = r.scope])
LoadHeavy == c.tab /\ c.path \in Heavy /\ ~ c.allow /\ Diffs /\ Render([c EXCEPT !.allow = TRUE]) /\ UNCHANGED <<rev, n>>

\* syncWorkspaceProject and the Git part of applyHydratedProjectState.
SwitchProject(p) ==
  LET s == c.snap[p]
      hit == getCachedDiff(c, p, s.selCommit, s.path)
      d == [c EXCEPT !.proj = p, !.known = NoRev, !.failed = <<"", NoRev>>, !.error = FALSE, !.refs = <<>>, !.commits = s.commits,
                     !.selCommit = s.selCommit, !.files = s.files, !.path = s.path, !.work = NoWork, !.loaded = "",
                     !.text = IF s.selCommit # NoSha /\ s.path # "" /\ hit # {} THEN (CHOOSE e \in hit : TRUE).text ELSE NoText]
  IN  /\ p # c.proj /\ n.switch < MaxSwitch /\ n' = [n EXCEPT !.switch = @ + 1]
      /\ Render(IF d.tab THEN loadGitIfRevChanged(d) ELSE d)
      /\ UNCHANGED rev

\* Someone commits or edits in the repository of p.
RepositoryChanges(p) ==
  /\ n.change < MaxChange /\ n' = [n EXCEPT !.change = @ + 1]
  /\ \E k \in {"git", "wt"} : rev' = [rev EXCEPT ![p][k] = @ + 1]
  /\ UNCHANGED c

Next ==
  \/ (\E t \in c.tasks : Answer(t) \/ Fail(t))
  \/ SelectTab \/ Refresh \/ LoadHeavy
  \/ (\E b \in {"main", "dev"} : toggleGitBranchSelection(b))
  \/ (\E s \in Shas(c.commits) : ClickCommit(s))
  \/ (\E i \in DOMAIN c.work.files : ClickWorkingFile(c.work.files[i]))
  \/ (\E p \in Projects : SwitchProject(p) \/ RepositoryChanges(p))
Spec == Init /\ [][Next]_vars
Fairness == WF_vars(\E t \in c.tasks : Answer(t))
FairSpec == Spec /\ Fairness
-----------------------------------------------------------------------------
TypeOK ==
  /\ c.proj \in Projects /\ c.loaded \in Projects \union {""} /\ c.work.p \in Projects \union {""}
  /\ {c.tab, c.loading, c.error, c.checking, c.allow, c.dloading} \subseteq BOOLEAN
  /\ \A t, u \in c.tasks : t.id = u.id => t = u
  /\ c.checking <=> \E t \in c.tasks : t.k = "check" \/ (t.k \in {"load1", "load2"} /\ t.key # <<"", NoRev>>)

Loads == {t \in c.tasks : t.k \in {"load1", "load2"}}

\* Where the revision check would skip the load (same project loaded, same
\* revisions known), the lists on the page are those of these revisions.
SkipIsSafe ==
  Loads = {} /\ ~ shouldLoadGitForRev(c.proj, c.loaded, c.known, gitRev(c.proj), c.error)
    => /\ c.work.p = c.proj /\ c.work.wt = rev[c.proj].wt
       /\ c.commits.p = c.proj /\ c.commits.git = rev[c.proj].git

\* A diff in the cache is the diff its key names: of that project, commit
\* or scope, and path, however late the answer came.
DiffCacheMatchesKey ==
  \A e \in c.cache : e.text.p = e.p /\ e.text.at = e.scope /\ e.text.path = e.path

\* Loading and checking end, also when requests fail.
LoadingEnds == (c.loading \/ c.checking) ~> (~ c.loading /\ ~ c.checking)

\* The Git tab of a project is loaded when it is opened (and the user stays).
\* Not kept by the code: see the README.
FirstOpenLoads == (c.tab /\ ~ c.error) ~> (~ c.tab \/ c.loaded = c.proj \/ c.error)

\* What is loaded for the project shown is that project's.
\* Not kept by the code: see the README.
NoForeignCommits == Loads = {} /\ c.loaded = c.proj => c.commits.p = c.proj

\* After a switch the diff of the previous project is not visible.
\* Not kept by the code: see the README.
NoForeignDiff == c.text # NoText => c.text.p = c.proj
=============================================================================
