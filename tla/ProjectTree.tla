---------------------------- MODULE ProjectTree ----------------------------
(***************************************************************************)
(* The file trees of the web client: the explorer of the workspace project *)
(* (loadDirectory, syncWorkspaceProject, refreshProject, connect with      *)
(* validateExpandedDirectories) and the tree of the preview pane           *)
(* (loadPreviewDirectory), over one directory cache.                       *)
(*                                                                         *)
(* The explorer asks the service for "the selected project"; the preview   *)
(* pane names its project.  A listing is a record of the project it is of  *)
(* and its version; equal listings have equal hashes.                      *)
(***************************************************************************)
EXTENDS Naturals, FiniteSets

CONSTANTS Projects, Dirs,                \* directories other than the root
          MaxChanges, MaxLoads, MaxSwitches, MaxRefreshes, MaxConnects   \* bounds

BoundsAreNatural == {MaxChanges, MaxLoads, MaxSwitches, MaxRefreshes, MaxConnects} \subseteq Nat

VARIABLES
  ver,         \* the version of each directory on its hub
  ref,         \* projectIdRef
  sel,         \* service.session.selectedProjectId
  tree,        \* dirEntries
  expanded,    \* expandedDirs
  remembered,  \* expandedDirs of the projects that were left
  cache,       \* the directories of WorkspacePersistence: hash and entries
  hash,        \* dirHashRef
  loads,       \* loadDirectory calls in flight, one per path (loadingDirs)
  jobs,        \* refreshProject and validateExpandedDirectories calls in flight
  pane,        \* the preview trees: entries, expanded, errors
  ploads,      \* loadPreviewDirectory calls in flight (previewDirectoryLoadKeysRef)
  used

vars == <<ver, ref, sel, tree, expanded, remembered, cache, hash, loads, jobs, pane, ploads, used>>

Root == "."
Paths == Dirs \union {Root}
No == [p |-> "none", v |-> 0]
Listing(p, d) == [p |-> p, v |-> ver[p][d]]
Listings == [p : Projects, v : 0..MaxChanges] \union {No}
Ops == {"change", "load", "switch", "refresh", "connect"}
Bound == [change |-> MaxChanges, load |-> MaxLoads, switch |-> MaxSwitches, refresh |-> MaxRefreshes, connect |-> MaxConnects]
Spend(o) == used[o] < Bound[o] /\ used' = [used EXCEPT ![o] = @ + 1]
NoTree == [d \in Paths |-> No]

Init ==
  /\ ver = [p \in Projects |-> [d \in Paths |-> 0]]
  /\ \E p \in Projects : ref = p /\ sel = p /\ tree = [NoTree EXCEPT ![Root] = Listing(p, Root)]
  /\ expanded = {Root} /\ remembered = [p \in Projects |-> {}]
  /\ cache = [p \in Projects |-> [d \in Paths |-> [h |-> No, e |-> No]]] /\ hash = NoTree
  /\ loads = {} /\ jobs = {} /\ ploads = {} /\ used = [o \in Ops |-> 0]
  /\ pane = [p \in Projects |-> [open |-> {}, e |-> NoTree, err |-> {}]]

\* A file is created or removed on the hub.
Change(p, d) == Spend("change") /\ ver' = [ver EXCEPT ![p][d] = @ + 1]
                /\ UNCHANGED <<ref, sel, tree, expanded, remembered, cache, hash, loads, jobs, pane, ploads>>
-----------------------------------------------------------------------------
(* The explorer. *)

Known(p, d) == IF hash[d] # No THEN hash[d] ELSE cache[p][d].h
\* A call of loadDirectory: nothing while the path is being loaded.
loadDirectory(d, p, s) ==
  IF \E l \in loads : l.d = d THEN loads
  ELSE loads \union {[d |-> d, target |-> p, on |-> s, known |-> Known(p, d), cached |-> cache[p][d].e]}

toggleDirectory(d) ==
  /\ IF d \in expanded THEN expanded' = expanded \ {d} /\ UNCHANGED <<loads, used>>
     ELSE /\ expanded' = expanded \union {d} /\ Spend("load")
          /\ loads' = IF tree[d] = No THEN loadDirectory(d, ref, sel) ELSE loads
  /\ UNCHANGED <<ver, ref, sel, tree, remembered, cache, hash, jobs, pane, ploads>>

CacheUnderCurrent(l, e) == [cache EXCEPT ![ref][l.d] = [h |-> Listing(l.on, l.d), e |-> e]]
\* What the answer stores: under the project of the call.
CacheListing(l, e) == [cache EXCEPT ![l.target][l.d] = [h |-> Listing(l.on, l.d), e |-> e]]

\* The answer; "not modified" leaves the tree alone when nothing was cached.
DirectoryListed(l) ==
  /\ l \in loads /\ loads' = loads \ {l}
  /\ LET r == Listing(l.on, l.d)
         notModified == l.known = r
         e == IF notModified THEN l.cached ELSE r
     IN  /\ tree' = IF e = No THEN tree ELSE [tree EXCEPT ![l.d] = e]
         /\ hash' = [hash EXCEPT ![l.d] = r]
         /\ cache' = IF e = No THEN cache ELSE CacheListing(l, e)
  /\ UNCHANGED <<ver, ref, sel, expanded, remembered, jobs, pane, ploads, used>>

\* A failed listing closes the directory again.
DirectoryFails(l) ==
  /\ l \in loads /\ loads' = loads \ {l}
  /\ expanded' = IF l.d = Root THEN expanded ELSE expanded \ {l.d}
  /\ UNCHANGED <<ver, ref, sel, tree, remembered, cache, hash, jobs, pane, ploads, used>>

\* hydrateProject: the root and the remembered directories that are cached.
HydratedDirs(p) == {Root} \union {d \in remembered[p] \ {Root} : cache[p][d].e # No}
HydratedTree(p, root) == [d \in Paths |-> IF d = Root THEN root ELSE IF d \in HydratedDirs(p) THEN cache[p][d].e ELSE No]

\* syncWorkspaceProject: the service and the page switch together, from the
\* cache; with the File tab on screen the root is then listed.
syncWorkspaceProject(p, listRoot) ==
  /\ p # ref /\ Spend("switch")
  /\ remembered' = [remembered EXCEPT ![ref] = expanded]
  /\ ref' = p /\ sel' = p /\ hash' = NoTree
  /\ expanded' = HydratedDirs(p) /\ tree' = HydratedTree(p, cache[p][Root].e)
  /\ loads' = IF listRoot /\ ~ \E l \in loads : l.d = Root
              THEN loads \union {[d |-> Root, target |-> p, on |-> p, known |-> cache[p][Root].h, cached |-> cache[p][Root].e]}
              ELSE loads
  /\ UNCHANGED <<ver, cache, jobs, pane, ploads>>
-----------------------------------------------------------------------------
(* validateExpandedDirectories: the directories one after the other, each  *)
(* listed for the project the service has selected when its turn comes.    *)

Job(by, p, root, todo) == [by |-> by, step |-> "next", p |-> p, todo |-> todo \ {Root}, e |-> [NoTree EXCEPT ![Root] = root],
                           d |-> Root, on |-> p, known |-> No]
CacheRoot(p, root) == [cache EXCEPT ![p][Root] = [h |-> No, e |-> root]]

ValidateAsks(j, d) ==
  /\ j \in jobs /\ j.step = "next" /\ d \in j.todo
  /\ jobs' = (jobs \ {j}) \union {[j EXCEPT !.step = "wait", !.d = d, !.on = sel, !.known = cache[j.p][d].h, !.todo = @ \ {d}]}
  /\ UNCHANGED <<ver, ref, sel, tree, expanded, remembered, cache, hash, loads, pane, ploads, used>>

ValidateAnswered(j) ==
  /\ j \in jobs /\ j.step = "wait"
  /\ LET r == Listing(j.on, j.d)
         c == cache[j.p][j.d]
         same == j.known = r /\ c.e # No
     IN  /\ jobs' = (jobs \ {j}) \union {[j EXCEPT !.step = "next", !.e[j.d] = IF same THEN c.e ELSE r]}
         /\ cache' = IF same THEN cache ELSE [cache EXCEPT ![j.p][j.d] = [h |-> r, e |-> r]]
  /\ UNCHANGED <<ver, ref, sel, tree, expanded, remembered, hash, loads, pane, ploads, used>>

\* A directory that cannot be listed is left out.
ValidateSkips(j) ==
  /\ j \in jobs /\ j.step = "wait" /\ jobs' = (jobs \ {j}) \union {[j EXCEPT !.step = "next"]}
  /\ UNCHANGED <<ver, ref, sel, tree, expanded, remembered, cache, hash, loads, pane, ploads, used>>

Listed(j) == {d \in Paths : j.e[d] # No}
\* Done: connect() drops the result when the project changed meanwhile,
\* refreshProject does not.
ValidateDone(j) ==
  /\ j \in jobs /\ j.step = "next" /\ j.todo = {} /\ jobs' = jobs \ {j}
  /\ IF j.by = "connect" /\ ref # j.p THEN UNCHANGED <<tree, expanded, hash>>
     ELSE /\ tree' = j.e /\ expanded' = Listed(j) \union {Root}
          /\ hash' = IF j.by = "refresh" THEN NoTree ELSE hash
  /\ UNCHANGED <<ver, ref, sel, remembered, cache, loads, pane, ploads, used>>

\* refreshProject: one at a time; it selects the project again.
refreshProject ==
  /\ ~ \E j \in jobs : j.by = "refresh"
  /\ Spend("refresh")
  /\ jobs' = jobs \union {[Job("refresh", ref, No, expanded) EXCEPT !.step = "select"]}
  /\ UNCHANGED <<ver, ref, sel, tree, expanded, remembered, cache, hash, loads, pane, ploads>>
RefreshSelects(j) ==
  /\ j \in jobs /\ j.step = "select" /\ sel' = j.p
  /\ jobs' = (jobs \ {j}) \union {[j EXCEPT !.step = "next", !.e[Root] = Listing(j.p, Root)]}
  /\ cache' = CacheRoot(j.p, Listing(j.p, Root))
  /\ UNCHANGED <<ver, ref, tree, expanded, remembered, hash, loads, pane, ploads, used>>
RefreshFails(j) ==
  /\ j \in jobs /\ j.step = "select" /\ jobs' = jobs \ {j}
  /\ UNCHANGED <<ver, ref, sel, tree, expanded, remembered, cache, hash, loads, pane, ploads, used>>

\* connect() has a session: the project of the last visit is shown and validated.
Connected(p) ==
  /\ Spend("connect") /\ ref' = p /\ sel' = p /\ hash' = NoTree
  /\ remembered' = [remembered EXCEPT ![ref] = expanded]
  /\ LET dirs == {Root} \union {d \in remembered'[p] \ {Root} : cache[p][d].e # No}
         root == Listing(p, Root)
     IN  /\ expanded' = dirs /\ tree' = [d \in Paths |-> IF d = Root THEN root ELSE IF d \in dirs THEN cache[p][d].e ELSE No]
         /\ jobs' = jobs \union {Job("connect", p, root, dirs)}
         /\ cache' = CacheRoot(p, root)
  /\ UNCHANGED <<ver, loads, pane, ploads>>
-----------------------------------------------------------------------------
(* The preview pane. *)

\* loadPreviewDirectory: its own lock per project and path; a hash is sent
\* only together with entries to fall back on.
loadPreviewDirectory(p, d) ==
  IF \E l \in ploads : l.p = p /\ l.d = d THEN ploads
  ELSE ploads \union {[p |-> p, d |-> d, cached |-> cache[p][d].e, known |-> IF cache[p][d].e = No THEN No ELSE cache[p][d].h]}

\* togglePreviewDirectory, the effect that loads the root of an open tree, and retry.
togglePreviewDirectory(p, d) ==
  /\ IF d \in pane[p].open /\ d # Root THEN pane' = [pane EXCEPT ![p].open = @ \ {d}] /\ UNCHANGED <<ploads, used>>
     ELSE /\ pane' = [pane EXCEPT ![p].open = @ \union {d}, ![p].err = @ \ {d}] /\ Spend("load")
          /\ ploads' = IF pane[p].e[d] = No THEN loadPreviewDirectory(p, d) ELSE ploads
  /\ UNCHANGED <<ver, ref, sel, tree, expanded, remembered, cache, hash, loads, jobs>>

ListsNamed(l) == Listing(l.p, l.d)
\* fetchPreviewDirectoryEntries: not modified means the cached entries.
PreviewListed(l) ==
  /\ l \in ploads /\ ploads' = ploads \ {l}
  /\ LET r == ListsNamed(l)
         e == IF l.known = r THEN l.cached ELSE r
     IN  /\ pane' = [pane EXCEPT ![l.p].e[l.d] = e]
         /\ cache' = [cache EXCEPT ![l.p][l.d] = [h |-> r, e |-> e]]
  /\ UNCHANGED <<ver, ref, sel, tree, expanded, remembered, hash, loads, jobs, used>>

PreviewFails(l) ==
  /\ l \in ploads /\ ploads' = ploads \ {l}
  /\ pane' = [pane EXCEPT ![l.p].err = @ \union {l.d}, ![l.p].open = IF l.d = Root THEN @ ELSE @ \ {l.d}]
  /\ UNCHANGED <<ver, ref, sel, tree, expanded, remembered, cache, hash, loads, jobs, used>>

Next ==
  \/ \E p \in Projects, d \in Paths : Change(p, d) \/ togglePreviewDirectory(p, d)
  \/ \E d \in Dirs : toggleDirectory(d)
  \/ \E l \in loads : DirectoryListed(l) \/ DirectoryFails(l)
  \/ \E p \in Projects, b \in BOOLEAN : syncWorkspaceProject(p, b)
  \/ \E j \in jobs : (\E d \in Dirs : ValidateAsks(j, d)) \/ ValidateAnswered(j) \/ ValidateSkips(j) \/ ValidateDone(j)
                     \/ RefreshSelects(j) \/ RefreshFails(j)
  \/ refreshProject
  \/ \E p \in Projects : Connected(p)
  \/ \E l \in ploads : PreviewListed(l) \/ PreviewFails(l)
Spec == Init /\ [][Next]_vars
-----------------------------------------------------------------------------
TypeOK ==
  /\ ref \in Projects /\ sel \in Projects /\ tree \in [Paths -> Listings] /\ hash \in [Paths -> Listings]
  /\ expanded \subseteq Paths /\ cache \in [Projects -> [Paths -> [h : Listings, e : Listings]]]
  /\ \A l, m \in loads : l.d = m.d => l = m
  /\ \A l, m \in ploads : l.p = m.p /\ l.d = m.d => l = m

\* The explorer shows listings of the workspace project only.
\* Not kept by the code: see the README.
TreeIsOfProject == \A d \in Paths : tree[d].p \in {ref, "none"}

\* What the cache holds for a project are listings of that project: a switch
\* while a listing is under way does not store it for the wrong one.
CacheIsOfProject == \A p \in Projects, d \in Paths : cache[p][d].e.p \in {p, "none"}

\* The page and the service mean the same project.
ServiceFollowsPage == sel = ref

\* Tree, cache and service leave their project only by a call that a switch of the
\* project has overtaken: the answer to a listing of the project before, or a step
\* of a refresh or a validation of it.
OwnProject ==
  /\ TreeIsOfProject /\ CacheIsOfProject /\ ServiceFollowsPage
  /\ \A l \in loads : l.on = l.target
  /\ \A j \in jobs : j.on = j.p /\ \A d \in Paths : j.e[d].p \in {j.p, "none"}
ForeignStep ==
  OwnProject /\ ~ OwnProject' => (\E l \in loads \ loads' : l.target # ref) \/ (\E j \in jobs \ jobs' : j.p # ref)

\* A directory that is open in the explorer is listed or being listed, after
\* failures, switches and validation that replace the tree under a listing.
OpenIsListed == \A d \in expanded \ {Root} : tree[d] # No \/ \E l \in loads : l.d = d

\* The preview pane never shows another project's files, whatever the explorer does.
PreviewIsOfProject == \A p \in Projects, d \in Paths : pane[p].e[d].p \in {p, "none"}

\* An open directory of the preview pane is listed, being listed or says why not.
PreviewOpenIsListed ==
  \A p \in Projects : \A d \in pane[p].open :
    pane[p].e[d] # No \/ d \in pane[p].err \/ \E l \in ploads : l.p = p /\ l.d = d
=============================================================================
