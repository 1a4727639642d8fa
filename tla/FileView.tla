------------------------------ MODULE FileView ------------------------------
(***************************************************************************)
(* The File tab of the web client: readSelectedFile with its abort         *)
(* controller, request number and two caches (memory and persistence), and *)
(* the events that start or invalidate a read: choosing a file, switching  *)
(* the project, reconnecting, refreshing, and the setting that turns the   *)
(* file cache off.                                                         *)
(*                                                                         *)
(* A content is the file it is of and its version; equal contents have     *)
(* equal hashes.  A read has three awaits: the file's info, its content    *)
(* with a hash, and once more without one.                                 *)
(***************************************************************************)
EXTENDS Naturals, FiniteSets

CONSTANTS Projects, Names,
          MaxEdits, MaxReads, MaxSwitches, MaxReconnects, MaxToggles   \* bounds

BoundsAreNatural == {MaxEdits, MaxReads, MaxSwitches, MaxReconnects, MaxToggles} \subseteq Nat

VARIABLES
  ver,         \* the version of each file on its hub
  ref,         \* projectIdRef, projectId
  file,        \* selectedFile ("" when none)
  chosen,      \* the file each project had open when it was left
  tab,         \* whether the File tab is on screen
  shown,       \* fileContent: the file it is of and the version
  loading,     \* fileLoading
  seq,         \* fileReadSeqRef
  reads,       \* readSelectedFile calls in flight
  mem,         \* fileCacheRef and fileHashRef
  disk,        \* the file cache of WorkspacePersistence
  disabled,    \* disableFileCache
  skip,        \* skipNextSelectedFileAutoReadRef
  used

vars == <<ver, ref, file, chosen, tab, shown, loading, seq, reads, mem, disk, disabled, skip, used>>

Keys == Projects \X Names
NoFile == ""
No == [k |-> <<NoFile, NoFile>>, v |-> 0]     \* empty content, no hash
Content(k) == [k |-> k, v |-> ver[k]]
Contents == [k : Keys, v : 0..MaxEdits] \union {No}
Empty == [k \in Keys |-> No]
Ops == {"edit", "read", "switch", "reconnect", "toggle"}
Bound == [edit |-> MaxEdits, read |-> MaxReads, switch |-> MaxSwitches, reconnect |-> MaxReconnects, toggle |-> MaxToggles]
Spend(o) == used[o] < Bound[o] /\ used' = [used EXCEPT ![o] = @ + 1]

Init ==
  /\ ver = [k \in Keys |-> 0] /\ (\E p \in Projects : ref = p) /\ file = NoFile
  /\ chosen = [p \in Projects |-> NoFile] /\ tab = TRUE
  /\ shown = No /\ loading = FALSE /\ seq = 0 /\ reads = {} /\ mem = Empty /\ disk = Empty
  /\ disabled = FALSE /\ skip = FALSE /\ used = [o \in Ops |-> 0]

Edit(k) ==
  /\ Spend("edit") /\ ver' = [ver EXCEPT ![k] = @ + 1]
  /\ UNCHANGED <<ref, file, chosen, tab, shown, loading, seq, reads, mem, disk, disabled, skip>>
-----------------------------------------------------------------------------
Abort(rs) == {[r EXCEPT !.aborted = TRUE] : r \in rs}
Read(k, n, silent) == [k |-> k, n |-> n, silent |-> silent, step |-> "info", aborted |-> FALSE, cached |-> No, res |-> No,
                       nocache |-> disabled]   \* the closure's view of the setting

\* readSelectedFile: the previous read is aborted and overtaken.
Start(k, silent, n) ==
  /\ reads' = Abort(reads) \union {Read(k, n, silent)} /\ seq' = n
  /\ loading' = IF silent THEN loading ELSE TRUE

AnyRead(r) == TRUE
\* The check after every await: the last read, and still the same project.
Current(r) == r.n = seq /\ r.k[1] = ref
\* finally: only the last read ends the spinner, and a silent one never does.
Finally(r) == IF Current(r) /\ ~ r.silent THEN FALSE ELSE loading

\* A hash is sent only for content that is there to be used again.
Cached(r) == IF r.nocache THEN No ELSE IF mem[r.k] # No THEN mem[r.k] ELSE disk[r.k]

\* The info has come; a large file that was never read may be declined.
InfoArrives(r, declined) ==
  /\ r \in reads /\ r.step = "info" /\ Current(r)
  /\ mem' = IF r.nocache \/ mem[r.k] # No THEN mem ELSE [mem EXCEPT ![r.k] = disk[r.k]]
  /\ IF declined
     THEN /\ Cached(r) = No /\ shown' = No /\ reads' = reads \ {r} /\ loading' = Finally(r)
     ELSE /\ reads' = (reads \ {r}) \union {[r EXCEPT !.step = "body", !.cached = Cached(r)]}
          /\ UNCHANGED <<shown, loading>>
  /\ UNCHANGED <<ver, ref, file, chosen, tab, seq, disk, disabled, skip, used>>

Keep(r, c) ==
  IF r.nocache THEN UNCHANGED <<mem, disk>>
  ELSE mem' = [mem EXCEPT ![r.k] = c] /\ disk' = [disk EXCEPT ![r.k] = c]

\* The hub reads the file: it answers "not modified" for the hash of the
\* cached content.
HubReads(r) ==
  /\ r \in reads /\ r.step = "body"
  /\ reads' = (reads \ {r}) \union {[r EXCEPT !.step = "got", !.res = IF r.cached = Content(r.k) THEN r.cached ELSE Content(r.k)]}
  /\ UNCHANGED <<ver, ref, file, chosen, tab, shown, loading, seq, mem, disk, disabled, skip, used>>

\* The content has come: fresh, or the cached one is shown again.
BodyArrives(r) ==
  /\ r \in reads /\ r.step = "got" /\ Current(r) /\ reads' = reads \ {r}
  /\ shown' = r.res /\ Keep(r, r.res)
  /\ loading' = Finally(r)
  /\ UNCHANGED <<ver, ref, file, chosen, tab, seq, disabled, skip, used>>

\* An answer for a read that was overtaken.
Overtaken(r) ==
  /\ r \in reads /\ ~ Current(r) /\ reads' = reads \ {r} /\ loading' = Finally(r)
  /\ UNCHANGED <<ver, ref, file, chosen, tab, shown, seq, mem, disk, disabled, skip, used>>

Fails(r) ==
  /\ r \in reads /\ Current(r) /\ ~ r.aborted /\ reads' = reads \ {r}
  /\ shown' = IF r.silent THEN shown ELSE No
  /\ loading' = Finally(r)
  /\ UNCHANGED <<ver, ref, file, chosen, tab, seq, mem, disk, disabled, skip, used>>

AbortEnds(r) ==
  /\ r \in reads /\ r.aborted /\ reads' = reads \ {r} /\ loading' = Finally(r)
  /\ UNCHANGED <<ver, ref, file, chosen, tab, shown, seq, mem, disk, disabled, skip, used>>
-----------------------------------------------------------------------------
\* The effect on the project and the selected file.
Effect(p, f, skipping, n) ==
  IF f = NoFile
  THEN reads' = Abort(reads) /\ seq' = n /\ loading' = FALSE /\ shown' = No /\ skip' = skipping
  ELSE /\ skip' = FALSE
       /\ IF skipping THEN reads' = reads /\ loading' = loading /\ seq' = n - 1 ELSE Start(<<p, f>>, FALSE, n)

\* A file is chosen in the tree, the pinned list or from the preview.
setSelectedFile(f) ==
  /\ f # file /\ Spend("read") /\ file' = f
  /\ Effect(ref, f, skip, seq + 1)
  /\ (f # NoFile => shown' = shown)
  /\ UNCHANGED <<ver, ref, chosen, tab, mem, disk, disabled>>

\* syncWorkspaceProject and applyHydratedProjectState: reads under way are
\* overtaken, the memory cache is emptied, the file the project had open is
\* selected; off the File tab it is not read.
syncWorkspaceProject(p) ==
  /\ p # ref /\ Spend("switch") /\ ref' = p
  /\ chosen' = [chosen EXCEPT ![ref] = file] /\ file' = chosen[p]
  /\ mem' = Empty /\ shown' = No
  /\ Effect(p, chosen[p], ~ tab /\ chosen[p] # NoFile, seq + 2)
  /\ UNCHANGED <<ver, tab, disk, disabled>>

setTab == /\ tab' = ~ tab /\ Spend("toggle")
          /\ UNCHANGED <<ver, ref, file, chosen, shown, loading, seq, reads, mem, disk, disabled, skip>>

\* connect() has a session again.  The reads on the old connection have
\* failed by then.  A silent reconnect keeps the view and reads the file
\* behind it; the effect runs only when project or file changed.
Reconnected(silent) ==
  /\ Spend("reconnect") /\ reads = {}
  /\ mem' = IF silent /\ file # NoFile THEN mem ELSE Empty
  /\ shown' = IF silent /\ file # NoFile THEN shown ELSE No
  /\ IF file = NoFile THEN UNCHANGED <<reads, seq, loading, skip>>
     ELSE skip' = TRUE /\ Start(<<ref, file>>, silent, seq + 1)
  /\ UNCHANGED <<ver, ref, file, chosen, tab, disk, disabled>>

\* refreshProject reads the selected file again.
Refresh ==
  /\ file # NoFile /\ Spend("read") /\ Start(<<ref, file>>, FALSE, seq + 1)
  /\ UNCHANGED <<ver, ref, file, chosen, tab, shown, mem, disk, disabled, skip>>

\* The setting: turning the cache off empties it.
setDisableFileCache ==
  /\ Spend("toggle") /\ disabled' = ~ disabled
  /\ IF disabled' THEN mem' = Empty /\ disk' = Empty ELSE UNCHANGED <<mem, disk>>
  /\ UNCHANGED <<ver, ref, file, chosen, tab, shown, loading, seq, reads, skip>>

Settles == \E r \in reads : (\E b \in BOOLEAN : InfoArrives(r, b)) \/ HubReads(r) \/ BodyArrives(r) \/ Overtaken(r) \/ Fails(r) \/ AbortEnds(r)
Next ==
  \/ \E k \in Keys : Edit(k)
  \/ \E f \in Names \union {NoFile} : setSelectedFile(f)
  \/ \E p \in Projects : syncWorkspaceProject(p)
  \/ \E b \in BOOLEAN : Reconnected(b)
  \/ setTab \/ Refresh \/ setDisableFileCache \/ Settles
Spec == Init /\ [][Next]_vars

\* Every request ends: answered, timed out or aborted.
Fairness == WF_vars(Settles)
FairSpec == Spec /\ Fairness
-----------------------------------------------------------------------------
TypeOK ==
  /\ ref \in Projects /\ file \in Names \union {NoFile} /\ shown \in Contents /\ seq \in Nat
  /\ mem \in [Keys -> Contents] /\ disk \in [Keys -> Contents]
  /\ \A r \in reads : r.n <= seq /\ r.step \in {"info", "body", "got"}

\* The content on screen is of the selected file, or a read that will replace
\* it is under way, or the view says that it is loading.
ShowsSelected == shown = No \/ shown.k = <<ref, file>> \/ \E r \in reads : Current(r) /\ r.k = <<ref, file>>

\* "Loading" is shown only while a read that will end it is under way.
SpinnerHasRead == loading => \E r \in reads : Current(r) /\ ~ r.silent

\* Both are lost in two ways only, whatever toggles, switches and reconnects come:
\* a file is chosen while the flag of an earlier reconnect is set, which swallows
\* its read, or the project is switched off the File tab, which overtakes the read
\* under way and starts none.
ViewIsRight == ShowsSelected /\ SpinnerHasRead /\ \A r \in reads : Current(r) => r.k = <<ref, file>>
ViewSpoiltStep == ViewIsRight /\ ~ ViewIsRight' => (skip /\ ~ skip') \/ (ref' # ref /\ ~ tab)

\* A read never shows a version older than the one that was on screen: "not
\* modified" is answered for the content that is shown again.
NeverBackwardsStep ==
  shown.k = shown'.k /\ shown' # No => shown'.v >= shown.v

\* On the File tab the selected file ends up on screen, or its read has failed.
FileAppears == (tab /\ file # NoFile /\ loading) ~> ~ loading
=============================================================================
