-------------------------- MODULE SessionLifecycle --------------------------
(***************************************************************************)
(* Archive, restore and delete of one session at a hub, step by step: the  *)
(* row of the session store, the turn files, the entry of the archive      *)
(* manifest and the sessions in memory, with prompts and snapshots of the  *)
(* session that run beside them, failing steps and crashes.                *)
(***************************************************************************)
EXTENDS Integers, FiniteSets

CONSTANTS Jobs,        \* identities of requests that are served
          MaxTurns,    \* bound: turns of the session
          ShortTurns,  \* sessions with fewer turns are not archived
          MaxArchives, \* bound: archive requests
          Overlap,     \* whether requests are served at the same time
          Crashes,     \* whether the hub may crash
          Faults       \* steps that may fail
None == -1
Steps == {"append", "deleteRow", "deleteFiles", "writeTurns", "saveRow", "mark"}
LifecycleConstants ==
  /\ {MaxTurns, ShortTurns, MaxArchives} \subseteq Nat /\ {Overlap, Crashes} \subseteq BOOLEAN /\ Faults \subseteq Steps

VARIABLES row,      \* turns of the row of the session, or None
          files,    \* turns in the turn files
          arch,     \* entry of the archive manifest
          mem,      \* whether the session is among the sessions in memory
          job,      \* what every request is doing
          kept,     \* turns that the user has not deleted
          deleted,  \* whether a delete was answered, and no restore or delete has begun since
          alone,    \* whether no other request was served during the last delete
          archives, \* archive requests so far
          cut,      \* whether the row of a cut off archive or restore is left beside the entry
          torn      \* whether it is left without its files
history == <<alone, archives, cut, torn>>
vars == <<row, files, arch, mem, job, kept, deleted, history>>

Free == [op |-> "none", pc |-> "", seen |-> None]
NoEntry == [has |-> FALSE, turns |-> 0, restored |-> FALSE]
Init ==
  /\ row = 0 /\ files = 0 /\ arch = NoEntry /\ mem = TRUE /\ job = [j \in Jobs |-> Free]
  /\ kept = 0 /\ deleted = FALSE /\ alone = TRUE /\ archives = 0 /\ cut = FALSE /\ torn = FALSE

sessionIsRunning == \E j \in Jobs : job[j].op = "prompt" /\ job[j].pc = "running"
MayStart(j) == job[j] = Free /\ (Overlap \/ \A i \in Jobs : job[i] = Free)
Go(j, op, pc, seen) == job' = [job EXCEPT ![j] = [op |-> op, pc |-> pc, seen |-> seen]]
To(j, pc) == job' = [job EXCEPT ![j].pc = pc]
Finish(j) == job' = [job EXCEPT ![j] = Free]
At(j, op, pc) == job[j].op = op /\ job[j].pc = pc
\* A request that starts during a delete is beside it.
Beside == alone' = (alone /\ \A j \in Jobs : job[j].op # "delete")
-----------------------------------------------------------------------------
\* SessionByID, for a prompt or for something that saves the session.
SessionByID(j, op) ==
  /\ op \in {"prompt", "save"} /\ MayStart(j) /\ (mem \/ row # None) /\ mem' = TRUE /\ Go(j, op, "got", None)
  /\ Beside /\ UNCHANGED <<row, files, arch, kept, deleted, archives, cut, torn>>
\* persistSession, of a snapshot or of an eviction: an upsert that keeps the
\* turns of the row.
persistSession(j) ==
  /\ At(j, "save", "got") /\ row' = IF row = None THEN 0 ELSE row
  /\ mem' \in {mem, FALSE} /\ Finish(j) /\ UNCHANGED <<files, arch, kept, deleted, history>>
PromptRuns(j) == At(j, "prompt", "got") /\ ~ sessionIsRunning /\ To(j, "running") /\ UNCHANGED <<row, files, arch, mem, kept, deleted, history>>
\* The end of a prompt: the recorder loads the row, writes the turns that
\* follow and saves the row.  Turns that are missing before them stay missing.
PromptLoads(j) ==
  /\ At(j, "prompt", "running")
  /\ IF row = None THEN Finish(j) ELSE Go(j, "prompt", "persist", row)
  /\ UNCHANGED <<row, files, arch, mem, kept, deleted, history>>
PromptEnds(j) ==
  /\ At(j, "prompt", "persist") /\ job[j].seen < MaxTurns /\ row' = job[j].seen + 1
  /\ files' = (IF files < job[j].seen THEN files ELSE job[j].seen + 1)
  /\ kept' = job[j].seen + 1 /\ Finish(j) /\ UNCHANGED <<arch, mem, deleted, history>>
-----------------------------------------------------------------------------
\* deleteActiveSession: memory, row, files, in this order.
deleteActive(j, op) ==
  /\ At(j, op, "drop") /\ mem' = FALSE /\ To(j, "row") /\ UNCHANGED <<row, files, arch, kept, deleted, history>>
FilesBeforeRow(j, op) ==
  /\ At(j, op, "row") /\ files' = 0 /\ To(j, "files") /\ UNCHANGED <<row, arch, mem, kept, deleted, history>>
deleteRow(j, op) ==
  /\ At(j, op, "row")
  /\ \/ row' = None /\ To(j, "files") /\ cut' = FALSE /\ torn' = FALSE
     \/ "deleteRow" \in Faults /\ Finish(j) /\ cut' = (cut \/ op = "archive") /\ UNCHANGED <<row, torn>>
  /\ UNCHANGED <<files, arch, mem, kept, deleted, alone, archives>>
\* DeleteSessionData also ends the prompt state.
DeleteSessionData(j, op) ==
  /\ At(j, op, "files")
  /\ \/ files' = 0 /\ deleted' = (op = "delete")
     \/ "deleteFiles" \in Faults /\ UNCHANGED <<files, deleted>>
  /\ Finish(j) /\ UNCHANGED <<row, arch, mem, kept, history>>
DeleteSession(j) ==
  /\ MayStart(j) /\ ~ sessionIsRunning /\ Go(j, "delete", "drop", None) /\ kept' = 0
  /\ alone' = (\A i \in Jobs : job[i] = Free) /\ deleted' = FALSE /\ UNCHANGED <<row, files, arch, mem, archives, cut, torn>>
-----------------------------------------------------------------------------
\* archiveSession: the check, the row, a short session, an entry that is
\* there already (a restored one too), the turns.
archiveSession(j) ==
  /\ MayStart(j) /\ archives < MaxArchives /\ ~ sessionIsRunning /\ row # None /\ archives' = archives + 1
  /\ IF row < ShortTurns THEN Go(j, "archive", "drop", row) /\ kept' = 0
     ELSE kept' = kept /\ Go(j, "archive", IF arch.has THEN "drop" ELSE "append", row)
  /\ Beside /\ UNCHANGED <<row, files, arch, mem, deleted, cut, torn>>
AppendSession(j) ==
  /\ At(j, "archive", "append")
  /\ \/ arch' = (IF arch.has THEN arch ELSE [has |-> TRUE, turns |-> job[j].seen, restored |-> FALSE]) /\ To(j, "drop")
     \/ "append" \in Faults /\ Finish(j) /\ UNCHANGED arch
  /\ UNCHANGED <<row, files, mem, kept, deleted, history>>
-----------------------------------------------------------------------------
\* RestoreArchivedSession: the entry, no row, old files away, the turns, the
\* row, and the mark in the manifest, or everything back as far as the row and
\* the files can be deleted.
RestoreArchivedSession(j) ==
  /\ MayStart(j) /\ arch.has /\ ~ arch.restored /\ row = None /\ files' = 0 /\ Go(j, "restore", "write", arch.turns)
  /\ Beside /\ deleted' = FALSE /\ UNCHANGED <<row, arch, mem, kept, archives, cut, torn>>
WriteSessionTurnFiles(j) ==
  /\ At(j, "restore", "write")
  /\ \/ files' = job[j].seen /\ To(j, "save")
     \/ "writeTurns" \in Faults /\ Finish(j) /\ UNCHANGED files
  /\ UNCHANGED <<row, arch, mem, kept, deleted, history>>
DeleteFiles == files' = 0 \/ ("deleteFiles" \in Faults /\ UNCHANGED files)
SaveRestored(j) ==
  /\ At(j, "restore", "save")
  /\ \/ row' = job[j].seen /\ kept' = job[j].seen /\ To(j, "mark") /\ UNCHANGED files
     \/ "saveRow" \in Faults /\ DeleteFiles /\ Finish(j) /\ UNCHANGED <<row, kept>>
  /\ UNCHANGED <<arch, mem, deleted, history>>
TakenBack ==
  /\ DeleteFiles
  /\ \/ row' = None /\ cut' = FALSE /\ torn' = FALSE
     \/ "deleteRow" \in Faults /\ cut' = TRUE /\ torn' = (torn \/ files' < row) /\ UNCHANGED row
MarkRestored(j) ==
  /\ At(j, "restore", "mark")
  /\ \/ ~ arch.restored /\ arch' = [arch EXCEPT !.restored = TRUE] /\ UNCHANGED <<row, files, cut, torn>>
     \/ (arch.restored \/ "mark" \in Faults) /\ TakenBack /\ UNCHANGED arch
  /\ Finish(j) /\ UNCHANGED <<mem, kept, deleted, alone, archives>>
-----------------------------------------------------------------------------
\* Between the entry and the row of an archive, and between the row and the
\* mark of a restore, both are there.
Handing(r) == (r.op = "archive" /\ r.pc \in {"drop", "row"}) \/ (r.op = "restore" /\ r.pc = "mark")
\* The hub stops anywhere and starts again.
Crash ==
  /\ Crashes /\ mem' = FALSE /\ job' = [j \in Jobs |-> Free] /\ cut' = (cut \/ \E j \in Jobs : Handing(job[j]))
  /\ UNCHANGED <<row, files, arch, kept, deleted, alone, archives, torn>>

Next ==
  \/ \E j \in Jobs :
       \/ \E op \in {"prompt", "save"} : SessionByID(j, op)
       \/ persistSession(j) \/ PromptRuns(j) \/ PromptLoads(j) \/ PromptEnds(j)
       \/ \E op \in {"delete", "archive"} : deleteActive(j, op) \/ deleteRow(j, op) \/ DeleteSessionData(j, op)
       \/ DeleteSession(j) \/ archiveSession(j) \/ AppendSession(j)
       \/ RestoreArchivedSession(j) \/ WriteSessionTurnFiles(j) \/ SaveRestored(j) \/ MarkRestored(j)
  \/ Crash
Spec == Init /\ [][Next]_vars
-----------------------------------------------------------------------------
Places == {"", "got", "running", "persist", "drop", "row", "files", "append", "write", "save", "mark"}
TypeOK ==
  /\ row \in {None} \union 0..MaxTurns /\ files \in 0..MaxTurns /\ {mem, deleted, alone, cut, torn} \subseteq BOOLEAN
  /\ arch \in [has : BOOLEAN, turns : 0..MaxTurns, restored : BOOLEAN] /\ kept \in 0..MaxTurns /\ archives \in 0..MaxArchives
  /\ job \in [Jobs -> [op : {"none", "prompt", "save", "delete", "archive", "restore"}, pc : Places, seen : {None} \union 0..MaxTurns]]

\* A session that is listed can be read: the files hold the turns of its
\* row, after every crash and failing step of an archive, a restore or a
\* delete, unless a restore was taken back by half (the manifest could not be
\* marked, the files went and the row could not be deleted).
RowHasFiles == row # None /\ ~ torn => files >= row

\* Turns that the user has not deleted stay in a listed session or in a
\* listed archive entry, whatever fails on the way.
NothingLost == kept > 0 => row >= kept \/ (arch.has /\ ~ arch.restored /\ arch.turns >= kept)

\* Up to the second archive request of a session nothing is lost.
NothingLostAtFirst == archives <= 1 => NothingLost

\* After an answered delete that no other request was served beside, the
\* session is not in the store any more, through crashes and whatever is asked
\* for later and by however many requests at a time, until it is restored.
DeletedStaysDeleted == deleted /\ alone => row = None

\* When nothing is being served, a session is active or archived, not both,
\* unless an archive was cut off before its row was deleted or a restore before
\* its entry was marked (by a crash or a failing delete of the row), and then
\* only until the row goes.
OneHome == (\A j \in Jobs : job[j] = Free) /\ ~ cut => ~ (row # None /\ arch.has /\ ~ arch.restored)
=============================================================================
