----------------------------- MODULE TurnFiles -----------------------------
(***************************************************************************)
(* fileSessionTurnStore (server/internal/hub/client/session_turn_files.go) *)
(* for one session: the WMT2 files that hold a fixed number of turns each, *)
(* the order in which writeTurn changes and syncs them, and what is left   *)
(* after a failed call, a dead process or a power loss.                    *)
(*                                                                         *)
(* A content is a sequence of bytes and a body the bytes behind the slots  *)
(* of a file.  Slots are filled in order and an empty slot ends the scan   *)
(* of a header, so the used slots are a sequence.                          *)
(***************************************************************************)
EXTENDS Integers, Sequences, FiniteSets

CONSTANTS
    SlotsPerFile,   \* sessionTurnsPerFile
    Contents,       \* the contents a caller writes
    Bytes,          \* the bytes of the contents
    Garbage,        \* what a cell that was never written back holds
    Gap, Unreadable,\* what readTurn returns for a missing turn, and an error
    MaxTurn,        \* bound: turns of the session
    MaxBatch,       \* bound: contents of one WriteTurns
    MaxFaults,      \* bound: file operations that return an error
    MaxCrashes      \* bound: deaths of the process or the machine

ASSUME FilesAssumption ==
    /\ SlotsPerFile \in Nat \ {0}
    /\ Contents \subseteq Seq(Bytes) \ {<<>>}
    /\ Garbage \notin Bytes
    /\ Gap \notin Contents /\ Unreadable \notin Contents /\ Gap # Unreadable
    /\ MaxTurn \in Nat /\ MaxBatch \in Nat /\ MaxFaults \in Nat /\ MaxCrashes \in Nat

VARIABLES
    file,       \* the turn files as the process sees them, by file number
    disk,       \* what of them is certain to survive a power loss
    pc,         \* the next step of the call in progress
    cur,        \* the turn being written
    todo,       \* the contents still to write
    faults, crashes

vars == <<file, disk, pc, cur, todo, faults, crashes>>

-----------------------------------------------------------------------------
(* The format *)

FileNos == 0..(MaxTurn \div SlotsPerFile)
Heads == {"absent", "empty", "torn", "ok"}
Cells == Bytes \cup {Garbage}
Slot == [off : Nat, len : Nat \ {0}]
TurnFile == [head : Heads, slots : Seq(Slot), body : Seq(Cells)]
NoFile == [head |-> "absent", slots |-> <<>>, body |-> <<>>]

\* Mutant of FileOf: a file ends one turn too early.
FileOfShifted(i) == i \div SlotsPerFile

\* turnPath
FileOf(i) == (i - 1) \div SlotsPerFile
SlotOf(i) == ((i - 1) % SlotsPerFile) + 1

\* Mutant of EndOf: the length of the last turn has the wrong sign.
EndOfReversed(f) == IF f.slots = <<>> THEN 0
                    ELSE f.slots[Len(f.slots)].off - f.slots[Len(f.slots)].len

\* turnHeaderState: the end of the body the header knows of.
EndOf(f) == IF f.slots = <<>> THEN 0
            ELSE f.slots[Len(f.slots)].off + f.slots[Len(f.slots)].len

SlotInside(f, s) == f.slots[s].off + f.slots[s].len <= Len(f.body)

\* latestTurnIndexInFile returns an error for a header that is short or invalid
\* (an empty file has a short one) and for a slot that points outside the file.
ScanFails(f) ==
    \/ f.head \in {"empty", "torn"}
    \/ \E s \in 1..Len(f.slots) : ~SlotInside(f, s)

LatestIn(k, f) == IF f.slots = <<>> THEN 0 ELSE k * SlotsPerFile + Len(f.slots)

\* latestTurnIndex over the files of the directory.
Latest(fs) == LET ends == {LatestIn(k, fs[k]) : k \in FileNos}
              IN  CHOOSE n \in ends : \A m \in ends : m <= n

\* readTurn
ReadTurn(fs, i) ==
    LET f == fs[FileOf(i)]
        s == SlotOf(i)
    IN  IF f.head = "absent" THEN Gap
        ELSE IF f.head # "ok" THEN Unreadable
        ELSE IF s > Len(f.slots) THEN Gap
        ELSE IF ~SlotInside(f, s) THEN Unreadable
        ELSE SubSeq(f.body, f.slots[s].off + 1, f.slots[s].off + f.slots[s].len)

-----------------------------------------------------------------------------

TypeOK ==
    /\ file \in [FileNos -> TurnFile] /\ disk \in [FileNos -> TurnFile]
    /\ pc \in {"idle", "open", "header", "body", "syncBody", "slot", "syncSlot", "delete"}
    /\ cur \in Nat
    /\ todo \in Seq(Contents)
    /\ faults \in Nat /\ crashes \in Nat

Init ==
    /\ file = [k \in FileNos |-> NoFile] /\ disk = file
    /\ pc = "idle" /\ cur = 0 /\ todo = <<>>
    /\ faults = 0 /\ crashes = 0

-----------------------------------------------------------------------------
(* WriteTurns and writeTurn *)

\* WriteTurns accepts only a batch that starts behind the last turn; a refusal
\* changes nothing.
WriteTurns(contents) ==
    /\ pc = "idle"
    /\ \A k \in FileNos : ~ScanFails(file[k])
    /\ Latest(file) + Len(contents) <= MaxTurn
    /\ pc' = "open"
    /\ cur' = Latest(file) + 1
    /\ todo' = contents
    /\ UNCHANGED <<file, disk, faults, crashes>>

\* OpenFile with O_CREATE
OpenFile ==
    /\ pc = "open" /\ pc' = "header"
    /\ file' = [file EXCEPT ![FileOf(cur)].head = IF @ = "absent" THEN "empty" ELSE @]
    /\ UNCHANGED <<disk, cur, todo, faults, crashes>>

\* readOrInitTurnHeader
InitHeader ==
    /\ pc = "header" /\ pc' = "body"
    /\ file' = [file EXCEPT ![FileOf(cur)].head = "ok"]
    /\ UNCHANGED <<disk, cur, todo, faults, crashes>>

\* Mutant of BodyWith: orphan bytes are not truncated.
BodyWithOrphans(f, n) == f.body \o SubSeq(Head(todo), 1, n)

\* The body without orphan bytes, followed by n bytes of the next content.
BodyWith(f, n) == SubSeq(f.body, 1, EndOf(f)) \o SubSeq(Head(todo), 1, n)

\* Only the first empty slot may be written.  Truncate and Write.
WriteBody ==
    /\ pc = "body" /\ pc' = "syncBody"
    /\ SlotOf(cur) = Len(file[FileOf(cur)].slots) + 1
    /\ file' = [file EXCEPT ![FileOf(cur)].body =
                                BodyWith(file[FileOf(cur)], Len(Head(todo)))]
    /\ UNCHANGED <<disk, cur, todo, faults, crashes>>

\* f.Sync writes the whole file back.
Synced == disk' = [disk EXCEPT ![FileOf(cur)] = file[FileOf(cur)]]

\* Mutant of SyncBody: the slot is written without waiting for the body.
SyncBodySkipped ==
    /\ pc = "syncBody" /\ pc' = "slot"
    /\ UNCHANGED <<file, disk, cur, todo, faults, crashes>>

SyncBody ==
    /\ pc = "syncBody" /\ pc' = "slot"
    /\ Synced
    /\ UNCHANGED <<file, cur, todo, faults, crashes>>

WriteSlot ==
    /\ pc = "slot" /\ pc' = "syncSlot"
    /\ file' = [file EXCEPT ![FileOf(cur)].slots =
                    Append(@, [off |-> EndOf(file[FileOf(cur)]), len |-> Len(Head(todo))])]
    /\ todo' = Tail(todo)
    /\ UNCHANGED <<disk, cur, faults, crashes>>

\* ... and WriteTurns goes on with the next content, or returns.
SyncSlot ==
    /\ pc = "syncSlot"
    /\ Synced
    /\ IF todo = <<>> THEN pc' = "idle" /\ cur' = 0
                      ELSE pc' = "open" /\ cur' = cur + 1
    /\ UNCHANGED <<file, todo, faults, crashes>>

\* What a failing operation may leave behind: a short header, part of a body.
Partial ==
    CASE pc = "header" /\ file[FileOf(cur)].head = "empty" ->
            {[file EXCEPT ![FileOf(cur)].head = h] : h \in {"empty", "torn"}}
      [] pc = "body" ->
            {[file EXCEPT ![FileOf(cur)].body = BodyWith(file[FileOf(cur)], n)] :
                n \in 0..(Len(Head(todo)) - 1)}
      [] OTHER -> {file}

\* Any operation returns an error: WriteTurns (or DeleteTurns) gives up.
Fails ==
    /\ pc # "idle"
    /\ faults < MaxFaults /\ faults' = faults + 1
    /\ file' \in Partial
    /\ pc' = "idle" /\ cur' = 0 /\ todo' = <<>>
    /\ UNCHANGED <<disk, crashes>>

-----------------------------------------------------------------------------
(* DeleteTurns: RemoveAll removes the files of the directory one by one *)

DeleteTurns ==
    /\ pc = "idle" /\ pc' = "delete"
    /\ UNCHANGED <<file, disk, cur, todo, faults, crashes>>

RemoveFile(k) ==
    /\ pc = "delete" /\ file[k] # NoFile
    /\ file' = [file EXCEPT ![k] = NoFile]
    /\ disk' = [disk EXCEPT ![k] = NoFile]
    /\ UNCHANGED <<pc, cur, todo, faults, crashes>>

DeleteEnds ==
    /\ pc = "delete" /\ pc' = "idle"
    /\ \A k \in FileNos : file[k] = NoFile
    /\ UNCHANGED <<file, disk, cur, todo, faults, crashes>>

-----------------------------------------------------------------------------
(* Crashes *)

\* The process dies: the files stay as they are.
Killed ==
    /\ crashes < MaxCrashes /\ crashes' = crashes + 1
    /\ pc # "idle" /\ pc' = "idle" /\ cur' = 0 /\ todo' = <<>>
    /\ UNCHANGED <<file, disk, faults>>

\* What a power loss may make of a file whose synced state is d and whose last
\* state is f: each change since the sync has reached the disk, or has not, or
\* (a body, a new header) only in part.
ByteSurvives(d, f, b, i) ==
    \/ i <= Len(d.body) /\ b[i] = d.body[i]
    \/ i <= Len(f.body) /\ b[i] = f.body[i]
    \/ b[i] = Garbage /\ ~(i <= Len(d.body) /\ i <= Len(f.body) /\ d.body[i] = f.body[i])

SurvivingBodies(d, f) ==
    LET least == IF Len(d.body) < Len(f.body) THEN Len(d.body) ELSE Len(f.body)
        most == IF Len(d.body) < Len(f.body) THEN Len(f.body) ELSE Len(d.body)
    IN  UNION {{b \in [1..n -> Cells] : \A i \in 1..n : ByteSurvives(d, f, b, i)} :
                 n \in least..most}

\* The header was never synced.
Unborn(d, f) ==
    {[NoFile EXCEPT !.head = h] :
        h \in {d.head} \cup (IF f.head = "absent" THEN {} ELSE {"empty"})
                       \cup (IF f.head \in {"torn", "ok"} THEN {"torn"} ELSE {})}

Survivors(d, f) ==
    IF d.head = "ok"
    THEN {[head |-> "ok", slots |-> s, body |-> b] :
            s \in {d.slots, f.slots}, b \in SurvivingBodies(d, f)}
    ELSE Unborn(d, f) \cup
            (IF f.head = "ok"
             THEN {[head |-> "ok", slots |-> d.slots, body |-> b] : b \in SurvivingBodies(d, f)}
             ELSE {f})

PowerLoss ==
    /\ crashes < MaxCrashes /\ crashes' = crashes + 1
    /\ file' \in {fs \in [FileNos -> UNION {Survivors(disk[k], file[k]) : k \in FileNos}] :
                    \A k \in FileNos : fs[k] \in Survivors(disk[k], file[k])}
    /\ disk' = file'
    /\ pc' = "idle" /\ cur' = 0 /\ todo' = <<>>
    /\ UNCHANGED faults

-----------------------------------------------------------------------------

Batches == UNION {[1..n -> Contents] : n \in 1..MaxBatch}

Next ==
    \/ \E contents \in Batches : WriteTurns(contents)
    \/ OpenFile \/ InitHeader \/ WriteBody \/ SyncBody \/ WriteSlot \/ SyncSlot
    \/ Fails
    \/ DeleteTurns \/ (\E k \in FileNos : RemoveFile(k)) \/ DeleteEnds
    \/ Killed \/ PowerLoss

Spec == Init /\ [][Next]_vars

-----------------------------------------------------------------------------
(* Properties *)

\* Whatever failed or crashed before, reading a turn never returns an error: a
\* file with a bad header holds no turn, and a slot is never on disk before the
\* bytes it points to.  (session.read returns a gap turn only for a missing one.)
ReadsNeverFail ==
    \A i \in 1..Latest(file) : ReadTurn(file, i) # Unreadable

\* When WriteTurns accepts a batch, writeTurn never refuses one of its turns
\* ("turn slot is not next writable slot"): the first empty slot after the last
\* turn is where turnPath puts the next one.
NextSlotIsFree ==
    pc \in {"open", "header", "body", "syncBody", "slot"} =>
        SlotOf(cur) = Len(file[FileOf(cur)].slots) + 1

\* A turn file that makes every later WriteTurns fail is one that was being
\* created: it holds no turn, and no turn follows it.
OnlyNewFilesBlock ==
    \A k \in FileNos : ScanFails(file[k]) =>
        file[k].slots = <<>> /\ Latest(file) <= k * SlotsPerFile

\* The log a reader sees, and which of its turns a power loss cannot take away.
LogNow == [i \in 1..Latest(file) |-> ReadTurn(file, i)]
SyncedNow == {i \in 1..Latest(file) : SlotOf(i) <= Len(disk[FileOf(i)].slots)}

Log == INSTANCE TurnLog WITH log <- LogNow, synced <- SyncedNow

\* The files implement the log: turns are appended in the order given and with
\* the bytes given, and a synced one is lost only to a delete.
ImplementsLog == Log!Spec
=============================================================================
