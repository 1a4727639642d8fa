----------------------- MODULE SessionLifecycleProofs -----------------------
(***************************************************************************)
(* What archive, restore and delete of a session guarantee for any number  *)
(* of turns and requests, with failing steps and crashes.  Requests may    *)
(* overlap in the type invariant; everything else is about requests that   *)
(* are served one at a time, since the hub takes no lock over the steps of *)
(* one request.                                                            *)
(***************************************************************************)
EXTENDS SessionLifecycle, TLAPS

\* What the proofs below rest on. The shape of a request: where it is and what
\* it has read so far.
Turns == 0..MaxTurns
Names == {"none", "prompt", "save", "delete", "archive", "restore"}
Request == [op : Names, pc : Places, seen : {None} \union Turns]
JobShape(r) ==
  \/ r = Free
  \/ r.op = "save" /\ r.pc = "got" /\ r.seen = None
  \/ r.op = "prompt" /\ r.pc \in {"got", "running"} /\ r.seen = None
  \/ r.op = "prompt" /\ r.pc = "persist" /\ r.seen \in Turns
  \/ r.op = "delete" /\ r.pc \in {"drop", "row", "files"} /\ r.seen = None
  \/ r.op = "archive" /\ r.pc \in {"append", "drop", "row", "files"} /\ r.seen \in Turns
  \/ r.op = "restore" /\ r.pc \in {"write", "save", "mark"} /\ r.seen \in Turns
Stores ==
  /\ row \in {None} \union Turns /\ files \in Turns /\ mem \in BOOLEAN /\ deleted \in BOOLEAN
  /\ alone \in BOOLEAN /\ cut \in BOOLEAN /\ torn \in BOOLEAN
  /\ arch \in [has : BOOLEAN, turns : Turns, restored : BOOLEAN] /\ kept \in Turns /\ archives \in 0..MaxArchives
Shaped == Stores /\ job \in [Jobs -> Request] /\ \A j \in Jobs : JobShape(job[j])

\* One request at a time: at most one is being served.
OneAtATime == \A i, j \in Jobs : job[i] # Free /\ job[j] # Free => i = j
Archived == arch.has /\ ~ arch.restored
\* What a request under way knows of the row, the files, the memory and the
\* entry, each of which it read or wrote in an earlier step.
Underway(r) ==
  /\ r.op \in {"prompt", "save"} => row # None
  /\ r.op = "prompt" /\ r.pc = "persist" => row = r.seen
  /\ r.op \in {"delete", "archive"} /\ r.pc = "files" => row = None
  /\ r.op = "archive" /\ r.pc \in {"append", "drop", "row"} => row = r.seen
  /\ r.op \in {"delete", "archive"} /\ r.pc \in {"row", "files"} => ~ mem
  /\ r.op = "restore" => ~ mem /\ Archived /\ arch.turns = r.seen
  /\ r.op = "restore" /\ r.pc \in {"write", "save"} => row = None
  /\ r.op = "restore" /\ r.pc = "save" => files = r.seen
  /\ r.op = "restore" /\ r.pc = "mark" => row = r.seen /\ files = r.seen /\ kept = r.seen
\* Both homes are there only while a request hands the session over, or after
\* one that did was cut off.
HomeWhile(r) == r # Free /\ ~ Handing(r) /\ ~ cut => ~ (row # None /\ Archived)
\* A request removes the row only when its turns are deleted or in an entry.
Covered == kept = 0 \/ (Archived /\ arch.turns >= kept)
Removes(r) ==
  /\ r.op = "delete" => kept = 0
  /\ r.op = "archive" => archives >= 1
  /\ archives <= 1 /\ r.op = "archive" /\ r.pc = "append" => ~ arch.has
  /\ archives <= 1 /\ r.op = "archive" /\ r.pc \in {"drop", "row", "files"} => Covered
JobInv(r) == Underway(r) /\ HomeWhile(r) /\ Removes(r)
StoreInv ==
  /\ RowHasFiles
  /\ mem => row # None
  /\ arch.has => archives >= 1
  /\ NothingLostAtFirst
LifecycleInv == Shaped /\ OneAtATime /\ (\A j \in Jobs : JobInv(job[j])) /\ StoreInv /\ OneHome

\* The assumptions on the constants, for the provers: bounds are natural
\* numbers, switches are Booleans.
LEMMA ConstantTypes ==
  ASSUME LifecycleConstants
  PROVE  /\ MaxTurns \in Nat /\ ShortTurns \in Nat /\ MaxArchives \in Nat
         /\ Overlap \in BOOLEAN /\ Crashes \in BOOLEAN
BY DEF LifecycleConstants

\* The fields of a request that is free.
LEMMA FreeRequest == Free \in Request /\ Free.op = "none" /\ Free.pc = "" /\ Free.seen = None
BY DEF Free, Request, Names, Places, None

\* A request that starts finds all others free when requests are served one at
\* a time, and so does the next step of a request that is being served.
LEMMA OthersAreFree ==
  ASSUME ~ Overlap, OneAtATime, NEW j \in Jobs, MayStart(j) \/ job[j] # Free
  PROVE  \A i \in Jobs \ {j} : job[i] = Free
BY DEF OneAtATime, MayStart

\* What an update of one request leaves: the new record there, the others as
\* they were.
LEMMA MovedTo ==
  ASSUME job \in [Jobs -> Request], NEW j \in Jobs, NEW x \in Request, job' = [job EXCEPT ![j] = x],
         \A i \in Jobs \ {j} : job[i] = Free
  PROVE  job' \in [Jobs -> Request] /\ job'[j] = x /\ \A i \in Jobs \ {j} : job'[i] = Free
OBVIOUS

\* The invariant holds after a step of one request when it holds for that
\* request and for the stores, all other requests being free.
LEMMA Rejoin ==
  ASSUME NEW j \in Jobs, job' \in [Jobs -> Request], \A i \in Jobs \ {j} : job'[i] = Free,
         Shaped', JobInv(job[j])', StoreInv', job'[j] = Free => OneHome'
  PROVE  LifecycleInv'
<1>1. \A i \in Jobs : JobInv(job[i])'
  <2> SUFFICES ASSUME NEW i \in Jobs, i # j PROVE JobInv(job[i])'
    OBVIOUS
  <2>1. job'[i] = Free
    OBVIOUS
  <2> QED BY <2>1, FreeRequest DEF JobInv, Underway, HomeWhile, Removes
<1>2. OneAtATime'
  BY DEF OneAtATime
<1>3. OneHome'
  BY DEF OneHome
<1> QED BY <1>1, <1>2, <1>3 DEF LifecycleInv

\* The step of a request to its next place keeps its name and what it has read.
LEMMA PcMoved ==
  ASSUME job \in [Jobs -> Request], NEW j \in Jobs, NEW pc \in Places, To(j, pc)
  PROVE  /\ job' = [job EXCEPT ![j] = [op |-> job[j].op, pc |-> pc, seen |-> job[j].seen]]
         /\ [op |-> job[j].op, pc |-> pc, seen |-> job[j].seen] \in Request
<1>1. job[j] \in [op : Names, pc : Places, seen : {None} \union Turns]
  BY DEF Request
<1>2. [job[j] EXCEPT !.pc = pc] = [op |-> job[j].op, pc |-> pc, seen |-> job[j].seen]
  BY <1>1
<1> QED BY <1>1, <1>2 DEF To, Request

-----------------------------------------------------------------------------
(* Types, for requests that may overlap. *)

\* One request takes a shape again; the others are as they were.
LEMMA Reshaped ==
  ASSUME Shaped, Stores', NEW j \in Jobs, NEW x \in Request, JobShape(x), job' = [job EXCEPT ![j] = x]
  PROVE  Shaped'
<1>1. job' \in [Jobs -> Request] /\ \A i \in Jobs : job'[i] = IF i = j THEN x ELSE job[i]
  BY DEF Shaped
<1>2. \A i \in Jobs : JobShape(job'[i])
  BY <1>1 DEF Shaped
<1> QED BY <1>1, <1>2 DEF Shaped

\* SessionByID ("prompt") keeps the types.
LEMMA SessionByIDpromptTyped ==
  ASSUME LifecycleConstants, Shaped, NEW j \in Jobs, SessionByID(j, "prompt")
  PROVE  Shaped'
<1> USE DEF None
<1>1. Stores /\ job \in [Jobs -> Request] /\ job[j] \in Request /\ MaxTurns \in Nat /\ MaxArchives \in Nat
  BY ConstantTypes DEF Shaped
<1>2. /\ job' = [job EXCEPT ![j] = [op |-> "prompt", pc |-> "got", seen |-> None]]
      /\ [op |-> "prompt", pc |-> "got", seen |-> None] \in Request
  BY <1>1 DEF SessionByID, Go, Finish, Request, Names, Places, Stores, history
<1>3. JobShape([op |-> "prompt", pc |-> "got", seen |-> None])
  BY <1>1 DEF JobShape, Stores
<1>4. /\ row' = row /\ files' = files /\ arch' = arch /\ mem' = TRUE /\ kept' = kept /\ deleted' = deleted
      /\ archives' = archives /\ cut' = cut /\ torn' = torn
  BY <1>1 DEF SessionByID, history
<1>5. mem' \in BOOLEAN /\ deleted' \in BOOLEAN /\ alone' \in BOOLEAN /\ cut' \in BOOLEAN /\ torn' \in BOOLEAN
  BY <1>1, <1>4, Zenon DEF Stores, SessionByID, Beside, history
<1>6. row' \in {None} \union Turns /\ files' \in Turns /\ kept' \in Turns /\ archives' \in 0..MaxArchives
  BY <1>1, <1>4 DEF Stores, Turns
<1>7. arch' \in [has : BOOLEAN, turns : Turns, restored : BOOLEAN]
  BY <1>1, <1>4 DEF Stores
<1> QED BY <1>2, <1>3, <1>5, <1>6, <1>7, Reshaped DEF Stores

\* SessionByID ("save") keeps the types.
LEMMA SessionByIDsaveTyped ==
  ASSUME LifecycleConstants, Shaped, NEW j \in Jobs, SessionByID(j, "save")
  PROVE  Shaped'
<1> USE DEF None
<1>1. Stores /\ job \in [Jobs -> Request] /\ job[j] \in Request /\ MaxTurns \in Nat /\ MaxArchives \in Nat
  BY ConstantTypes DEF Shaped
<1>2. /\ job' = [job EXCEPT ![j] = [op |-> "save", pc |-> "got", seen |-> None]]
      /\ [op |-> "save", pc |-> "got", seen |-> None] \in Request
  BY <1>1 DEF SessionByID, Go, Finish, Request, Names, Places, Stores, history
<1>3. JobShape([op |-> "save", pc |-> "got", seen |-> None])
  BY <1>1 DEF JobShape, Stores
<1>4. /\ row' = row /\ files' = files /\ arch' = arch /\ mem' = TRUE /\ kept' = kept /\ deleted' = deleted
      /\ archives' = archives /\ cut' = cut /\ torn' = torn
  BY <1>1 DEF SessionByID, history
<1>5. mem' \in BOOLEAN /\ deleted' \in BOOLEAN /\ alone' \in BOOLEAN /\ cut' \in BOOLEAN /\ torn' \in BOOLEAN
  BY <1>1, <1>4, Zenon DEF Stores, SessionByID, Beside, history
<1>6. row' \in {None} \union Turns /\ files' \in Turns /\ kept' \in Turns /\ archives' \in 0..MaxArchives
  BY <1>1, <1>4 DEF Stores, Turns
<1>7. arch' \in [has : BOOLEAN, turns : Turns, restored : BOOLEAN]
  BY <1>1, <1>4 DEF Stores
<1> QED BY <1>2, <1>3, <1>5, <1>6, <1>7, Reshaped DEF Stores

\* persistSession keeps the types.
LEMMA persistSessionTyped ==
  ASSUME LifecycleConstants, Shaped, NEW j \in Jobs, persistSession(j)
  PROVE  Shaped'
<1> USE DEF None
<1>1. Stores /\ job \in [Jobs -> Request] /\ job[j] \in Request /\ MaxTurns \in Nat /\ MaxArchives \in Nat
  BY ConstantTypes DEF Shaped
<1>2. job[j].op = "save" /\ job[j].pc = "got" /\ job[j].seen = None
  BY FreeRequest DEF Shaped, JobShape, persistSession, At
<1>3. /\ job' = [job EXCEPT ![j] = Free]
      /\ Free \in Request
  BY <1>1, <1>2, FreeRequest DEF persistSession, Go, Finish, Request, Names, Places, Stores, history
<1>4. JobShape(Free)
  BY <1>1, <1>2 DEF JobShape, Stores
<1>5. /\ files' = files /\ arch' = arch /\ kept' = kept /\ deleted' = deleted /\ archives' = archives
      /\ cut' = cut /\ torn' = torn
  BY <1>1, <1>2 DEF persistSession, history
<1>6. mem' \in BOOLEAN /\ deleted' \in BOOLEAN /\ alone' \in BOOLEAN /\ cut' \in BOOLEAN /\ torn' \in BOOLEAN
  BY <1>1, <1>5, Zenon DEF Stores, persistSession, Beside, history
<1>7. row' \in {None} \union Turns /\ files' \in Turns /\ kept' \in Turns /\ archives' \in 0..MaxArchives
  BY <1>1, <1>2, <1>5 DEF Stores, Turns, persistSession
<1>8. arch' \in [has : BOOLEAN, turns : Turns, restored : BOOLEAN]
  BY <1>1, <1>2, <1>5 DEF Stores
<1> QED BY <1>3, <1>4, <1>6, <1>7, <1>8, Reshaped DEF Stores

\* PromptRuns keeps the types.
LEMMA PromptRunsTyped ==
  ASSUME LifecycleConstants, Shaped, NEW j \in Jobs, PromptRuns(j)
  PROVE  Shaped'
<1> USE DEF None
<1>1. Stores /\ job \in [Jobs -> Request] /\ job[j] \in Request /\ MaxTurns \in Nat /\ MaxArchives \in Nat
  BY ConstantTypes DEF Shaped
<1>2. job[j].op = "prompt" /\ job[j].pc = "got" /\ job[j].seen = None
  BY FreeRequest DEF Shaped, JobShape, PromptRuns, At
<1>3. /\ job' = [job EXCEPT ![j] = [op |-> "prompt", pc |-> "running", seen |-> job[j].seen]]
      /\ [op |-> "prompt", pc |-> "running", seen |-> job[j].seen] \in Request
  <2>1. To(j, "running") /\ "running" \in Places
    BY <1>1, <1>2 DEF PromptRuns, Places
  <2> QED BY <1>1, <1>2, <2>1, PcMoved
<1>4. JobShape([op |-> "prompt", pc |-> "running", seen |-> job[j].seen])
  BY <1>1, <1>2 DEF JobShape, Stores
<1>5. /\ row' = row /\ files' = files /\ arch' = arch /\ mem' = mem /\ kept' = kept /\ deleted' = deleted
      /\ archives' = archives /\ cut' = cut /\ torn' = torn
  BY <1>1, <1>2 DEF PromptRuns, history
<1>6. mem' \in BOOLEAN /\ deleted' \in BOOLEAN /\ alone' \in BOOLEAN /\ cut' \in BOOLEAN /\ torn' \in BOOLEAN
  BY <1>1, <1>5, Zenon DEF Stores, PromptRuns, Beside, history
<1>7. row' \in {None} \union Turns /\ files' \in Turns /\ kept' \in Turns /\ archives' \in 0..MaxArchives
  BY <1>1, <1>2, <1>5 DEF Stores, Turns
<1>8. arch' \in [has : BOOLEAN, turns : Turns, restored : BOOLEAN]
  BY <1>1, <1>2, <1>5 DEF Stores
<1> QED BY <1>3, <1>4, <1>6, <1>7, <1>8, Reshaped DEF Stores

\* PromptLoads keeps the types.
LEMMA PromptLoadsTyped ==
  ASSUME LifecycleConstants, Shaped, NEW j \in Jobs, PromptLoads(j)
  PROVE  Shaped'
<1> USE DEF None
<1>1. Stores /\ job \in [Jobs -> Request] /\ job[j] \in Request /\ MaxTurns \in Nat /\ MaxArchives \in Nat
  BY ConstantTypes DEF Shaped
<1>2. job[j].op = "prompt" /\ job[j].pc = "running" /\ job[j].seen = None
  BY FreeRequest DEF Shaped, JobShape, PromptLoads, At
<1>3. CASE row = None
  <2>1. /\ job' = [job EXCEPT ![j] = Free]
        /\ Free \in Request
    BY <1>1, <1>2, <1>3, FreeRequest DEF PromptLoads, Go, Finish, Request, Names, Places, Stores, history
  <2>2. JobShape(Free)
    BY <1>1, <1>2, <1>3 DEF JobShape, Stores
  <2>3. /\ row' = row /\ files' = files /\ arch' = arch /\ mem' = mem /\ kept' = kept /\ deleted' = deleted
        /\ archives' = archives /\ cut' = cut /\ torn' = torn
    BY <1>1, <1>2, <1>3 DEF PromptLoads, history
  <2>4. mem' \in BOOLEAN /\ deleted' \in BOOLEAN /\ alone' \in BOOLEAN /\ cut' \in BOOLEAN /\ torn' \in BOOLEAN
    BY <1>1, <2>3, Zenon DEF Stores, PromptLoads, Beside, history
  <2>5. row' \in {None} \union Turns /\ files' \in Turns /\ kept' \in Turns /\ archives' \in 0..MaxArchives
    BY <1>1, <1>2, <1>3, <2>3 DEF Stores, Turns
  <2>6. arch' \in [has : BOOLEAN, turns : Turns, restored : BOOLEAN]
    BY <1>1, <1>2, <2>3 DEF Stores
  <2> QED BY <2>1, <2>2, <2>4, <2>5, <2>6, Reshaped DEF Stores
<1>4. CASE row # None
  <2>1. /\ job' = [job EXCEPT ![j] = [op |-> "prompt", pc |-> "persist", seen |-> row]]
        /\ [op |-> "prompt", pc |-> "persist", seen |-> row] \in Request
    BY <1>1, <1>2, <1>4 DEF PromptLoads, Go, Finish, Request, Names, Places, Stores, history
  <2>2. JobShape([op |-> "prompt", pc |-> "persist", seen |-> row])
    BY <1>1, <1>2, <1>4 DEF JobShape, Stores
  <2>3. /\ row' = row /\ files' = files /\ arch' = arch /\ mem' = mem /\ kept' = kept /\ deleted' = deleted
        /\ archives' = archives /\ cut' = cut /\ torn' = torn
    BY <1>1, <1>2, <1>4 DEF PromptLoads, history
  <2>4. mem' \in BOOLEAN /\ deleted' \in BOOLEAN /\ alone' \in BOOLEAN /\ cut' \in BOOLEAN /\ torn' \in BOOLEAN
    BY <1>1, <2>3, Zenon DEF Stores, PromptLoads, Beside, history
  <2>5. row' \in {None} \union Turns /\ files' \in Turns /\ kept' \in Turns /\ archives' \in 0..MaxArchives
    BY <1>1, <1>2, <1>4, <2>3 DEF Stores, Turns
  <2>6. arch' \in [has : BOOLEAN, turns : Turns, restored : BOOLEAN]
    BY <1>1, <1>2, <2>3 DEF Stores
  <2> QED BY <2>1, <2>2, <2>4, <2>5, <2>6, Reshaped DEF Stores
<1> QED BY <1>3, <1>4 DEF PromptLoads

\* PromptEnds keeps the types.
LEMMA PromptEndsTyped ==
  ASSUME LifecycleConstants, Shaped, NEW j \in Jobs, PromptEnds(j)
  PROVE  Shaped'
<1> USE DEF None
<1>1. Stores /\ job \in [Jobs -> Request] /\ job[j] \in Request /\ MaxTurns \in Nat /\ MaxArchives \in Nat
  BY ConstantTypes DEF Shaped
<1>2. job[j].op = "prompt" /\ job[j].pc = "persist" /\ job[j].seen \in Turns
  BY FreeRequest DEF Shaped, JobShape, PromptEnds, At
<1>3. job[j].seen < MaxTurns
  BY <1>1 DEF PromptEnds, Stores, Turns
<1>4. /\ job' = [job EXCEPT ![j] = Free]
      /\ Free \in Request
  BY <1>1, <1>2, <1>3, FreeRequest DEF PromptEnds, Go, Finish, Request, Names, Places, Stores, history
<1>5. JobShape(Free)
  BY <1>1, <1>2, <1>3 DEF JobShape, Stores
<1>6. /\ row' = (job[j].seen + 1) /\ files' = (IF files < job[j].seen THEN files ELSE job[j].seen + 1)
      /\ arch' = arch /\ mem' = mem /\ kept' = (job[j].seen + 1) /\ deleted' = deleted /\ archives' = archives
      /\ cut' = cut /\ torn' = torn
  BY <1>1, <1>2, <1>3 DEF PromptEnds, history
<1>7. mem' \in BOOLEAN /\ deleted' \in BOOLEAN /\ alone' \in BOOLEAN /\ cut' \in BOOLEAN /\ torn' \in BOOLEAN
  BY <1>1, <1>6, Zenon DEF Stores, PromptEnds, Beside, history
<1>8. row' \in {None} \union Turns /\ files' \in Turns /\ kept' \in Turns /\ archives' \in 0..MaxArchives
  BY <1>1, <1>2, <1>3, <1>6 DEF Stores, Turns
<1>9. arch' \in [has : BOOLEAN, turns : Turns, restored : BOOLEAN]
  BY <1>1, <1>2, <1>3, <1>6 DEF Stores
<1> QED BY <1>4, <1>5, <1>7, <1>8, <1>9, Reshaped DEF Stores

\* deleteActive ("delete") keeps the types.
LEMMA deleteActivedeleteTyped ==
  ASSUME LifecycleConstants, Shaped, NEW j \in Jobs, deleteActive(j, "delete")
  PROVE  Shaped'
<1> USE DEF None
<1>1. Stores /\ job \in [Jobs -> Request] /\ job[j] \in Request /\ MaxTurns \in Nat /\ MaxArchives \in Nat
  BY ConstantTypes DEF Shaped
<1>2. job[j].op = "delete" /\ job[j].pc = "drop" /\ job[j].seen = None
  BY FreeRequest DEF Shaped, JobShape, deleteActive, At
<1>3. /\ job' = [job EXCEPT ![j] = [op |-> "delete", pc |-> "row", seen |-> job[j].seen]]
      /\ [op |-> "delete", pc |-> "row", seen |-> job[j].seen] \in Request
  <2>1. To(j, "row") /\ "row" \in Places
    BY <1>1, <1>2 DEF deleteActive, Places
  <2> QED BY <1>1, <1>2, <2>1, PcMoved
<1>4. JobShape([op |-> "delete", pc |-> "row", seen |-> job[j].seen])
  BY <1>1, <1>2 DEF JobShape, Stores
<1>5. /\ row' = row /\ files' = files /\ arch' = arch /\ mem' = FALSE /\ kept' = kept /\ deleted' = deleted
      /\ archives' = archives /\ cut' = cut /\ torn' = torn
  BY <1>1, <1>2 DEF deleteActive, history
<1>6. mem' \in BOOLEAN /\ deleted' \in BOOLEAN /\ alone' \in BOOLEAN /\ cut' \in BOOLEAN /\ torn' \in BOOLEAN
  BY <1>1, <1>5, Zenon DEF Stores, deleteActive, Beside, history
<1>7. row' \in {None} \union Turns /\ files' \in Turns /\ kept' \in Turns /\ archives' \in 0..MaxArchives
  BY <1>1, <1>2, <1>5 DEF Stores, Turns
<1>8. arch' \in [has : BOOLEAN, turns : Turns, restored : BOOLEAN]
  BY <1>1, <1>2, <1>5 DEF Stores
<1> QED BY <1>3, <1>4, <1>6, <1>7, <1>8, Reshaped DEF Stores

\* deleteRow ("delete") keeps the types.
LEMMA deleteRowdeleteTyped ==
  ASSUME LifecycleConstants, Shaped, NEW j \in Jobs, deleteRow(j, "delete")
  PROVE  Shaped'
<1> USE DEF None
<1>1. Stores /\ job \in [Jobs -> Request] /\ job[j] \in Request /\ MaxTurns \in Nat /\ MaxArchives \in Nat
  BY ConstantTypes DEF Shaped
<1>2. job[j].op = "delete" /\ job[j].pc = "row" /\ job[j].seen = None
  BY FreeRequest DEF Shaped, JobShape, deleteRow, At
<1>3. CASE row' = None /\ To(j, "files") /\ cut' = FALSE /\ torn' = FALSE
  <2>1. /\ job' = [job EXCEPT ![j] = [op |-> "delete", pc |-> "files", seen |-> job[j].seen]]
        /\ [op |-> "delete", pc |-> "files", seen |-> job[j].seen] \in Request
    <3>1. To(j, "files") /\ "files" \in Places
      BY <1>1, <1>2, <1>3 DEF deleteRow, Places
    <3> QED BY <1>1, <1>2, <1>3, <3>1, PcMoved
  <2>2. JobShape([op |-> "delete", pc |-> "files", seen |-> job[j].seen])
    BY <1>1, <1>2, <1>3 DEF JobShape, Stores
  <2>3. /\ row' = None /\ files' = files /\ arch' = arch /\ mem' = mem /\ kept' = kept /\ deleted' = deleted
        /\ archives' = archives /\ cut' = FALSE /\ torn' = FALSE
    BY <1>1, <1>2, <1>3 DEF deleteRow, history
  <2>4. mem' \in BOOLEAN /\ deleted' \in BOOLEAN /\ alone' \in BOOLEAN /\ cut' \in BOOLEAN /\ torn' \in BOOLEAN
    BY <1>1, <2>3, Zenon DEF Stores, deleteRow, Beside, history
  <2>5. row' \in {None} \union Turns /\ files' \in Turns /\ kept' \in Turns /\ archives' \in 0..MaxArchives
    BY <1>1, <1>2, <1>3, <2>3 DEF Stores, Turns
  <2>6. arch' \in [has : BOOLEAN, turns : Turns, restored : BOOLEAN]
    BY <1>1, <1>2, <2>3 DEF Stores
  <2> QED BY <2>1, <2>2, <2>4, <2>5, <2>6, Reshaped DEF Stores
<1>4. CASE "deleteRow" \in Faults /\ Finish(j) /\ cut' = (cut \/ "delete" = "archive") /\ UNCHANGED <<row, torn>>
  <2>1. /\ job' = [job EXCEPT ![j] = Free]
        /\ Free \in Request
    BY <1>1, <1>2, <1>4, FreeRequest DEF deleteRow, Go, Finish, Request, Names, Places, Stores, history
  <2>2. JobShape(Free)
    BY <1>1, <1>2, <1>4 DEF JobShape, Stores
  <2>3. /\ row' = row /\ files' = files /\ arch' = arch /\ mem' = mem /\ kept' = kept /\ deleted' = deleted
        /\ archives' = archives /\ cut' = (cut \/ "delete" = "archive") /\ torn' = torn
    BY <1>1, <1>2, <1>4 DEF deleteRow, history
  <2>4. mem' \in BOOLEAN /\ deleted' \in BOOLEAN /\ alone' \in BOOLEAN /\ cut' \in BOOLEAN /\ torn' \in BOOLEAN
    BY <1>1, <2>3, Zenon DEF Stores, deleteRow, Beside, history
  <2>5. row' \in {None} \union Turns /\ files' \in Turns /\ kept' \in Turns /\ archives' \in 0..MaxArchives
    BY <1>1, <1>2, <1>4, <2>3 DEF Stores, Turns
  <2>6. arch' \in [has : BOOLEAN, turns : Turns, restored : BOOLEAN]
    BY <1>1, <1>2, <2>3 DEF Stores
  <2> QED BY <2>1, <2>2, <2>4, <2>5, <2>6, Reshaped DEF Stores
<1> QED BY <1>3, <1>4 DEF deleteRow

\* DeleteSessionData ("delete") keeps the types.
LEMMA DeleteSessionDatadeleteTyped ==
  ASSUME LifecycleConstants, Shaped, NEW j \in Jobs, DeleteSessionData(j, "delete")
  PROVE  Shaped'
<1> USE DEF None
<1>1. Stores /\ job \in [Jobs -> Request] /\ job[j] \in Request /\ MaxTurns \in Nat /\ MaxArchives \in Nat
  BY ConstantTypes DEF Shaped
<1>2. job[j].op = "delete" /\ job[j].pc = "files" /\ job[j].seen = None
  BY FreeRequest DEF Shaped, JobShape, DeleteSessionData, At
<1>3. /\ job' = [job EXCEPT ![j] = Free]
      /\ Free \in Request
  BY <1>1, <1>2, FreeRequest DEF DeleteSessionData, Go, Finish, Request, Names, Places, Stores, history
<1>4. JobShape(Free)
  BY <1>1, <1>2 DEF JobShape, Stores
<1>5. /\ row' = row /\ arch' = arch /\ mem' = mem /\ kept' = kept /\ archives' = archives /\ cut' = cut
      /\ torn' = torn
  BY <1>1, <1>2 DEF DeleteSessionData, history
<1>6. mem' \in BOOLEAN /\ deleted' \in BOOLEAN /\ alone' \in BOOLEAN /\ cut' \in BOOLEAN /\ torn' \in BOOLEAN
  BY <1>1, <1>5, Zenon DEF Stores, DeleteSessionData, Beside, history
<1>7. row' \in {None} \union Turns /\ files' \in Turns /\ kept' \in Turns /\ archives' \in 0..MaxArchives
  BY <1>1, <1>2, <1>5 DEF Stores, Turns, DeleteSessionData
<1>8. arch' \in [has : BOOLEAN, turns : Turns, restored : BOOLEAN]
  BY <1>1, <1>2, <1>5 DEF Stores
<1> QED BY <1>3, <1>4, <1>6, <1>7, <1>8, Reshaped DEF Stores

\* deleteActive ("archive") keeps the types.
LEMMA deleteActivearchiveTyped ==
  ASSUME LifecycleConstants, Shaped, NEW j \in Jobs, deleteActive(j, "archive")
  PROVE  Shaped'
<1> USE DEF None
<1>1. Stores /\ job \in [Jobs -> Request] /\ job[j] \in Request /\ MaxTurns \in Nat /\ MaxArchives \in Nat
  BY ConstantTypes DEF Shaped
<1>2. job[j].op = "archive" /\ job[j].pc = "drop" /\ job[j].seen \in Turns
  BY FreeRequest DEF Shaped, JobShape, deleteActive, At
<1>3. /\ job' = [job EXCEPT ![j] = [op |-> "archive", pc |-> "row", seen |-> job[j].seen]]
      /\ [op |-> "archive", pc |-> "row", seen |-> job[j].seen] \in Request
  <2>1. To(j, "row") /\ "row" \in Places
    BY <1>1, <1>2 DEF deleteActive, Places
  <2> QED BY <1>1, <1>2, <2>1, PcMoved
<1>4. JobShape([op |-> "archive", pc |-> "row", seen |-> job[j].seen])
  BY <1>1, <1>2 DEF JobShape, Stores
<1>5. /\ row' = row /\ files' = files /\ arch' = arch /\ mem' = FALSE /\ kept' = kept /\ deleted' = deleted
      /\ archives' = archives /\ cut' = cut /\ torn' = torn
  BY <1>1, <1>2 DEF deleteActive, history
<1>6. mem' \in BOOLEAN /\ deleted' \in BOOLEAN /\ alone' \in BOOLEAN /\ cut' \in BOOLEAN /\ torn' \in BOOLEAN
  BY <1>1, <1>5, Zenon DEF Stores, deleteActive, Beside, history
<1>7. row' \in {None} \union Turns /\ files' \in Turns /\ kept' \in Turns /\ archives' \in 0..MaxArchives
  BY <1>1, <1>2, <1>5 DEF Stores, Turns
<1>8. arch' \in [has : BOOLEAN, turns : Turns, restored : BOOLEAN]
  BY <1>1, <1>2, <1>5 DEF Stores
<1> QED BY <1>3, <1>4, <1>6, <1>7, <1>8, Reshaped DEF Stores

\* deleteRow ("archive") keeps the types.
LEMMA deleteRowarchiveTyped ==
  ASSUME LifecycleConstants, Shaped, NEW j \in Jobs, deleteRow(j, "archive")
  PROVE  Shaped'
<1> USE DEF None
<1>1. Stores /\ job \in [Jobs -> Request] /\ job[j] \in Request /\ MaxTurns \in Nat /\ MaxArchives \in Nat
  BY ConstantTypes DEF Shaped
<1>2. job[j].op = "archive" /\ job[j].pc = "row" /\ job[j].seen \in Turns
  BY FreeRequest DEF Shaped, JobShape, deleteRow, At
<1>3. CASE row' = None /\ To(j, "files") /\ cut' = FALSE /\ torn' = FALSE
  <2>1. /\ job' = [job EXCEPT ![j] = [op |-> "archive", pc |-> "files", seen |-> job[j].seen]]
        /\ [op |-> "archive", pc |-> "files", seen |-> job[j].seen] \in Request
    <3>1. To(j, "files") /\ "files" \in Places
      BY <1>1, <1>2, <1>3 DEF deleteRow, Places
    <3> QED BY <1>1, <1>2, <1>3, <3>1, PcMoved
  <2>2. JobShape([op |-> "archive", pc |-> "files", seen |-> job[j].seen])
    BY <1>1, <1>2, <1>3 DEF JobShape, Stores
  <2>3. /\ row' = None /\ files' = files /\ arch' = arch /\ mem' = mem /\ kept' = kept /\ deleted' = deleted
        /\ archives' = archives /\ cut' = FALSE /\ torn' = FALSE
    BY <1>1, <1>2, <1>3 DEF deleteRow, history
  <2>4. mem' \in BOOLEAN /\ deleted' \in BOOLEAN /\ alone' \in BOOLEAN /\ cut' \in BOOLEAN /\ torn' \in BOOLEAN
    BY <1>1, <2>3, Zenon DEF Stores, deleteRow, Beside, history
  <2>5. row' \in {None} \union Turns /\ files' \in Turns /\ kept' \in Turns /\ archives' \in 0..MaxArchives
    BY <1>1, <1>2, <1>3, <2>3 DEF Stores, Turns
  <2>6. arch' \in [has : BOOLEAN, turns : Turns, restored : BOOLEAN]
    BY <1>1, <1>2, <2>3 DEF Stores
  <2> QED BY <2>1, <2>2, <2>4, <2>5, <2>6, Reshaped DEF Stores
<1>4. CASE "deleteRow" \in Faults /\ Finish(j) /\ cut' = (cut \/ "archive" = "archive") /\ UNCHANGED <<row, torn>>
  <2>1. /\ job' = [job EXCEPT ![j] = Free]
        /\ Free \in Request
    BY <1>1, <1>2, <1>4, FreeRequest DEF deleteRow, Go, Finish, Request, Names, Places, Stores, history
  <2>2. JobShape(Free)
    BY <1>1, <1>2, <1>4 DEF JobShape, Stores
  <2>3. /\ row' = row /\ files' = files /\ arch' = arch /\ mem' = mem /\ kept' = kept /\ deleted' = deleted
        /\ archives' = archives /\ cut' = (cut \/ "archive" = "archive") /\ torn' = torn
    BY <1>1, <1>2, <1>4 DEF deleteRow, history
  <2>4. mem' \in BOOLEAN /\ deleted' \in BOOLEAN /\ alone' \in BOOLEAN /\ cut' \in BOOLEAN /\ torn' \in BOOLEAN
    BY <1>1, <2>3, Zenon DEF Stores, deleteRow, Beside, history
  <2>5. row' \in {None} \union Turns /\ files' \in Turns /\ kept' \in Turns /\ archives' \in 0..MaxArchives
    BY <1>1, <1>2, <1>4, <2>3 DEF Stores, Turns
  <2>6. arch' \in [has : BOOLEAN, turns : Turns, restored : BOOLEAN]
    BY <1>1, <1>2, <2>3 DEF Stores
  <2> QED BY <2>1, <2>2, <2>4, <2>5, <2>6, Reshaped DEF Stores
<1> QED BY <1>3, <1>4 DEF deleteRow

\* DeleteSessionData ("archive") keeps the types.
LEMMA DeleteSessionDataarchiveTyped ==
  ASSUME LifecycleConstants, Shaped, NEW j \in Jobs, DeleteSessionData(j, "archive")
  PROVE  Shaped'
<1> USE DEF None
<1>1. Stores /\ job \in [Jobs -> Request] /\ job[j] \in Request /\ MaxTurns \in Nat /\ MaxArchives \in Nat
  BY ConstantTypes DEF Shaped
<1>2. job[j].op = "archive" /\ job[j].pc = "files" /\ job[j].seen \in Turns
  BY FreeRequest DEF Shaped, JobShape, DeleteSessionData, At
<1>3. /\ job' = [job EXCEPT ![j] = Free]
      /\ Free \in Request
  BY <1>1, <1>2, FreeRequest DEF DeleteSessionData, Go, Finish, Request, Names, Places, Stores, history
<1>4. JobShape(Free)
  BY <1>1, <1>2 DEF JobShape, Stores
<1>5. /\ row' = row /\ arch' = arch /\ mem' = mem /\ kept' = kept /\ archives' = archives /\ cut' = cut
      /\ torn' = torn
  BY <1>1, <1>2 DEF DeleteSessionData, history
<1>6. mem' \in BOOLEAN /\ deleted' \in BOOLEAN /\ alone' \in BOOLEAN /\ cut' \in BOOLEAN /\ torn' \in BOOLEAN
  BY <1>1, <1>5, Zenon DEF Stores, DeleteSessionData, Beside, history
<1>7. row' \in {None} \union Turns /\ files' \in Turns /\ kept' \in Turns /\ archives' \in 0..MaxArchives
  BY <1>1, <1>2, <1>5 DEF Stores, Turns, DeleteSessionData
<1>8. arch' \in [has : BOOLEAN, turns : Turns, restored : BOOLEAN]
  BY <1>1, <1>2, <1>5 DEF Stores
<1> QED BY <1>3, <1>4, <1>6, <1>7, <1>8, Reshaped DEF Stores

\* DeleteSession keeps the types.
LEMMA DeleteSessionTyped ==
  ASSUME LifecycleConstants, Shaped, NEW j \in Jobs, DeleteSession(j)
  PROVE  Shaped'
<1> USE DEF None
<1>1. Stores /\ job \in [Jobs -> Request] /\ job[j] \in Request /\ MaxTurns \in Nat /\ MaxArchives \in Nat
  BY ConstantTypes DEF Shaped
<1>2. /\ job' = [job EXCEPT ![j] = [op |-> "delete", pc |-> "drop", seen |-> None]]
      /\ [op |-> "delete", pc |-> "drop", seen |-> None] \in Request
  BY <1>1 DEF DeleteSession, Go, Finish, Request, Names, Places, Stores, history
<1>3. JobShape([op |-> "delete", pc |-> "drop", seen |-> None])
  BY <1>1 DEF JobShape, Stores
<1>4. /\ row' = row /\ files' = files /\ arch' = arch /\ mem' = mem /\ kept' = 0 /\ deleted' = FALSE
      /\ archives' = archives /\ cut' = cut /\ torn' = torn
  BY <1>1 DEF DeleteSession, history
<1>5. mem' \in BOOLEAN /\ deleted' \in BOOLEAN /\ alone' \in BOOLEAN /\ cut' \in BOOLEAN /\ torn' \in BOOLEAN
  BY <1>1, <1>4, Zenon DEF Stores, DeleteSession, Beside, history
<1>6. row' \in {None} \union Turns /\ files' \in Turns /\ kept' \in Turns /\ archives' \in 0..MaxArchives
  BY <1>1, <1>4 DEF Stores, Turns
<1>7. arch' \in [has : BOOLEAN, turns : Turns, restored : BOOLEAN]
  BY <1>1, <1>4 DEF Stores
<1> QED BY <1>2, <1>3, <1>5, <1>6, <1>7, Reshaped DEF Stores

\* archiveSession keeps the types.
LEMMA archiveSessionTyped ==
  ASSUME LifecycleConstants, Shaped, NEW j \in Jobs, archiveSession(j)
  PROVE  Shaped'
<1> USE DEF None
<1>1. Stores /\ job \in [Jobs -> Request] /\ job[j] \in Request /\ MaxTurns \in Nat /\ MaxArchives \in Nat
  BY ConstantTypes DEF Shaped
<1>2. row \in Turns /\ archives < MaxArchives
  BY <1>1 DEF archiveSession, Stores, Turns
<1>3. CASE row < ShortTurns
  <2>1. /\ job' = [job EXCEPT ![j] = [op |-> "archive", pc |-> "drop", seen |-> row]]
        /\ [op |-> "archive", pc |-> "drop", seen |-> row] \in Request
    BY <1>1, <1>2, <1>3 DEF archiveSession, Go, Finish, Request, Names, Places, Stores, history
  <2>2. JobShape([op |-> "archive", pc |-> "drop", seen |-> row])
    BY <1>1, <1>2, <1>3 DEF JobShape, Stores
  <2>3. /\ row' = row /\ files' = files /\ arch' = arch /\ mem' = mem /\ kept' = 0 /\ deleted' = deleted
        /\ archives' = (archives + 1) /\ cut' = cut /\ torn' = torn
    BY <1>1, <1>2, <1>3 DEF archiveSession, history
  <2>4. mem' \in BOOLEAN /\ deleted' \in BOOLEAN /\ alone' \in BOOLEAN /\ cut' \in BOOLEAN /\ torn' \in BOOLEAN
    BY <1>1, <2>3, Zenon DEF Stores, archiveSession, Beside, history
  <2>5. row' \in {None} \union Turns /\ files' \in Turns /\ kept' \in Turns /\ archives' \in 0..MaxArchives
    BY <1>1, <1>2, <1>3, <2>3 DEF Stores, Turns
  <2>6. arch' \in [has : BOOLEAN, turns : Turns, restored : BOOLEAN]
    BY <1>1, <1>2, <2>3 DEF Stores
  <2> QED BY <2>1, <2>2, <2>4, <2>5, <2>6, Reshaped DEF Stores
<1>4. CASE ~ (row < ShortTurns) /\ arch.has
  <2>1. /\ job' = [job EXCEPT ![j] = [op |-> "archive", pc |-> "drop", seen |-> row]]
        /\ [op |-> "archive", pc |-> "drop", seen |-> row] \in Request
    BY <1>1, <1>2, <1>4 DEF archiveSession, Go, Finish, Request, Names, Places, Stores, history
  <2>2. JobShape([op |-> "archive", pc |-> "drop", seen |-> row])
    BY <1>1, <1>2, <1>4 DEF JobShape, Stores
  <2>3. /\ row' = row /\ files' = files /\ arch' = arch /\ mem' = mem /\ kept' = kept /\ deleted' = deleted
        /\ archives' = (archives + 1) /\ cut' = cut /\ torn' = torn
    BY <1>1, <1>2, <1>4 DEF archiveSession, history
  <2>4. mem' \in BOOLEAN /\ deleted' \in BOOLEAN /\ alone' \in BOOLEAN /\ cut' \in BOOLEAN /\ torn' \in BOOLEAN
    BY <1>1, <2>3, Zenon DEF Stores, archiveSession, Beside, history
  <2>5. row' \in {None} \union Turns /\ files' \in Turns /\ kept' \in Turns /\ archives' \in 0..MaxArchives
    BY <1>1, <1>2, <1>4, <2>3 DEF Stores, Turns
  <2>6. arch' \in [has : BOOLEAN, turns : Turns, restored : BOOLEAN]
    BY <1>1, <1>2, <2>3 DEF Stores
  <2> QED BY <2>1, <2>2, <2>4, <2>5, <2>6, Reshaped DEF Stores
<1>5. CASE ~ (row < ShortTurns) /\ ~ arch.has
  <2>1. /\ job' = [job EXCEPT ![j] = [op |-> "archive", pc |-> "append", seen |-> row]]
        /\ [op |-> "archive", pc |-> "append", seen |-> row] \in Request
    BY <1>1, <1>2, <1>5 DEF archiveSession, Go, Finish, Request, Names, Places, Stores, history
  <2>2. JobShape([op |-> "archive", pc |-> "append", seen |-> row])
    BY <1>1, <1>2, <1>5 DEF JobShape, Stores
  <2>3. /\ row' = row /\ files' = files /\ arch' = arch /\ mem' = mem /\ kept' = kept /\ deleted' = deleted
        /\ archives' = (archives + 1) /\ cut' = cut /\ torn' = torn
    BY <1>1, <1>2, <1>5 DEF archiveSession, history
  <2>4. mem' \in BOOLEAN /\ deleted' \in BOOLEAN /\ alone' \in BOOLEAN /\ cut' \in BOOLEAN /\ torn' \in BOOLEAN
    BY <1>1, <2>3, Zenon DEF Stores, archiveSession, Beside, history
  <2>5. row' \in {None} \union Turns /\ files' \in Turns /\ kept' \in Turns /\ archives' \in 0..MaxArchives
    BY <1>1, <1>2, <1>5, <2>3 DEF Stores, Turns
  <2>6. arch' \in [has : BOOLEAN, turns : Turns, restored : BOOLEAN]
    BY <1>1, <1>2, <2>3 DEF Stores
  <2> QED BY <2>1, <2>2, <2>4, <2>5, <2>6, Reshaped DEF Stores
<1> QED BY <1>3, <1>4, <1>5 DEF archiveSession

\* AppendSession keeps the types.
LEMMA AppendSessionTyped ==
  ASSUME LifecycleConstants, Shaped, NEW j \in Jobs, AppendSession(j)
  PROVE  Shaped'
<1> USE DEF None
<1>1. Stores /\ job \in [Jobs -> Request] /\ job[j] \in Request /\ MaxTurns \in Nat /\ MaxArchives \in Nat
  BY ConstantTypes DEF Shaped
<1>2. job[j].op = "archive" /\ job[j].pc = "append" /\ job[j].seen \in Turns
  BY FreeRequest DEF Shaped, JobShape, AppendSession, At
<1>3. CASE /\ arch' = (IF arch.has THEN arch ELSE [has |-> TRUE, turns |-> job[j].seen, restored |-> FALSE])
           /\ To(j, "drop")
  <2>1. /\ job' = [job EXCEPT ![j] = [op |-> "archive", pc |-> "drop", seen |-> job[j].seen]]
        /\ [op |-> "archive", pc |-> "drop", seen |-> job[j].seen] \in Request
    <3>1. To(j, "drop") /\ "drop" \in Places
      BY <1>1, <1>2, <1>3 DEF AppendSession, Places
    <3> QED BY <1>1, <1>2, <1>3, <3>1, PcMoved
  <2>2. JobShape([op |-> "archive", pc |-> "drop", seen |-> job[j].seen])
    BY <1>1, <1>2, <1>3 DEF JobShape, Stores
  <2>3. /\ row' = row /\ files' = files
        /\ arch' = (IF arch.has THEN arch ELSE [has |-> TRUE, turns |-> job[j].seen, restored |-> FALSE])
        /\ mem' = mem /\ kept' = kept /\ deleted' = deleted /\ archives' = archives /\ cut' = cut
        /\ torn' = torn
    BY <1>1, <1>2, <1>3 DEF AppendSession, history
  <2>4. mem' \in BOOLEAN /\ deleted' \in BOOLEAN /\ alone' \in BOOLEAN /\ cut' \in BOOLEAN /\ torn' \in BOOLEAN
    BY <1>1, <2>3, Zenon DEF Stores, AppendSession, Beside, history
  <2>5. row' \in {None} \union Turns /\ files' \in Turns /\ kept' \in Turns /\ archives' \in 0..MaxArchives
    BY <1>1, <1>2, <1>3, <2>3 DEF Stores, Turns
  <2>6. arch' \in [has : BOOLEAN, turns : Turns, restored : BOOLEAN]
    BY <1>1, <1>2, <2>3 DEF Stores
  <2> QED BY <2>1, <2>2, <2>4, <2>5, <2>6, Reshaped DEF Stores
<1>4. CASE "append" \in Faults /\ Finish(j) /\ UNCHANGED arch
  <2>1. /\ job' = [job EXCEPT ![j] = Free]
        /\ Free \in Request
    BY <1>1, <1>2, <1>4, FreeRequest DEF AppendSession, Go, Finish, Request, Names, Places, Stores, history
  <2>2. JobShape(Free)
    BY <1>1, <1>2, <1>4 DEF JobShape, Stores
  <2>3. /\ row' = row /\ files' = files /\ arch' = arch /\ mem' = mem /\ kept' = kept /\ deleted' = deleted
        /\ archives' = archives /\ cut' = cut /\ torn' = torn
    BY <1>1, <1>2, <1>4 DEF AppendSession, history
  <2>4. mem' \in BOOLEAN /\ deleted' \in BOOLEAN /\ alone' \in BOOLEAN /\ cut' \in BOOLEAN /\ torn' \in BOOLEAN
    BY <1>1, <2>3, Zenon DEF Stores, AppendSession, Beside, history
  <2>5. row' \in {None} \union Turns /\ files' \in Turns /\ kept' \in Turns /\ archives' \in 0..MaxArchives
    BY <1>1, <1>2, <1>4, <2>3 DEF Stores, Turns
  <2>6. arch' \in [has : BOOLEAN, turns : Turns, restored : BOOLEAN]
    BY <1>1, <1>2, <2>3 DEF Stores
  <2> QED BY <2>1, <2>2, <2>4, <2>5, <2>6, Reshaped DEF Stores
<1> QED BY <1>3, <1>4 DEF AppendSession

\* RestoreArchivedSession keeps the types.
LEMMA RestoreArchivedSessionTyped ==
  ASSUME LifecycleConstants, Shaped, NEW j \in Jobs, RestoreArchivedSession(j)
  PROVE  Shaped'
<1> USE DEF None
<1>1. Stores /\ job \in [Jobs -> Request] /\ job[j] \in Request /\ MaxTurns \in Nat /\ MaxArchives \in Nat
  BY ConstantTypes DEF Shaped
<1>2. arch.turns \in Turns
  BY <1>1 DEF RestoreArchivedSession, Stores, Turns
<1>3. /\ job' = [job EXCEPT ![j] = [op |-> "restore", pc |-> "write", seen |-> arch.turns]]
      /\ [op |-> "restore", pc |-> "write", seen |-> arch.turns] \in Request
  BY <1>1, <1>2 DEF RestoreArchivedSession, Go, Finish, Request, Names, Places, Stores, history
<1>4. JobShape([op |-> "restore", pc |-> "write", seen |-> arch.turns])
  BY <1>1, <1>2 DEF JobShape, Stores
<1>5. /\ row' = row /\ files' = 0 /\ arch' = arch /\ mem' = mem /\ kept' = kept /\ deleted' = FALSE
      /\ archives' = archives /\ cut' = cut /\ torn' = torn
  BY <1>1, <1>2 DEF RestoreArchivedSession, history
<1>6. mem' \in BOOLEAN /\ deleted' \in BOOLEAN /\ alone' \in BOOLEAN /\ cut' \in BOOLEAN /\ torn' \in BOOLEAN
  BY <1>1, <1>5, Zenon DEF Stores, RestoreArchivedSession, Beside, history
<1>7. row' \in {None} \union Turns /\ files' \in Turns /\ kept' \in Turns /\ archives' \in 0..MaxArchives
  BY <1>1, <1>2, <1>5 DEF Stores, Turns
<1>8. arch' \in [has : BOOLEAN, turns : Turns, restored : BOOLEAN]
  BY <1>1, <1>2, <1>5 DEF Stores
<1> QED BY <1>3, <1>4, <1>6, <1>7, <1>8, Reshaped DEF Stores

\* WriteSessionTurnFiles keeps the types.
LEMMA WriteSessionTurnFilesTyped ==
  ASSUME LifecycleConstants, Shaped, NEW j \in Jobs, WriteSessionTurnFiles(j)
  PROVE  Shaped'
<1> USE DEF None
<1>1. Stores /\ job \in [Jobs -> Request] /\ job[j] \in Request /\ MaxTurns \in Nat /\ MaxArchives \in Nat
  BY ConstantTypes DEF Shaped
<1>2. job[j].op = "restore" /\ job[j].pc = "write" /\ job[j].seen \in Turns
  BY FreeRequest DEF Shaped, JobShape, WriteSessionTurnFiles, At
<1>3. CASE files' = job[j].seen /\ To(j, "save")
  <2>1. /\ job' = [job EXCEPT ![j] = [op |-> "restore", pc |-> "save", seen |-> job[j].seen]]
        /\ [op |-> "restore", pc |-> "save", seen |-> job[j].seen] \in Request
    <3>1. To(j, "save") /\ "save" \in Places
      BY <1>1, <1>2, <1>3 DEF WriteSessionTurnFiles, Places
    <3> QED BY <1>1, <1>2, <1>3, <3>1, PcMoved
  <2>2. JobShape([op |-> "restore", pc |-> "save", seen |-> job[j].seen])
    BY <1>1, <1>2, <1>3 DEF JobShape, Stores
  <2>3. /\ row' = row /\ files' = job[j].seen /\ arch' = arch /\ mem' = mem /\ kept' = kept
        /\ deleted' = deleted /\ archives' = archives /\ cut' = cut /\ torn' = torn
    BY <1>1, <1>2, <1>3 DEF WriteSessionTurnFiles, history
  <2>4. mem' \in BOOLEAN /\ deleted' \in BOOLEAN /\ alone' \in BOOLEAN /\ cut' \in BOOLEAN /\ torn' \in BOOLEAN
    BY <1>1, <2>3, Zenon DEF Stores, WriteSessionTurnFiles, Beside, history
  <2>5. row' \in {None} \union Turns /\ files' \in Turns /\ kept' \in Turns /\ archives' \in 0..MaxArchives
    BY <1>1, <1>2, <1>3, <2>3 DEF Stores, Turns
  <2>6. arch' \in [has : BOOLEAN, turns : Turns, restored : BOOLEAN]
    BY <1>1, <1>2, <2>3 DEF Stores
  <2> QED BY <2>1, <2>2, <2>4, <2>5, <2>6, Reshaped DEF Stores
<1>4. CASE "writeTurns" \in Faults /\ Finish(j) /\ UNCHANGED files
  <2>1. /\ job' = [job EXCEPT ![j] = Free]
        /\ Free \in Request
    BY <1>1, <1>2, <1>4, FreeRequest DEF WriteSessionTurnFiles, Go, Finish, Request, Names, Places, Stores, history
  <2>2. JobShape(Free)
    BY <1>1, <1>2, <1>4 DEF JobShape, Stores
  <2>3. /\ row' = row /\ files' = files /\ arch' = arch /\ mem' = mem /\ kept' = kept /\ deleted' = deleted
        /\ archives' = archives /\ cut' = cut /\ torn' = torn
    BY <1>1, <1>2, <1>4 DEF WriteSessionTurnFiles, history
  <2>4. mem' \in BOOLEAN /\ deleted' \in BOOLEAN /\ alone' \in BOOLEAN /\ cut' \in BOOLEAN /\ torn' \in BOOLEAN
    BY <1>1, <2>3, Zenon DEF Stores, WriteSessionTurnFiles, Beside, history
  <2>5. row' \in {None} \union Turns /\ files' \in Turns /\ kept' \in Turns /\ archives' \in 0..MaxArchives
    BY <1>1, <1>2, <1>4, <2>3 DEF Stores, Turns
  <2>6. arch' \in [has : BOOLEAN, turns : Turns, restored : BOOLEAN]
    BY <1>1, <1>2, <2>3 DEF Stores
  <2> QED BY <2>1, <2>2, <2>4, <2>5, <2>6, Reshaped DEF Stores
<1> QED BY <1>3, <1>4 DEF WriteSessionTurnFiles

\* SaveRestored keeps the types.
LEMMA SaveRestoredTyped ==
  ASSUME LifecycleConstants, Shaped, NEW j \in Jobs, SaveRestored(j)
  PROVE  Shaped'
<1> USE DEF None
<1>1. Stores /\ job \in [Jobs -> Request] /\ job[j] \in Request /\ MaxTurns \in Nat /\ MaxArchives \in Nat
  BY ConstantTypes DEF Shaped
<1>2. job[j].op = "restore" /\ job[j].pc = "save" /\ job[j].seen \in Turns
  BY FreeRequest DEF Shaped, JobShape, SaveRestored, DeleteFiles, At
<1>3. CASE row' = job[j].seen /\ kept' = job[j].seen /\ To(j, "mark") /\ UNCHANGED files
  <2>1. /\ job' = [job EXCEPT ![j] = [op |-> "restore", pc |-> "mark", seen |-> job[j].seen]]
        /\ [op |-> "restore", pc |-> "mark", seen |-> job[j].seen] \in Request
    <3>1. To(j, "mark") /\ "mark" \in Places
      BY <1>1, <1>2, <1>3 DEF SaveRestored, DeleteFiles, Places
    <3> QED BY <1>1, <1>2, <1>3, <3>1, PcMoved
  <2>2. JobShape([op |-> "restore", pc |-> "mark", seen |-> job[j].seen])
    BY <1>1, <1>2, <1>3 DEF JobShape, Stores
  <2>3. /\ row' = job[j].seen /\ files' = files /\ arch' = arch /\ mem' = mem /\ kept' = job[j].seen
        /\ deleted' = deleted /\ archives' = archives /\ cut' = cut /\ torn' = torn
    BY <1>1, <1>2, <1>3 DEF SaveRestored, DeleteFiles, history
  <2>4. mem' \in BOOLEAN /\ deleted' \in BOOLEAN /\ alone' \in BOOLEAN /\ cut' \in BOOLEAN /\ torn' \in BOOLEAN
    BY <1>1, <2>3, Zenon DEF Stores, SaveRestored, DeleteFiles, Beside, history
  <2>5. row' \in {None} \union Turns /\ files' \in Turns /\ kept' \in Turns /\ archives' \in 0..MaxArchives
    BY <1>1, <1>2, <1>3, <2>3 DEF Stores, Turns
  <2>6. arch' \in [has : BOOLEAN, turns : Turns, restored : BOOLEAN]
    BY <1>1, <1>2, <2>3 DEF Stores
  <2> QED BY <2>1, <2>2, <2>4, <2>5, <2>6, Reshaped DEF Stores
<1>4. CASE "saveRow" \in Faults /\ DeleteFiles /\ Finish(j) /\ UNCHANGED <<row, kept>>
  <2>1. /\ job' = [job EXCEPT ![j] = Free]
        /\ Free \in Request
    BY <1>1, <1>2, <1>4, FreeRequest
      DEF SaveRestored, DeleteFiles, Go, Finish, Request, Names, Places, Stores, history
  <2>2. JobShape(Free)
    BY <1>1, <1>2, <1>4 DEF JobShape, Stores
  <2>3. /\ row' = row /\ arch' = arch /\ mem' = mem /\ kept' = kept /\ deleted' = deleted
        /\ archives' = archives /\ cut' = cut /\ torn' = torn
    BY <1>1, <1>2, <1>4 DEF SaveRestored, DeleteFiles, history
  <2>4. mem' \in BOOLEAN /\ deleted' \in BOOLEAN /\ alone' \in BOOLEAN /\ cut' \in BOOLEAN /\ torn' \in BOOLEAN
    BY <1>1, <2>3, Zenon DEF Stores, SaveRestored, DeleteFiles, Beside, history
  <2>5. row' \in {None} \union Turns /\ files' \in Turns /\ kept' \in Turns /\ archives' \in 0..MaxArchives
    BY <1>1, <1>2, <1>4, <2>3 DEF Stores, Turns, SaveRestored, DeleteFiles
  <2>6. arch' \in [has : BOOLEAN, turns : Turns, restored : BOOLEAN]
    BY <1>1, <1>2, <2>3 DEF Stores
  <2> QED BY <2>1, <2>2, <2>4, <2>5, <2>6, Reshaped DEF Stores
<1> QED BY <1>3, <1>4 DEF SaveRestored, DeleteFiles

\* MarkRestored keeps the types.
LEMMA MarkRestoredTyped ==
  ASSUME LifecycleConstants, Shaped, NEW j \in Jobs, MarkRestored(j)
  PROVE  Shaped'
<1> USE DEF None
<1>1. Stores /\ job \in [Jobs -> Request] /\ job[j] \in Request /\ MaxTurns \in Nat /\ MaxArchives \in Nat
  BY ConstantTypes DEF Shaped
<1>2. job[j].op = "restore" /\ job[j].pc = "mark" /\ job[j].seen \in Turns
  BY FreeRequest DEF Shaped, JobShape, MarkRestored, TakenBack, DeleteFiles, At
<1>3. CASE ~ arch.restored /\ arch' = [arch EXCEPT !.restored = TRUE] /\ UNCHANGED <<row, files, cut, torn>>
  <2>1. /\ job' = [job EXCEPT ![j] = Free]
        /\ Free \in Request
    BY <1>1, <1>2, <1>3, FreeRequest
      DEF MarkRestored, TakenBack, DeleteFiles, Go, Finish, Request, Names, Places, Stores, history
  <2>2. JobShape(Free)
    BY <1>1, <1>2, <1>3 DEF JobShape, Stores
  <2>3. /\ row' = row /\ files' = files /\ arch' = [arch EXCEPT !.restored = TRUE] /\ mem' = mem /\ kept' = kept
        /\ deleted' = deleted /\ archives' = archives /\ cut' = cut /\ torn' = torn
    BY <1>1, <1>2, <1>3 DEF MarkRestored, TakenBack, DeleteFiles, history
  <2>4. mem' \in BOOLEAN /\ deleted' \in BOOLEAN /\ alone' \in BOOLEAN /\ cut' \in BOOLEAN /\ torn' \in BOOLEAN
    BY <1>1, <2>3, Zenon DEF Stores, MarkRestored, TakenBack, DeleteFiles, Beside, history
  <2>5. row' \in {None} \union Turns /\ files' \in Turns /\ kept' \in Turns /\ archives' \in 0..MaxArchives
    BY <1>1, <1>2, <1>3, <2>3 DEF Stores, Turns
  <2>6. arch' \in [has : BOOLEAN, turns : Turns, restored : BOOLEAN]
    BY <1>1, <1>2, <2>3 DEF Stores
  <2> QED BY <2>1, <2>2, <2>4, <2>5, <2>6, Reshaped DEF Stores
<1>4. CASE DeleteFiles /\ UNCHANGED arch /\ row' = None /\ cut' = FALSE /\ torn' = FALSE
  <2>1. /\ job' = [job EXCEPT ![j] = Free]
        /\ Free \in Request
    BY <1>1, <1>2, <1>4, FreeRequest
      DEF MarkRestored, TakenBack, DeleteFiles, Go, Finish, Request, Names, Places, Stores, history
  <2>2. JobShape(Free)
    BY <1>1, <1>2, <1>4 DEF JobShape, Stores
  <2>3. /\ row' = None /\ arch' = arch /\ mem' = mem /\ kept' = kept /\ deleted' = deleted
        /\ archives' = archives /\ cut' = FALSE /\ torn' = FALSE
    BY <1>1, <1>2, <1>4 DEF MarkRestored, TakenBack, DeleteFiles, history
  <2>4. mem' \in BOOLEAN /\ deleted' \in BOOLEAN /\ alone' \in BOOLEAN /\ cut' \in BOOLEAN /\ torn' \in BOOLEAN
    BY <1>1, <2>3, Zenon DEF Stores, MarkRestored, TakenBack, DeleteFiles, Beside, history
  <2>5. row' \in {None} \union Turns /\ files' \in Turns /\ kept' \in Turns /\ archives' \in 0..MaxArchives
    BY <1>1, <1>2, <1>4, <2>3 DEF Stores, Turns, MarkRestored, TakenBack, DeleteFiles
  <2>6. arch' \in [has : BOOLEAN, turns : Turns, restored : BOOLEAN]
    BY <1>1, <1>2, <2>3 DEF Stores
  <2> QED BY <2>1, <2>2, <2>4, <2>5, <2>6, Reshaped DEF Stores
<1>5. CASE DeleteFiles /\ UNCHANGED arch /\ cut' = TRUE /\ torn' = (torn \/ files' < row) /\ UNCHANGED row
  <2>1. /\ job' = [job EXCEPT ![j] = Free]
        /\ Free \in Request
    BY <1>1, <1>2, <1>5, FreeRequest
      DEF MarkRestored, TakenBack, DeleteFiles, Go, Finish, Request, Names, Places, Stores, history
  <2>2. JobShape(Free)
    BY <1>1, <1>2, <1>5 DEF JobShape, Stores
  <2>3. /\ row' = row /\ arch' = arch /\ mem' = mem /\ kept' = kept /\ deleted' = deleted
        /\ archives' = archives /\ cut' = TRUE
    BY <1>1, <1>2, <1>5 DEF MarkRestored, TakenBack, DeleteFiles, history
  <2>4. mem' \in BOOLEAN /\ deleted' \in BOOLEAN /\ alone' \in BOOLEAN /\ cut' \in BOOLEAN /\ torn' \in BOOLEAN
    BY <1>1, <2>3, Zenon DEF Stores, MarkRestored, TakenBack, DeleteFiles, Beside, history
  <2>5. row' \in {None} \union Turns /\ files' \in Turns /\ kept' \in Turns /\ archives' \in 0..MaxArchives
    BY <1>1, <1>2, <1>5, <2>3 DEF Stores, Turns, MarkRestored, TakenBack, DeleteFiles
  <2>6. arch' \in [has : BOOLEAN, turns : Turns, restored : BOOLEAN]
    BY <1>1, <1>2, <2>3 DEF Stores
  <2> QED BY <2>1, <2>2, <2>4, <2>5, <2>6, Reshaped DEF Stores
<1> QED BY <1>3, <1>4, <1>5 DEF MarkRestored, TakenBack, DeleteFiles

\* So does a crash.
LEMMA CrashTyped ==
  ASSUME Shaped, Crash
  PROVE  Shaped'
<1>1. /\ mem' = FALSE /\ UNCHANGED <<row, files, arch, kept, deleted, alone, archives, torn>>
      /\ job' = [j \in Jobs |-> Free] /\ cut' = (cut \/ \E j \in Jobs : Handing(job[j]))
  BY DEF Crash
<1>2. mem' \in BOOLEAN /\ cut' \in BOOLEAN
  BY <1>1, Zenon
<1>3. Stores'
  BY <1>1, <1>2 DEF Shaped, Stores
<1>4. job' \in [Jobs -> Request] /\ \A j \in Jobs : job'[j] = Free
  BY <1>1, FreeRequest
<1> QED BY <1>3, <1>4 DEF Shaped, JobShape

\* A new session has the types: a row and no turns.
LEMMA InitTyped ==
  ASSUME LifecycleConstants, Init
  PROVE  Shaped
<1> USE DEF None
<1>1. /\ row = 0 /\ files = 0 /\ kept = 0 /\ archives = 0 /\ arch = NoEntry /\ mem = TRUE /\ deleted = FALSE
      /\ alone = TRUE /\ cut = FALSE /\ torn = FALSE
      /\ job = [j \in Jobs |-> Free] /\ MaxTurns \in Nat /\ MaxArchives \in Nat
  BY ConstantTypes DEF Init
<1>2. job \in [Jobs -> Request] /\ \A j \in Jobs : job[j] = Free
  BY <1>1, FreeRequest
<1>3. arch \in [has : BOOLEAN, turns : Turns, restored : BOOLEAN]
  BY <1>1 DEF NoEntry, Turns
<1>4. mem \in BOOLEAN /\ deleted \in BOOLEAN /\ alone \in BOOLEAN /\ cut \in BOOLEAN /\ torn \in BOOLEAN
  BY <1>1
<1>5. 0 \in Turns /\ 0 \in 0..MaxArchives
  BY <1>1 DEF Turns
<1>6. \A j \in Jobs : JobShape(job[j])
  BY <1>2 DEF JobShape
<1> QED BY <1>1, <1>2, <1>3, <1>4, <1>5, <1>6 DEF Shaped, Stores

\* Every step keeps the types, whether requests overlap or not.
LEMMA NextTyped ==
  ASSUME LifecycleConstants, Shaped, [Next]_vars
  PROVE  Shaped'
<1>1. CASE UNCHANGED vars
  BY <1>1 DEF vars, history, Shaped, Stores
<1>2. CASE Crash
  BY <1>2, CrashTyped
<1>3. ASSUME NEW j \in Jobs, \E op \in {"prompt", "save"} : SessionByID(j, op)
      PROVE  Shaped'
  BY <1>3, SessionByIDpromptTyped, SessionByIDsaveTyped
<1>4. ASSUME NEW j \in Jobs, persistSession(j) \/ PromptRuns(j) \/ PromptLoads(j) \/ PromptEnds(j)
      PROVE  Shaped'
  BY <1>4, persistSessionTyped, PromptRunsTyped, PromptLoadsTyped, PromptEndsTyped
<1>5. ASSUME NEW j \in Jobs,
             \E op \in {"delete", "archive"} : deleteActive(j, op) \/ deleteRow(j, op) \/ DeleteSessionData(j, op)
      PROVE  Shaped'
  BY <1>5, deleteActivedeleteTyped, deleteActivearchiveTyped, deleteRowdeleteTyped, deleteRowarchiveTyped,
     DeleteSessionDatadeleteTyped, DeleteSessionDataarchiveTyped
<1>6. ASSUME NEW j \in Jobs, DeleteSession(j) \/ archiveSession(j) \/ AppendSession(j)
      PROVE  Shaped'
  BY <1>6, DeleteSessionTyped, archiveSessionTyped, AppendSessionTyped
<1>7. ASSUME NEW j \in Jobs,
             RestoreArchivedSession(j) \/ WriteSessionTurnFiles(j) \/ SaveRestored(j) \/ MarkRestored(j)
      PROVE  Shaped'
  BY <1>7, RestoreArchivedSessionTyped, WriteSessionTurnFilesTyped, SaveRestoredTyped, MarkRestoredTyped
<1> QED BY <1>1, <1>2, <1>3, <1>4, <1>5, <1>6, <1>7 DEF Next

\* Types, for any number of requests served at the same time: in particular a
\* request that writes turns has read how many there are, and no step of any
\* interleaving puts more into the row, the files or the entry than there are.
THEOREM TypeCorrect ==
  ASSUME LifecycleConstants
  PROVE  Spec => []TypeOK
<1>1. Init => Shaped
  BY InitTyped
<1>2. Shaped /\ [Next]_vars => Shaped'
  BY NextTyped
<1>3. Shaped => TypeOK
  BY DEF Shaped, Stores, Request, Names, Turns, TypeOK
<1> QED BY <1>1, <1>2, <1>3, PTL DEF Spec

-----------------------------------------------------------------------------
(* One request at a time. *)

\* A session is looked up for a prompt: it has a row then, as a session in
\* memory has.
LEMMA SessionByIDpromptKeeps ==
  ASSUME LifecycleConstants, ~ Overlap, LifecycleInv, NEW j \in Jobs, SessionByID(j, "prompt")
  PROVE  LifecycleInv'
<1> USE DEF None
<1>1. Shaped'
  BY SessionByIDpromptTyped DEF LifecycleInv
<1>2. /\ Stores /\ StoreInv /\ job \in [Jobs -> Request] /\ job[j] \in Request
      /\ MaxTurns \in Nat /\ MaxArchives \in Nat
  BY ConstantTypes DEF LifecycleInv, Shaped
<1>3. (\A i \in Jobs : job[i] = Free) /\ MayStart(j)
  BY DEF MayStart, SessionByID
<1>4. /\ (~ cut => ~ (row # None /\ Archived))
      /\ row # None
  <2>1. ~ cut => ~ (row # None /\ Archived)
    BY <1>3 DEF LifecycleInv, OneHome, Archived
  <2> QED BY <1>2, <2>1 DEF SessionByID, Stores, StoreInv, Archived
<1>5. \A i \in Jobs \ {j} : job[i] = Free
  BY <1>3
<1>6. /\ job' = [job EXCEPT ![j] = [op |-> "prompt", pc |-> "got", seen |-> None]]
      /\ [op |-> "prompt", pc |-> "got", seen |-> None] \in Request /\ row' = row /\ files' = files
      /\ arch' = arch /\ mem' = TRUE /\ kept' = kept /\ deleted' = deleted /\ archives' = archives /\ cut' = cut
      /\ torn' = torn
  BY <1>2, <1>3, <1>4 DEF SessionByID, Go, Finish, Request, Names, Places, Stores, history
<1>7. /\ job' \in [Jobs -> Request] /\ job'[j] = [op |-> "prompt", pc |-> "got", seen |-> None]
      /\ \A i \in Jobs \ {j} : job'[i] = Free
  BY <1>2, <1>5, <1>6, MovedTo
<1>8. job'[j].op = "prompt" /\ job'[j].pc = "got" /\ job'[j].seen = None
  BY <1>7
<1>9. JobInv(job[j])'
  <2>1. Underway(job[j])'
    BY <1>2, <1>3, <1>4, <1>6, <1>7, <1>8 DEF Underway, Archived, Stores, StoreInv
  <2>2. HomeWhile(job[j])'
    BY <1>2, <1>3, <1>4, <1>6, <1>7, <1>8 DEF HomeWhile, Handing, Archived
  <2>3. Removes(job[j])'
    BY <1>2, <1>3, <1>4, <1>6, <1>7, <1>8
      DEF Removes, Covered, Archived, StoreInv, NothingLostAtFirst, NothingLost, Stores, Turns
  <2> QED BY <2>1, <2>2, <2>3 DEF JobInv
<1>10. StoreInv'
  <2>1. RowHasFiles'
    BY <1>2, <1>3, <1>4, <1>6 DEF StoreInv, RowHasFiles, Stores, Turns
  <2>2. (mem' => row' # None) /\ (arch'.has => archives' >= 1)
    BY <1>2, <1>3, <1>4, <1>6 DEF StoreInv, Stores, Turns, Archived
  <2>3. NothingLostAtFirst'
    BY <1>2, <1>3, <1>4, <1>6 DEF StoreInv, NothingLostAtFirst, NothingLost, Covered, Archived, Stores, Turns
  <2> QED BY <2>1, <2>2, <2>3 DEF StoreInv
<1>11. job'[j] = Free => OneHome'
  BY <1>8, FreeRequest
<1> QED BY <1>1, <1>7, <1>9, <1>10, <1>11, Rejoin

\* The same for a save.
LEMMA SessionByIDsaveKeeps ==
  ASSUME LifecycleConstants, ~ Overlap, LifecycleInv, NEW j \in Jobs, SessionByID(j, "save")
  PROVE  LifecycleInv'
<1> USE DEF None
<1>1. Shaped'
  BY SessionByIDsaveTyped DEF LifecycleInv
<1>2. /\ Stores /\ StoreInv /\ job \in [Jobs -> Request] /\ job[j] \in Request
      /\ MaxTurns \in Nat /\ MaxArchives \in Nat
  BY ConstantTypes DEF LifecycleInv, Shaped
<1>3. (\A i \in Jobs : job[i] = Free) /\ MayStart(j)
  BY DEF MayStart, SessionByID
<1>4. /\ (~ cut => ~ (row # None /\ Archived))
      /\ row # None
  <2>1. ~ cut => ~ (row # None /\ Archived)
    BY <1>3 DEF LifecycleInv, OneHome, Archived
  <2> QED BY <1>2, <2>1 DEF SessionByID, Stores, StoreInv, Archived
<1>5. \A i \in Jobs \ {j} : job[i] = Free
  BY <1>3
<1>6. /\ job' = [job EXCEPT ![j] = [op |-> "save", pc |-> "got", seen |-> None]]
      /\ [op |-> "save", pc |-> "got", seen |-> None] \in Request /\ row' = row /\ files' = files
      /\ arch' = arch /\ mem' = TRUE /\ kept' = kept /\ deleted' = deleted /\ archives' = archives /\ cut' = cut
      /\ torn' = torn
  BY <1>2, <1>3, <1>4 DEF SessionByID, Go, Finish, Request, Names, Places, Stores, history
<1>7. /\ job' \in [Jobs -> Request] /\ job'[j] = [op |-> "save", pc |-> "got", seen |-> None]
      /\ \A i \in Jobs \ {j} : job'[i] = Free
  BY <1>2, <1>5, <1>6, MovedTo
<1>8. job'[j].op = "save" /\ job'[j].pc = "got" /\ job'[j].seen = None
  BY <1>7
<1>9. JobInv(job[j])'
  <2>1. Underway(job[j])'
    BY <1>2, <1>3, <1>4, <1>6, <1>7, <1>8 DEF Underway, Archived, Stores, StoreInv
  <2>2. HomeWhile(job[j])'
    BY <1>2, <1>3, <1>4, <1>6, <1>7, <1>8 DEF HomeWhile, Handing, Archived
  <2>3. Removes(job[j])'
    BY <1>2, <1>3, <1>4, <1>6, <1>7, <1>8
      DEF Removes, Covered, Archived, StoreInv, NothingLostAtFirst, NothingLost, Stores, Turns
  <2> QED BY <2>1, <2>2, <2>3 DEF JobInv
<1>10. StoreInv'
  <2>1. RowHasFiles'
    BY <1>2, <1>3, <1>4, <1>6 DEF StoreInv, RowHasFiles, Stores, Turns
  <2>2. (mem' => row' # None) /\ (arch'.has => archives' >= 1)
    BY <1>2, <1>3, <1>4, <1>6 DEF StoreInv, Stores, Turns, Archived
  <2>3. NothingLostAtFirst'
    BY <1>2, <1>3, <1>4, <1>6 DEF StoreInv, NothingLostAtFirst, NothingLost, Covered, Archived, Stores, Turns
  <2> QED BY <2>1, <2>2, <2>3 DEF StoreInv
<1>11. job'[j] = Free => OneHome'
  BY <1>8, FreeRequest
<1> QED BY <1>1, <1>7, <1>9, <1>10, <1>11, Rejoin

\* persistSession keeps the turns of the row, which is there.
LEMMA persistSessionKeeps ==
  ASSUME LifecycleConstants, ~ Overlap, LifecycleInv, NEW j \in Jobs, persistSession(j)
  PROVE  LifecycleInv'
<1> USE DEF None
<1>1. Shaped'
  BY persistSessionTyped DEF LifecycleInv
<1>2. /\ Stores /\ StoreInv /\ job \in [Jobs -> Request] /\ job[j] \in Request
      /\ MaxTurns \in Nat /\ MaxArchives \in Nat
  BY ConstantTypes DEF LifecycleInv, Shaped
<1>3. job[j] # Free /\ job[j].op = "save" /\ job[j].pc = "got"
  BY FreeRequest DEF LifecycleInv, JobInv, Underway, persistSession, At
<1>4. /\ row # None
      /\ (~ cut => ~ (row # None /\ Archived))
  BY <1>2, <1>3 DEF LifecycleInv, Shaped, JobShape, JobInv, Underway, HomeWhile, Handing, Removes, Archived
<1>5. \A i \in Jobs \ {j} : job[i] = Free
  BY <1>3, OthersAreFree DEF LifecycleInv
<1>6. /\ job' = [job EXCEPT ![j] = Free]
      /\ Free \in Request /\ row' = row /\ files' = files /\ arch' = arch /\ kept' = kept /\ deleted' = deleted
      /\ archives' = archives /\ cut' = cut /\ torn' = torn
  BY <1>2, <1>3, <1>4, FreeRequest DEF persistSession, Go, Finish, Request, Names, Places, Stores, history
<1>7. mem' \in BOOLEAN /\ (mem' => row # None)
  BY <1>2, <1>4, Zenon DEF persistSession, Stores
<1>8. /\ job' \in [Jobs -> Request] /\ job'[j] = Free
      /\ \A i \in Jobs \ {j} : job'[i] = Free
  BY <1>2, <1>5, <1>6, MovedTo
<1>9. job'[j].op = "none" /\ job'[j].pc = "" /\ job'[j].seen = None
  BY <1>8, FreeRequest
<1>10. JobInv(job[j])'
  <2>1. Underway(job[j])'
    BY <1>2, <1>3, <1>4, <1>6, <1>7, <1>8, <1>9, FreeRequest DEF Underway, Archived, Stores, StoreInv
  <2>2. HomeWhile(job[j])'
    BY <1>2, <1>3, <1>4, <1>6, <1>7, <1>8, <1>9, FreeRequest DEF HomeWhile, Handing, Archived
  <2>3. Removes(job[j])'
    BY <1>2, <1>3, <1>4, <1>6, <1>7, <1>8, <1>9, FreeRequest
      DEF Removes, Covered, Archived, StoreInv, NothingLostAtFirst, NothingLost, Stores, Turns
  <2> QED BY <2>1, <2>2, <2>3 DEF JobInv
<1>11. StoreInv'
  <2>1. RowHasFiles'
    BY <1>2, <1>3, <1>4, <1>6, <1>7 DEF StoreInv, RowHasFiles, Stores, Turns
  <2>2. (mem' => row' # None) /\ (arch'.has => archives' >= 1)
    BY <1>2, <1>3, <1>4, <1>6, <1>7 DEF StoreInv, Stores, Turns, Archived
  <2>3. NothingLostAtFirst'
    BY <1>2, <1>3, <1>4, <1>6, <1>7 DEF StoreInv, NothingLostAtFirst, NothingLost, Covered, Archived, Stores, Turns
  <2> QED BY <2>1, <2>2, <2>3 DEF StoreInv
<1>12. job'[j] = Free => OneHome'
  BY <1>2, <1>3, <1>4, <1>6, <1>7, <1>8 DEF OneHome, Archived, Stores
<1> QED BY <1>1, <1>8, <1>10, <1>11, <1>12, Rejoin

\* A prompt starts to run; the stores stay.
LEMMA PromptRunsKeeps ==
  ASSUME LifecycleConstants, ~ Overlap, LifecycleInv, NEW j \in Jobs, PromptRuns(j)
  PROVE  LifecycleInv'
<1> USE DEF None
<1>1. Shaped'
  BY PromptRunsTyped DEF LifecycleInv
<1>2. /\ Stores /\ StoreInv /\ job \in [Jobs -> Request] /\ job[j] \in Request
      /\ MaxTurns \in Nat /\ MaxArchives \in Nat
  BY ConstantTypes DEF LifecycleInv, Shaped
<1>3. job[j] # Free /\ job[j].op = "prompt" /\ job[j].pc = "got"
  BY FreeRequest DEF LifecycleInv, JobInv, Underway, PromptRuns, At
<1>4. /\ job[j].seen = None
      /\ row # None
      /\ (~ cut => ~ (row # None /\ Archived))
  BY <1>2, <1>3 DEF LifecycleInv, Shaped, JobShape, JobInv, Underway, HomeWhile, Handing, Removes, Archived
<1>5. \A i \in Jobs \ {j} : job[i] = Free
  BY <1>3, OthersAreFree DEF LifecycleInv
<1>6. /\ job' = [job EXCEPT ![j] = [op |-> "prompt", pc |-> "running", seen |-> job[j].seen]]
      /\ [op |-> "prompt", pc |-> "running", seen |-> job[j].seen] \in Request /\ row' = row /\ files' = files
      /\ arch' = arch /\ mem' = mem /\ kept' = kept /\ deleted' = deleted /\ archives' = archives /\ cut' = cut
      /\ torn' = torn
  <2>1. To(j, "running") /\ "running" \in Places
    BY <1>2, <1>3 DEF PromptRuns, Places
  <2> QED BY <1>2, <1>3, <2>1, PcMoved DEF PromptRuns, history
<1>7. /\ job' \in [Jobs -> Request] /\ job'[j] = [op |-> "prompt", pc |-> "running", seen |-> job[j].seen]
      /\ \A i \in Jobs \ {j} : job'[i] = Free
  BY <1>2, <1>5, <1>6, MovedTo
<1>8. job'[j].op = "prompt" /\ job'[j].pc = "running" /\ job'[j].seen = job[j].seen
  BY <1>7
<1>9. JobInv(job[j])'
  <2>1. Underway(job[j])'
    BY <1>2, <1>3, <1>4, <1>6, <1>7, <1>8 DEF Underway, Archived, Stores, StoreInv
  <2>2. HomeWhile(job[j])'
    BY <1>2, <1>3, <1>4, <1>6, <1>7, <1>8 DEF HomeWhile, Handing, Archived
  <2>3. Removes(job[j])'
    BY <1>2, <1>3, <1>4, <1>6, <1>7, <1>8
      DEF Removes, Covered, Archived, StoreInv, NothingLostAtFirst, NothingLost, Stores, Turns
  <2> QED BY <2>1, <2>2, <2>3 DEF JobInv
<1>10. StoreInv'
  <2>1. RowHasFiles'
    BY <1>2, <1>3, <1>4, <1>6 DEF StoreInv, RowHasFiles, Stores, Turns
  <2>2. (mem' => row' # None) /\ (arch'.has => archives' >= 1)
    BY <1>2, <1>3, <1>4, <1>6 DEF StoreInv, Stores, Turns, Archived
  <2>3. NothingLostAtFirst'
    BY <1>2, <1>3, <1>4, <1>6 DEF StoreInv, NothingLostAtFirst, NothingLost, Covered, Archived, Stores, Turns
  <2> QED BY <2>1, <2>2, <2>3 DEF StoreInv
<1>11. job'[j] = Free => OneHome'
  BY <1>8, FreeRequest
<1> QED BY <1>1, <1>7, <1>9, <1>10, <1>11, Rejoin

\* The end of a prompt loads the row, which is there.
LEMMA PromptLoadsKeeps ==
  ASSUME LifecycleConstants, ~ Overlap, LifecycleInv, NEW j \in Jobs, PromptLoads(j)
  PROVE  LifecycleInv'
<1> USE DEF None
<1>1. Shaped'
  BY PromptLoadsTyped DEF LifecycleInv
<1>2. /\ Stores /\ StoreInv /\ job \in [Jobs -> Request] /\ job[j] \in Request
      /\ MaxTurns \in Nat /\ MaxArchives \in Nat
  BY ConstantTypes DEF LifecycleInv, Shaped
<1>3. job[j] # Free /\ job[j].op = "prompt" /\ job[j].pc = "running"
  BY FreeRequest DEF LifecycleInv, JobInv, Underway, PromptLoads, At
<1>4. /\ row # None
      /\ (~ cut => ~ (row # None /\ Archived))
  BY <1>2, <1>3 DEF LifecycleInv, Shaped, JobShape, JobInv, Underway, HomeWhile, Handing, Removes, Archived
<1>5. \A i \in Jobs \ {j} : job[i] = Free
  BY <1>3, OthersAreFree DEF LifecycleInv
<1>6. /\ job' = [job EXCEPT ![j] = [op |-> "prompt", pc |-> "persist", seen |-> row]]
      /\ [op |-> "prompt", pc |-> "persist", seen |-> row] \in Request /\ row' = row /\ files' = files
      /\ arch' = arch /\ mem' = mem /\ kept' = kept /\ deleted' = deleted /\ archives' = archives /\ cut' = cut
      /\ torn' = torn
  BY <1>2, <1>3, <1>4 DEF PromptLoads, Go, Finish, Request, Names, Places, Stores, history
<1>7. /\ job' \in [Jobs -> Request] /\ job'[j] = [op |-> "prompt", pc |-> "persist", seen |-> row]
      /\ \A i \in Jobs \ {j} : job'[i] = Free
  BY <1>2, <1>5, <1>6, MovedTo
<1>8. job'[j].op = "prompt" /\ job'[j].pc = "persist" /\ job'[j].seen = row
  BY <1>7
<1>9. JobInv(job[j])'
  <2>1. Underway(job[j])'
    BY <1>2, <1>3, <1>4, <1>6, <1>7, <1>8 DEF Underway, Archived, Stores, StoreInv
  <2>2. HomeWhile(job[j])'
    BY <1>2, <1>3, <1>4, <1>6, <1>7, <1>8 DEF HomeWhile, Handing, Archived
  <2>3. Removes(job[j])'
    BY <1>2, <1>3, <1>4, <1>6, <1>7, <1>8
      DEF Removes, Covered, Archived, StoreInv, NothingLostAtFirst, NothingLost, Stores, Turns
  <2> QED BY <2>1, <2>2, <2>3 DEF JobInv
<1>10. StoreInv'
  <2>1. RowHasFiles'
    BY <1>2, <1>3, <1>4, <1>6 DEF StoreInv, RowHasFiles, Stores, Turns
  <2>2. (mem' => row' # None) /\ (arch'.has => archives' >= 1)
    BY <1>2, <1>3, <1>4, <1>6 DEF StoreInv, Stores, Turns, Archived
  <2>3. NothingLostAtFirst'
    BY <1>2, <1>3, <1>4, <1>6 DEF StoreInv, NothingLostAtFirst, NothingLost, Covered, Archived, Stores, Turns
  <2> QED BY <2>1, <2>2, <2>3 DEF StoreInv
<1>11. job'[j] = Free => OneHome'
  BY <1>8, FreeRequest
<1> QED BY <1>1, <1>7, <1>9, <1>10, <1>11, Rejoin

\* The end of a prompt writes the files and the row together.
LEMMA PromptEndsKeeps ==
  ASSUME LifecycleConstants, ~ Overlap, LifecycleInv, NEW j \in Jobs, PromptEnds(j)
  PROVE  LifecycleInv'
<1> USE DEF None
<1>1. Shaped'
  BY PromptEndsTyped DEF LifecycleInv
<1>2. /\ Stores /\ StoreInv /\ job \in [Jobs -> Request] /\ job[j] \in Request
      /\ MaxTurns \in Nat /\ MaxArchives \in Nat
  BY ConstantTypes DEF LifecycleInv, Shaped
<1>3. job[j] # Free /\ job[j].op = "prompt" /\ job[j].pc = "persist"
  BY FreeRequest DEF LifecycleInv, JobInv, Underway, PromptEnds, At
<1>4. /\ job[j].seen \in Turns
      /\ row = job[j].seen
      /\ row # None
      /\ (~ cut => ~ (row # None /\ Archived))
      /\ job[j].seen < MaxTurns
  BY <1>2, <1>3
    DEF LifecycleInv, Shaped, JobShape, JobInv, Underway, HomeWhile, Handing, Removes, Archived, Turns, PromptEnds
<1>5. \A i \in Jobs \ {j} : job[i] = Free
  BY <1>3, OthersAreFree DEF LifecycleInv
<1>6. /\ job' = [job EXCEPT ![j] = Free]
      /\ Free \in Request /\ row' = (job[j].seen + 1)
      /\ files' = (IF files < job[j].seen THEN files ELSE job[j].seen + 1) /\ arch' = arch /\ mem' = mem
      /\ kept' = (job[j].seen + 1) /\ deleted' = deleted /\ archives' = archives /\ cut' = cut /\ torn' = torn
  BY <1>2, <1>3, <1>4, FreeRequest DEF PromptEnds, Go, Finish, Request, Names, Places, Stores, history
<1>7. /\ job' \in [Jobs -> Request] /\ job'[j] = Free
      /\ \A i \in Jobs \ {j} : job'[i] = Free
  BY <1>2, <1>5, <1>6, MovedTo
<1>8. job'[j].op = "none" /\ job'[j].pc = "" /\ job'[j].seen = None
  BY <1>7, FreeRequest
<1>9. JobInv(job[j])'
  <2>1. Underway(job[j])'
    BY <1>2, <1>3, <1>4, <1>6, <1>7, <1>8, FreeRequest DEF Underway, Archived, Stores, StoreInv
  <2>2. HomeWhile(job[j])'
    BY <1>2, <1>3, <1>4, <1>6, <1>7, <1>8, FreeRequest DEF HomeWhile, Handing, Archived
  <2>3. Removes(job[j])'
    BY <1>2, <1>3, <1>4, <1>6, <1>7, <1>8, FreeRequest
      DEF Removes, Covered, Archived, StoreInv, NothingLostAtFirst, NothingLost, Stores, Turns
  <2> QED BY <2>1, <2>2, <2>3 DEF JobInv
<1>10. StoreInv'
  <2>1. RowHasFiles'
    BY <1>2, <1>3, <1>4, <1>6 DEF StoreInv, RowHasFiles, Stores, Turns
  <2>2. (mem' => row' # None) /\ (arch'.has => archives' >= 1)
    BY <1>2, <1>3, <1>4, <1>6 DEF StoreInv, Stores, Turns, Archived
  <2>3. NothingLostAtFirst'
    BY <1>2, <1>3, <1>4, <1>6 DEF StoreInv, NothingLostAtFirst, NothingLost, Covered, Archived, Stores, Turns
  <2> QED BY <2>1, <2>2, <2>3 DEF StoreInv
<1>11. job'[j] = Free => OneHome'
  BY <1>2, <1>3, <1>4, <1>6, <1>7 DEF OneHome, Archived, Stores
<1> QED BY <1>1, <1>7, <1>9, <1>10, <1>11, Rejoin

\* deleteActiveSession takes the session out of memory first, of a delete.
LEMMA deleteActivedeleteKeeps ==
  ASSUME LifecycleConstants, ~ Overlap, LifecycleInv, NEW j \in Jobs, deleteActive(j, "delete")
  PROVE  LifecycleInv'
<1> USE DEF None
<1>1. Shaped'
  BY deleteActivedeleteTyped DEF LifecycleInv
<1>2. /\ Stores /\ StoreInv /\ job \in [Jobs -> Request] /\ job[j] \in Request
      /\ MaxTurns \in Nat /\ MaxArchives \in Nat
  BY ConstantTypes DEF LifecycleInv, Shaped
<1>3. job[j] # Free /\ job[j].op = "delete" /\ job[j].pc = "drop"
  BY FreeRequest DEF LifecycleInv, JobInv, Underway, deleteActive, At
<1>4. /\ job[j].seen = None
      /\ kept = 0
      /\ (~ cut => ~ (row # None /\ Archived))
  BY <1>2, <1>3 DEF LifecycleInv, Shaped, JobShape, JobInv, Underway, HomeWhile, Handing, Removes, Archived
<1>5. \A i \in Jobs \ {j} : job[i] = Free
  BY <1>3, OthersAreFree DEF LifecycleInv
<1>6. /\ job' = [job EXCEPT ![j] = [op |-> "delete", pc |-> "row", seen |-> job[j].seen]]
      /\ [op |-> "delete", pc |-> "row", seen |-> job[j].seen] \in Request /\ row' = row /\ files' = files
      /\ arch' = arch /\ mem' = FALSE /\ kept' = kept /\ deleted' = deleted /\ archives' = archives
      /\ cut' = cut /\ torn' = torn
  <2>1. To(j, "row") /\ "row" \in Places
    BY <1>2, <1>3 DEF deleteActive, Places
  <2> QED BY <1>2, <1>3, <2>1, PcMoved DEF deleteActive, history
<1>7. /\ job' \in [Jobs -> Request] /\ job'[j] = [op |-> "delete", pc |-> "row", seen |-> job[j].seen]
      /\ \A i \in Jobs \ {j} : job'[i] = Free
  BY <1>2, <1>5, <1>6, MovedTo
<1>8. job'[j].op = "delete" /\ job'[j].pc = "row" /\ job'[j].seen = job[j].seen
  BY <1>7
<1>9. JobInv(job[j])'
  <2>1. Underway(job[j])'
    BY <1>2, <1>3, <1>4, <1>6, <1>7, <1>8 DEF Underway, Archived, Stores, StoreInv
  <2>2. HomeWhile(job[j])'
    BY <1>2, <1>3, <1>4, <1>6, <1>7, <1>8 DEF HomeWhile, Handing, Archived
  <2>3. Removes(job[j])'
    BY <1>2, <1>3, <1>4, <1>6, <1>7, <1>8
      DEF Removes, Covered, Archived, StoreInv, NothingLostAtFirst, NothingLost, Stores, Turns
  <2> QED BY <2>1, <2>2, <2>3 DEF JobInv
<1>10. StoreInv'
  <2>1. RowHasFiles'
    BY <1>2, <1>3, <1>4, <1>6 DEF StoreInv, RowHasFiles, Stores, Turns
  <2>2. (mem' => row' # None) /\ (arch'.has => archives' >= 1)
    BY <1>2, <1>3, <1>4, <1>6 DEF StoreInv, Stores, Turns, Archived
  <2>3. NothingLostAtFirst'
    BY <1>2, <1>3, <1>4, <1>6 DEF StoreInv, NothingLostAtFirst, NothingLost, Covered, Archived, Stores, Turns
  <2> QED BY <2>1, <2>2, <2>3 DEF StoreInv
<1>11. job'[j] = Free => OneHome'
  BY <1>8, FreeRequest
<1> QED BY <1>1, <1>7, <1>9, <1>10, <1>11, Rejoin

\* Then the row goes, or the request fails, of a delete.
LEMMA deleteRowdeleteKeeps ==
  ASSUME LifecycleConstants, ~ Overlap, LifecycleInv, NEW j \in Jobs, deleteRow(j, "delete")
  PROVE  LifecycleInv'
<1> USE DEF None
<1>1. Shaped'
  BY deleteRowdeleteTyped DEF LifecycleInv
<1>2. /\ Stores /\ StoreInv /\ job \in [Jobs -> Request] /\ job[j] \in Request
      /\ MaxTurns \in Nat /\ MaxArchives \in Nat
  BY ConstantTypes DEF LifecycleInv, Shaped
<1>3. job[j] # Free /\ job[j].op = "delete" /\ job[j].pc = "row"
  BY FreeRequest DEF LifecycleInv, JobInv, Underway, deleteRow, At
<1>4. /\ job[j].seen = None
      /\ kept = 0
      /\ ~ mem
      /\ (~ cut => ~ (row # None /\ Archived))
  BY <1>2, <1>3 DEF LifecycleInv, Shaped, JobShape, JobInv, Underway, HomeWhile, Handing, Removes, Archived
<1>5. \A i \in Jobs \ {j} : job[i] = Free
  BY <1>3, OthersAreFree DEF LifecycleInv
<1>6. CASE row' = None /\ To(j, "files") /\ cut' = FALSE /\ torn' = FALSE
  <2>1. /\ job' = [job EXCEPT ![j] = [op |-> "delete", pc |-> "files", seen |-> job[j].seen]]
        /\ [op |-> "delete", pc |-> "files", seen |-> job[j].seen] \in Request /\ row' = None /\ files' = files
        /\ arch' = arch /\ mem' = mem /\ kept' = kept /\ deleted' = deleted /\ archives' = archives
        /\ cut' = FALSE /\ torn' = FALSE
    <3>1. To(j, "files") /\ "files" \in Places
      BY <1>2, <1>3, <1>6 DEF deleteRow, Places
    <3> QED BY <1>2, <1>3, <1>6, <3>1, PcMoved DEF deleteRow, history
  <2>2. /\ job' \in [Jobs -> Request] /\ job'[j] = [op |-> "delete", pc |-> "files", seen |-> job[j].seen]
        /\ \A i \in Jobs \ {j} : job'[i] = Free
    BY <1>2, <1>5, <2>1, MovedTo
  <2>3. job'[j].op = "delete" /\ job'[j].pc = "files" /\ job'[j].seen = job[j].seen
    BY <2>2
  <2>4. JobInv(job[j])'
    <3>1. Underway(job[j])'
      BY <1>2, <1>3, <1>4, <1>6, <2>1, <2>2, <2>3 DEF Underway, Archived, Stores, StoreInv
    <3>2. HomeWhile(job[j])'
      BY <1>2, <1>3, <1>4, <1>6, <2>1, <2>2, <2>3 DEF HomeWhile, Handing, Archived
    <3>3. Removes(job[j])'
      BY <1>2, <1>3, <1>4, <1>6, <2>1, <2>2, <2>3
        DEF Removes, Covered, Archived, StoreInv, NothingLostAtFirst, NothingLost, Stores, Turns
    <3> QED BY <3>1, <3>2, <3>3 DEF JobInv
  <2>5. StoreInv'
    <3>1. RowHasFiles'
      BY <1>2, <1>3, <1>4, <1>6, <2>1 DEF StoreInv, RowHasFiles, Stores, Turns
    <3>2. (mem' => row' # None) /\ (arch'.has => archives' >= 1)
      BY <1>2, <1>3, <1>4, <1>6, <2>1 DEF StoreInv, Stores, Turns, Archived
    <3>3. NothingLostAtFirst'
      BY <1>2, <1>3, <1>4, <1>6, <2>1 DEF StoreInv, NothingLostAtFirst, NothingLost, Covered, Archived, Stores, Turns
    <3> QED BY <3>1, <3>2, <3>3 DEF StoreInv
  <2>6. job'[j] = Free => OneHome'
    BY <2>3, FreeRequest
  <2> QED BY <1>1, <2>2, <2>4, <2>5, <2>6, Rejoin
<1>7. CASE "deleteRow" \in Faults /\ Finish(j) /\ cut' = (cut \/ "delete" = "archive") /\ UNCHANGED <<row, torn>>
  <2>1. /\ job' = [job EXCEPT ![j] = Free]
        /\ Free \in Request /\ row' = row /\ files' = files /\ arch' = arch /\ mem' = mem /\ kept' = kept
        /\ deleted' = deleted /\ archives' = archives /\ cut' = (cut \/ "delete" = "archive") /\ torn' = torn
    BY <1>2, <1>3, <1>4, <1>7, FreeRequest DEF deleteRow, Go, Finish, Request, Names, Places, Stores, history
  <2>2. /\ job' \in [Jobs -> Request] /\ job'[j] = Free
        /\ \A i \in Jobs \ {j} : job'[i] = Free
    BY <1>2, <1>5, <2>1, MovedTo
  <2>3. job'[j].op = "none" /\ job'[j].pc = "" /\ job'[j].seen = None
    BY <2>2, FreeRequest
  <2>4. JobInv(job[j])'
    <3>1. Underway(job[j])'
      BY <1>2, <1>3, <1>4, <1>7, <2>1, <2>2, <2>3, FreeRequest DEF Underway, Archived, Stores, StoreInv
    <3>2. HomeWhile(job[j])'
      BY <1>2, <1>3, <1>4, <1>7, <2>1, <2>2, <2>3, FreeRequest DEF HomeWhile, Handing, Archived
    <3>3. Removes(job[j])'
      BY <1>2, <1>3, <1>4, <1>7, <2>1, <2>2, <2>3, FreeRequest
        DEF Removes, Covered, Archived, StoreInv, NothingLostAtFirst, NothingLost, Stores, Turns
    <3> QED BY <3>1, <3>2, <3>3 DEF JobInv
  <2>5. StoreInv'
    <3>1. RowHasFiles'
      BY <1>2, <1>3, <1>4, <1>7, <2>1 DEF StoreInv, RowHasFiles, Stores, Turns
    <3>2. (mem' => row' # None) /\ (arch'.has => archives' >= 1)
      BY <1>2, <1>3, <1>4, <1>7, <2>1 DEF StoreInv, Stores, Turns, Archived
    <3>3. NothingLostAtFirst'
      BY <1>2, <1>3, <1>4, <1>7, <2>1 DEF StoreInv, NothingLostAtFirst, NothingLost, Covered, Archived, Stores, Turns
    <3> QED BY <3>1, <3>2, <3>3 DEF StoreInv
  <2>6. job'[j] = Free => OneHome'
    BY <1>2, <1>3, <1>4, <1>7, <2>1, <2>2 DEF OneHome, Archived, Stores
  <2> QED BY <1>1, <2>2, <2>4, <2>5, <2>6, Rejoin
<1> QED BY <1>6, <1>7 DEF deleteRow

\* Then the files go, or the request fails, of a delete.
LEMMA DeleteSessionDatadeleteKeeps ==
  ASSUME LifecycleConstants, ~ Overlap, LifecycleInv, NEW j \in Jobs, DeleteSessionData(j, "delete")
  PROVE  LifecycleInv'
<1> USE DEF None
<1>1. Shaped'
  BY DeleteSessionDatadeleteTyped DEF LifecycleInv
<1>2. /\ Stores /\ StoreInv /\ job \in [Jobs -> Request] /\ job[j] \in Request
      /\ MaxTurns \in Nat /\ MaxArchives \in Nat
  BY ConstantTypes DEF LifecycleInv, Shaped
<1>3. job[j] # Free /\ job[j].op = "delete" /\ job[j].pc = "files"
  BY FreeRequest DEF LifecycleInv, JobInv, Underway, DeleteSessionData, At
<1>4. /\ job[j].seen = None
      /\ kept = 0
      /\ ~ mem
      /\ row = None
  BY <1>2, <1>3 DEF LifecycleInv, Shaped, JobShape, JobInv, Underway, HomeWhile, Handing, Removes, Archived
<1>5. \A i \in Jobs \ {j} : job[i] = Free
  BY <1>3, OthersAreFree DEF LifecycleInv
<1>6. /\ job' = [job EXCEPT ![j] = Free]
      /\ Free \in Request /\ row' = row /\ arch' = arch /\ mem' = mem /\ kept' = kept /\ archives' = archives
      /\ cut' = cut /\ torn' = torn /\ files' \in {files, 0} /\ deleted' \in BOOLEAN
  BY <1>2, <1>3, <1>4, FreeRequest DEF DeleteSessionData, Go, Finish, Request, Names, Places, Stores, history
<1>7. /\ job' \in [Jobs -> Request] /\ job'[j] = Free
      /\ \A i \in Jobs \ {j} : job'[i] = Free
  BY <1>2, <1>5, <1>6, MovedTo
<1>8. job'[j].op = "none" /\ job'[j].pc = "" /\ job'[j].seen = None
  BY <1>7, FreeRequest
<1>9. JobInv(job[j])'
  <2>1. Underway(job[j])'
    BY <1>2, <1>3, <1>4, <1>6, <1>7, <1>8, FreeRequest DEF Underway, Archived, Stores, StoreInv
  <2>2. HomeWhile(job[j])'
    BY <1>2, <1>3, <1>4, <1>6, <1>7, <1>8, FreeRequest DEF HomeWhile, Handing, Archived
  <2>3. Removes(job[j])'
    BY <1>2, <1>3, <1>4, <1>6, <1>7, <1>8, FreeRequest
      DEF Removes, Covered, Archived, StoreInv, NothingLostAtFirst, NothingLost, Stores, Turns
  <2> QED BY <2>1, <2>2, <2>3 DEF JobInv
<1>10. StoreInv'
  <2>1. RowHasFiles'
    BY <1>2, <1>3, <1>4, <1>6 DEF StoreInv, RowHasFiles, Stores, Turns
  <2>2. (mem' => row' # None) /\ (arch'.has => archives' >= 1)
    BY <1>2, <1>3, <1>4, <1>6 DEF StoreInv, Stores, Turns, Archived
  <2>3. NothingLostAtFirst'
    BY <1>2, <1>3, <1>4, <1>6 DEF StoreInv, NothingLostAtFirst, NothingLost, Covered, Archived, Stores, Turns
  <2> QED BY <2>1, <2>2, <2>3 DEF StoreInv
<1>11. job'[j] = Free => OneHome'
  BY <1>2, <1>3, <1>4, <1>6, <1>7 DEF OneHome, Archived, Stores
<1> QED BY <1>1, <1>7, <1>9, <1>10, <1>11, Rejoin

\* deleteActiveSession takes the session out of memory first, of an archive.
LEMMA deleteActivearchiveKeeps ==
  ASSUME LifecycleConstants, ~ Overlap, LifecycleInv, NEW j \in Jobs, deleteActive(j, "archive")
  PROVE  LifecycleInv'
<1> USE DEF None
<1>1. Shaped'
  BY deleteActivearchiveTyped DEF LifecycleInv
<1>2. /\ Stores /\ StoreInv /\ job \in [Jobs -> Request] /\ job[j] \in Request
      /\ MaxTurns \in Nat /\ MaxArchives \in Nat
  BY ConstantTypes DEF LifecycleInv, Shaped
<1>3. job[j] # Free /\ job[j].op = "archive" /\ job[j].pc = "drop"
  BY FreeRequest DEF LifecycleInv, JobInv, Underway, deleteActive, At
<1>4. /\ job[j].seen \in Turns
      /\ row = job[j].seen
      /\ archives >= 1
      /\ (archives <= 1 => Covered)
  BY <1>2, <1>3 DEF LifecycleInv, Shaped, JobShape, JobInv, Underway, HomeWhile, Handing, Removes, Archived
<1>5. \A i \in Jobs \ {j} : job[i] = Free
  BY <1>3, OthersAreFree DEF LifecycleInv
<1>6. /\ job' = [job EXCEPT ![j] = [op |-> "archive", pc |-> "row", seen |-> job[j].seen]]
      /\ [op |-> "archive", pc |-> "row", seen |-> job[j].seen] \in Request /\ row' = row /\ files' = files
      /\ arch' = arch /\ mem' = FALSE /\ kept' = kept /\ deleted' = deleted /\ archives' = archives
      /\ cut' = cut /\ torn' = torn
  <2>1. To(j, "row") /\ "row" \in Places
    BY <1>2, <1>3 DEF deleteActive, Places
  <2> QED BY <1>2, <1>3, <2>1, PcMoved DEF deleteActive, history
<1>7. /\ job' \in [Jobs -> Request] /\ job'[j] = [op |-> "archive", pc |-> "row", seen |-> job[j].seen]
      /\ \A i \in Jobs \ {j} : job'[i] = Free
  BY <1>2, <1>5, <1>6, MovedTo
<1>8. job'[j].op = "archive" /\ job'[j].pc = "row" /\ job'[j].seen = job[j].seen
  BY <1>7
<1>9. JobInv(job[j])'
  <2>1. Underway(job[j])'
    BY <1>2, <1>3, <1>4, <1>6, <1>7, <1>8 DEF Underway, Archived, Stores, StoreInv
  <2>2. HomeWhile(job[j])'
    BY <1>2, <1>3, <1>4, <1>6, <1>7, <1>8 DEF HomeWhile, Handing, Archived
  <2>3. Removes(job[j])'
    BY <1>2, <1>3, <1>4, <1>6, <1>7, <1>8
      DEF Removes, Covered, Archived, StoreInv, NothingLostAtFirst, NothingLost, Stores, Turns
  <2> QED BY <2>1, <2>2, <2>3 DEF JobInv
<1>10. StoreInv'
  <2>1. RowHasFiles'
    BY <1>2, <1>3, <1>4, <1>6 DEF StoreInv, RowHasFiles, Stores, Turns
  <2>2. (mem' => row' # None) /\ (arch'.has => archives' >= 1)
    BY <1>2, <1>3, <1>4, <1>6 DEF StoreInv, Stores, Turns, Archived
  <2>3. NothingLostAtFirst'
    BY <1>2, <1>3, <1>4, <1>6 DEF StoreInv, NothingLostAtFirst, NothingLost, Covered, Archived, Stores, Turns
  <2> QED BY <2>1, <2>2, <2>3 DEF StoreInv
<1>11. job'[j] = Free => OneHome'
  BY <1>8, FreeRequest
<1> QED BY <1>1, <1>7, <1>9, <1>10, <1>11, Rejoin

\* Then the row goes, or the request fails, of an archive.
LEMMA deleteRowarchiveKeeps ==
  ASSUME LifecycleConstants, ~ Overlap, LifecycleInv, NEW j \in Jobs, deleteRow(j, "archive")
  PROVE  LifecycleInv'
<1> USE DEF None
<1>1. Shaped'
  BY deleteRowarchiveTyped DEF LifecycleInv
<1>2. /\ Stores /\ StoreInv /\ job \in [Jobs -> Request] /\ job[j] \in Request
      /\ MaxTurns \in Nat /\ MaxArchives \in Nat
  BY ConstantTypes DEF LifecycleInv, Shaped
<1>3. job[j] # Free /\ job[j].op = "archive" /\ job[j].pc = "row"
  BY FreeRequest DEF LifecycleInv, JobInv, Underway, deleteRow, At
<1>4. /\ job[j].seen \in Turns
      /\ row = job[j].seen
      /\ ~ mem
      /\ archives >= 1
      /\ (archives <= 1 => Covered)
  BY <1>2, <1>3 DEF LifecycleInv, Shaped, JobShape, JobInv, Underway, HomeWhile, Handing, Removes, Archived
<1>5. \A i \in Jobs \ {j} : job[i] = Free
  BY <1>3, OthersAreFree DEF LifecycleInv
<1>6. CASE row' = None /\ To(j, "files") /\ cut' = FALSE /\ torn' = FALSE
  <2>1. /\ job' = [job EXCEPT ![j] = [op |-> "archive", pc |-> "files", seen |-> job[j].seen]]
        /\ [op |-> "archive", pc |-> "files", seen |-> job[j].seen] \in Request /\ row' = None /\ files' = files
        /\ arch' = arch /\ mem' = mem /\ kept' = kept /\ deleted' = deleted /\ archives' = archives
        /\ cut' = FALSE /\ torn' = FALSE
    <3>1. To(j, "files") /\ "files" \in Places
      BY <1>2, <1>3, <1>6 DEF deleteRow, Places
    <3> QED BY <1>2, <1>3, <1>6, <3>1, PcMoved DEF deleteRow, history
  <2>2. /\ job' \in [Jobs -> Request] /\ job'[j] = [op |-> "archive", pc |-> "files", seen |-> job[j].seen]
        /\ \A i \in Jobs \ {j} : job'[i] = Free
    BY <1>2, <1>5, <2>1, MovedTo
  <2>3. job'[j].op = "archive" /\ job'[j].pc = "files" /\ job'[j].seen = job[j].seen
    BY <2>2
  <2>4. JobInv(job[j])'
    <3>1. Underway(job[j])'
      BY <1>2, <1>3, <1>4, <1>6, <2>1, <2>2, <2>3 DEF Underway, Archived, Stores, StoreInv
    <3>2. HomeWhile(job[j])'
      BY <1>2, <1>3, <1>4, <1>6, <2>1, <2>2, <2>3 DEF HomeWhile, Handing, Archived
    <3>3. Removes(job[j])'
      BY <1>2, <1>3, <1>4, <1>6, <2>1, <2>2, <2>3
        DEF Removes, Covered, Archived, StoreInv, NothingLostAtFirst, NothingLost, Stores, Turns
    <3> QED BY <3>1, <3>2, <3>3 DEF JobInv
  <2>5. StoreInv'
    <3>1. RowHasFiles'
      BY <1>2, <1>3, <1>4, <1>6, <2>1 DEF StoreInv, RowHasFiles, Stores, Turns
    <3>2. (mem' => row' # None) /\ (arch'.has => archives' >= 1)
      BY <1>2, <1>3, <1>4, <1>6, <2>1 DEF StoreInv, Stores, Turns, Archived
    <3>3. NothingLostAtFirst'
      BY <1>2, <1>3, <1>4, <1>6, <2>1 DEF StoreInv, NothingLostAtFirst, NothingLost, Covered, Archived, Stores, Turns
    <3> QED BY <3>1, <3>2, <3>3 DEF StoreInv
  <2>6. job'[j] = Free => OneHome'
    BY <2>3, FreeRequest
  <2> QED BY <1>1, <2>2, <2>4, <2>5, <2>6, Rejoin
<1>7. CASE "deleteRow" \in Faults /\ Finish(j) /\ cut' = (cut \/ "archive" = "archive") /\ UNCHANGED <<row, torn>>
  <2>1. /\ job' = [job EXCEPT ![j] = Free]
        /\ Free \in Request /\ row' = row /\ files' = files /\ arch' = arch /\ mem' = mem /\ kept' = kept
        /\ deleted' = deleted /\ archives' = archives /\ cut' = (cut \/ "archive" = "archive") /\ torn' = torn
    BY <1>2, <1>3, <1>4, <1>7, FreeRequest DEF deleteRow, Go, Finish, Request, Names, Places, Stores, history
  <2>2. /\ job' \in [Jobs -> Request] /\ job'[j] = Free
        /\ \A i \in Jobs \ {j} : job'[i] = Free
    BY <1>2, <1>5, <2>1, MovedTo
  <2>3. job'[j].op = "none" /\ job'[j].pc = "" /\ job'[j].seen = None
    BY <2>2, FreeRequest
  <2>4. JobInv(job[j])'
    <3>1. Underway(job[j])'
      BY <1>2, <1>3, <1>4, <1>7, <2>1, <2>2, <2>3, FreeRequest DEF Underway, Archived, Stores, StoreInv
    <3>2. HomeWhile(job[j])'
      BY <1>2, <1>3, <1>4, <1>7, <2>1, <2>2, <2>3, FreeRequest DEF HomeWhile, Handing, Archived
    <3>3. Removes(job[j])'
      BY <1>2, <1>3, <1>4, <1>7, <2>1, <2>2, <2>3, FreeRequest
        DEF Removes, Covered, Archived, StoreInv, NothingLostAtFirst, NothingLost, Stores, Turns
    <3> QED BY <3>1, <3>2, <3>3 DEF JobInv
  <2>5. StoreInv'
    <3>1. RowHasFiles'
      BY <1>2, <1>3, <1>4, <1>7, <2>1 DEF StoreInv, RowHasFiles, Stores, Turns
    <3>2. (mem' => row' # None) /\ (arch'.has => archives' >= 1)
      BY <1>2, <1>3, <1>4, <1>7, <2>1 DEF StoreInv, Stores, Turns, Archived
    <3>3. NothingLostAtFirst'
      BY <1>2, <1>3, <1>4, <1>7, <2>1 DEF StoreInv, NothingLostAtFirst, NothingLost, Covered, Archived, Stores, Turns
    <3> QED BY <3>1, <3>2, <3>3 DEF StoreInv
  <2>6. job'[j] = Free => OneHome'
    BY <1>2, <1>3, <1>4, <1>7, <2>1, <2>2 DEF OneHome, Archived, Stores
  <2> QED BY <1>1, <2>2, <2>4, <2>5, <2>6, Rejoin
<1> QED BY <1>6, <1>7 DEF deleteRow

\* Then the files go, or the request fails, of an archive.
LEMMA DeleteSessionDataarchiveKeeps ==
  ASSUME LifecycleConstants, ~ Overlap, LifecycleInv, NEW j \in Jobs, DeleteSessionData(j, "archive")
  PROVE  LifecycleInv'
<1> USE DEF None
<1>1. Shaped'
  BY DeleteSessionDataarchiveTyped DEF LifecycleInv
<1>2. /\ Stores /\ StoreInv /\ job \in [Jobs -> Request] /\ job[j] \in Request
      /\ MaxTurns \in Nat /\ MaxArchives \in Nat
  BY ConstantTypes DEF LifecycleInv, Shaped
<1>3. job[j] # Free /\ job[j].op = "archive" /\ job[j].pc = "files"
  BY FreeRequest DEF LifecycleInv, JobInv, Underway, DeleteSessionData, At
<1>4. /\ job[j].seen \in Turns
      /\ row = None
      /\ ~ mem
      /\ archives >= 1
      /\ (archives <= 1 => Covered)
  BY <1>2, <1>3 DEF LifecycleInv, Shaped, JobShape, JobInv, Underway, HomeWhile, Handing, Removes, Archived
<1>5. \A i \in Jobs \ {j} : job[i] = Free
  BY <1>3, OthersAreFree DEF LifecycleInv
<1>6. /\ job' = [job EXCEPT ![j] = Free]
      /\ Free \in Request /\ row' = row /\ arch' = arch /\ mem' = mem /\ kept' = kept /\ archives' = archives
      /\ cut' = cut /\ torn' = torn /\ files' \in {files, 0} /\ deleted' \in BOOLEAN
  BY <1>2, <1>3, <1>4, FreeRequest DEF DeleteSessionData, Go, Finish, Request, Names, Places, Stores, history
<1>7. /\ job' \in [Jobs -> Request] /\ job'[j] = Free
      /\ \A i \in Jobs \ {j} : job'[i] = Free
  BY <1>2, <1>5, <1>6, MovedTo
<1>8. job'[j].op = "none" /\ job'[j].pc = "" /\ job'[j].seen = None
  BY <1>7, FreeRequest
<1>9. JobInv(job[j])'
  <2>1. Underway(job[j])'
    BY <1>2, <1>3, <1>4, <1>6, <1>7, <1>8, FreeRequest DEF Underway, Archived, Stores, StoreInv
  <2>2. HomeWhile(job[j])'
    BY <1>2, <1>3, <1>4, <1>6, <1>7, <1>8, FreeRequest DEF HomeWhile, Handing, Archived
  <2>3. Removes(job[j])'
    BY <1>2, <1>3, <1>4, <1>6, <1>7, <1>8, FreeRequest
      DEF Removes, Covered, Archived, StoreInv, NothingLostAtFirst, NothingLost, Stores, Turns
  <2> QED BY <2>1, <2>2, <2>3 DEF JobInv
<1>10. StoreInv'
  <2>1. RowHasFiles'
    BY <1>2, <1>3, <1>4, <1>6 DEF StoreInv, RowHasFiles, Stores, Turns
  <2>2. (mem' => row' # None) /\ (arch'.has => archives' >= 1)
    BY <1>2, <1>3, <1>4, <1>6 DEF StoreInv, Stores, Turns, Archived
  <2>3. NothingLostAtFirst'
    BY <1>2, <1>3, <1>4, <1>6 DEF StoreInv, NothingLostAtFirst, NothingLost, Covered, Archived, Stores, Turns
  <2> QED BY <2>1, <2>2, <2>3 DEF StoreInv
<1>11. job'[j] = Free => OneHome'
  BY <1>2, <1>3, <1>4, <1>6, <1>7 DEF OneHome, Archived, Stores
<1> QED BY <1>1, <1>7, <1>9, <1>10, <1>11, Rejoin

\* A delete starts: nothing of the session is wanted any more.
LEMMA DeleteSessionKeeps ==
  ASSUME LifecycleConstants, ~ Overlap, LifecycleInv, NEW j \in Jobs, DeleteSession(j)
  PROVE  LifecycleInv'
<1> USE DEF None
<1>1. Shaped'
  BY DeleteSessionTyped DEF LifecycleInv
<1>2. /\ Stores /\ StoreInv /\ job \in [Jobs -> Request] /\ job[j] \in Request
      /\ MaxTurns \in Nat /\ MaxArchives \in Nat
  BY ConstantTypes DEF LifecycleInv, Shaped
<1>3. (\A i \in Jobs : job[i] = Free) /\ MayStart(j)
  BY DEF MayStart, DeleteSession
<1>4. /\ (~ cut => ~ (row # None /\ Archived))
      /\ TRUE
  <2>1. ~ cut => ~ (row # None /\ Archived)
    BY <1>3 DEF LifecycleInv, OneHome, Archived
  <2> QED BY <1>2, <2>1 DEF DeleteSession, Stores, StoreInv, Archived
<1>5. \A i \in Jobs \ {j} : job[i] = Free
  BY <1>3
<1>6. /\ job' = [job EXCEPT ![j] = [op |-> "delete", pc |-> "drop", seen |-> None]]
      /\ [op |-> "delete", pc |-> "drop", seen |-> None] \in Request /\ row' = row /\ files' = files
      /\ arch' = arch /\ mem' = mem /\ kept' = 0 /\ deleted' = FALSE /\ archives' = archives /\ cut' = cut
      /\ torn' = torn
  BY <1>2, <1>3, <1>4 DEF DeleteSession, Go, Finish, Request, Names, Places, Stores, history
<1>7. /\ job' \in [Jobs -> Request] /\ job'[j] = [op |-> "delete", pc |-> "drop", seen |-> None]
      /\ \A i \in Jobs \ {j} : job'[i] = Free
  BY <1>2, <1>5, <1>6, MovedTo
<1>8. job'[j].op = "delete" /\ job'[j].pc = "drop" /\ job'[j].seen = None
  BY <1>7
<1>9. JobInv(job[j])'
  <2>1. Underway(job[j])'
    BY <1>2, <1>3, <1>4, <1>6, <1>7, <1>8 DEF Underway, Archived, Stores, StoreInv
  <2>2. HomeWhile(job[j])'
    BY <1>2, <1>3, <1>4, <1>6, <1>7, <1>8 DEF HomeWhile, Handing, Archived
  <2>3. Removes(job[j])'
    BY <1>2, <1>3, <1>4, <1>6, <1>7, <1>8
      DEF Removes, Covered, Archived, StoreInv, NothingLostAtFirst, NothingLost, Stores, Turns
  <2> QED BY <2>1, <2>2, <2>3 DEF JobInv
<1>10. StoreInv'
  <2>1. RowHasFiles'
    BY <1>2, <1>3, <1>4, <1>6 DEF StoreInv, RowHasFiles, Stores, Turns
  <2>2. (mem' => row' # None) /\ (arch'.has => archives' >= 1)
    BY <1>2, <1>3, <1>4, <1>6 DEF StoreInv, Stores, Turns, Archived
  <2>3. NothingLostAtFirst'
    BY <1>2, <1>3, <1>4, <1>6 DEF StoreInv, NothingLostAtFirst, NothingLost, Covered, Archived, Stores, Turns
  <2> QED BY <2>1, <2>2, <2>3 DEF StoreInv
<1>11. job'[j] = Free => OneHome'
  BY <1>8, FreeRequest
<1> QED BY <1>1, <1>7, <1>9, <1>10, <1>11, Rejoin

\* An archive starts: a short session is deleted, an entry that is there is
\* kept, any other session is appended.
LEMMA archiveSessionKeeps ==
  ASSUME LifecycleConstants, ~ Overlap, LifecycleInv, NEW j \in Jobs, archiveSession(j)
  PROVE  LifecycleInv'
<1> USE DEF None
<1>1. Shaped'
  BY archiveSessionTyped DEF LifecycleInv
<1>2. /\ Stores /\ StoreInv /\ job \in [Jobs -> Request] /\ job[j] \in Request
      /\ MaxTurns \in Nat /\ MaxArchives \in Nat
  BY ConstantTypes DEF LifecycleInv, Shaped
<1>3. (\A i \in Jobs : job[i] = Free) /\ MayStart(j)
  BY DEF MayStart, archiveSession
<1>4. /\ (~ cut => ~ (row # None /\ Archived))
      /\ row \in Turns
      /\ archives < MaxArchives
  <2>1. ~ cut => ~ (row # None /\ Archived)
    BY <1>3 DEF LifecycleInv, OneHome, Archived
  <2> QED BY <1>2, <2>1 DEF archiveSession, Stores, StoreInv, Archived
<1>5. \A i \in Jobs \ {j} : job[i] = Free
  BY <1>3
<1>6. CASE row < ShortTurns
  <2>1. /\ job' = [job EXCEPT ![j] = [op |-> "archive", pc |-> "drop", seen |-> row]]
        /\ [op |-> "archive", pc |-> "drop", seen |-> row] \in Request /\ row' = row /\ files' = files
        /\ arch' = arch /\ mem' = mem /\ kept' = 0 /\ deleted' = deleted /\ archives' = (archives + 1)
        /\ cut' = cut /\ torn' = torn
    BY <1>2, <1>3, <1>4, <1>6 DEF archiveSession, Go, Finish, Request, Names, Places, Stores, history
  <2>2. /\ job' \in [Jobs -> Request] /\ job'[j] = [op |-> "archive", pc |-> "drop", seen |-> row]
        /\ \A i \in Jobs \ {j} : job'[i] = Free
    BY <1>2, <1>5, <2>1, MovedTo
  <2>3. job'[j].op = "archive" /\ job'[j].pc = "drop" /\ job'[j].seen = row
    BY <2>2
  <2>4. JobInv(job[j])'
    <3>1. Underway(job[j])'
      BY <1>2, <1>3, <1>4, <1>6, <2>1, <2>2, <2>3 DEF Underway, Archived, Stores, StoreInv
    <3>2. HomeWhile(job[j])'
      BY <1>2, <1>3, <1>4, <1>6, <2>1, <2>2, <2>3 DEF HomeWhile, Handing, Archived
    <3>3. Removes(job[j])'
      BY <1>2, <1>3, <1>4, <1>6, <2>1, <2>2, <2>3
        DEF Removes, Covered, Archived, StoreInv, NothingLostAtFirst, NothingLost, Stores, Turns
    <3> QED BY <3>1, <3>2, <3>3 DEF JobInv
  <2>5. StoreInv'
    <3>1. RowHasFiles'
      BY <1>2, <1>3, <1>4, <1>6, <2>1 DEF StoreInv, RowHasFiles, Stores, Turns
    <3>2. (mem' => row' # None) /\ (arch'.has => archives' >= 1)
      BY <1>2, <1>3, <1>4, <1>6, <2>1 DEF StoreInv, Stores, Turns, Archived
    <3>3. NothingLostAtFirst'
      BY <1>2, <1>3, <1>4, <1>6, <2>1 DEF StoreInv, NothingLostAtFirst, NothingLost, Covered, Archived, Stores, Turns
    <3> QED BY <3>1, <3>2, <3>3 DEF StoreInv
  <2>6. job'[j] = Free => OneHome'
    BY <2>3, FreeRequest
  <2> QED BY <1>1, <2>2, <2>4, <2>5, <2>6, Rejoin
<1>7. CASE ~ (row < ShortTurns) /\ arch.has
  <2>1. /\ job' = [job EXCEPT ![j] = [op |-> "archive", pc |-> "drop", seen |-> row]]
        /\ [op |-> "archive", pc |-> "drop", seen |-> row] \in Request /\ row' = row /\ files' = files
        /\ arch' = arch /\ mem' = mem /\ kept' = kept /\ deleted' = deleted /\ archives' = (archives + 1)
        /\ cut' = cut /\ torn' = torn
    BY <1>2, <1>3, <1>4, <1>7 DEF archiveSession, Go, Finish, Request, Names, Places, Stores, history
  <2>2. /\ job' \in [Jobs -> Request] /\ job'[j] = [op |-> "archive", pc |-> "drop", seen |-> row]
        /\ \A i \in Jobs \ {j} : job'[i] = Free
    BY <1>2, <1>5, <2>1, MovedTo
  <2>3. job'[j].op = "archive" /\ job'[j].pc = "drop" /\ job'[j].seen = row
    BY <2>2
  <2>4. JobInv(job[j])'
    <3>1. Underway(job[j])'
      BY <1>2, <1>3, <1>4, <1>7, <2>1, <2>2, <2>3 DEF Underway, Archived, Stores, StoreInv
    <3>2. HomeWhile(job[j])'
      BY <1>2, <1>3, <1>4, <1>7, <2>1, <2>2, <2>3 DEF HomeWhile, Handing, Archived
    <3>3. Removes(job[j])'
      BY <1>2, <1>3, <1>4, <1>7, <2>1, <2>2, <2>3
        DEF Removes, Covered, Archived, StoreInv, NothingLostAtFirst, NothingLost, Stores, Turns
    <3> QED BY <3>1, <3>2, <3>3 DEF JobInv
  <2>5. StoreInv'
    <3>1. RowHasFiles'
      BY <1>2, <1>3, <1>4, <1>7, <2>1 DEF StoreInv, RowHasFiles, Stores, Turns
    <3>2. (mem' => row' # None) /\ (arch'.has => archives' >= 1)
      BY <1>2, <1>3, <1>4, <1>7, <2>1 DEF StoreInv, Stores, Turns, Archived
    <3>3. NothingLostAtFirst'
      BY <1>2, <1>3, <1>4, <1>7, <2>1 DEF StoreInv, NothingLostAtFirst, NothingLost, Covered, Archived, Stores, Turns
    <3> QED BY <3>1, <3>2, <3>3 DEF StoreInv
  <2>6. job'[j] = Free => OneHome'
    BY <2>3, FreeRequest
  <2> QED BY <1>1, <2>2, <2>4, <2>5, <2>6, Rejoin
<1>8. CASE ~ (row < ShortTurns) /\ ~ arch.has
  <2>1. /\ job' = [job EXCEPT ![j] = [op |-> "archive", pc |-> "append", seen |-> row]]
        /\ [op |-> "archive", pc |-> "append", seen |-> row] \in Request /\ row' = row /\ files' = files
        /\ arch' = arch /\ mem' = mem /\ kept' = kept /\ deleted' = deleted /\ archives' = (archives + 1)
        /\ cut' = cut /\ torn' = torn
    BY <1>2, <1>3, <1>4, <1>8 DEF archiveSession, Go, Finish, Request, Names, Places, Stores, history
  <2>2. /\ job' \in [Jobs -> Request] /\ job'[j] = [op |-> "archive", pc |-> "append", seen |-> row]
        /\ \A i \in Jobs \ {j} : job'[i] = Free
    BY <1>2, <1>5, <2>1, MovedTo
  <2>3. job'[j].op = "archive" /\ job'[j].pc = "append" /\ job'[j].seen = row
    BY <2>2
  <2>4. JobInv(job[j])'
    <3>1. Underway(job[j])'
      BY <1>2, <1>3, <1>4, <1>8, <2>1, <2>2, <2>3 DEF Underway, Archived, Stores, StoreInv
    <3>2. HomeWhile(job[j])'
      BY <1>2, <1>3, <1>4, <1>8, <2>1, <2>2, <2>3 DEF HomeWhile, Handing, Archived
    <3>3. Removes(job[j])'
      BY <1>2, <1>3, <1>4, <1>8, <2>1, <2>2, <2>3
        DEF Removes, Covered, Archived, StoreInv, NothingLostAtFirst, NothingLost, Stores, Turns
    <3> QED BY <3>1, <3>2, <3>3 DEF JobInv
  <2>5. StoreInv'
    <3>1. RowHasFiles'
      BY <1>2, <1>3, <1>4, <1>8, <2>1 DEF StoreInv, RowHasFiles, Stores, Turns
    <3>2. (mem' => row' # None) /\ (arch'.has => archives' >= 1)
      BY <1>2, <1>3, <1>4, <1>8, <2>1 DEF StoreInv, Stores, Turns, Archived
    <3>3. NothingLostAtFirst'
      BY <1>2, <1>3, <1>4, <1>8, <2>1 DEF StoreInv, NothingLostAtFirst, NothingLost, Covered, Archived, Stores, Turns
    <3> QED BY <3>1, <3>2, <3>3 DEF StoreInv
  <2>6. job'[j] = Free => OneHome'
    BY <2>3, FreeRequest
  <2> QED BY <1>1, <2>2, <2>4, <2>5, <2>6, Rejoin
<1> QED BY <1>6, <1>7, <1>8 DEF archiveSession

\* The entry is appended to the manifest, or the request fails.
LEMMA AppendSessionKeeps ==
  ASSUME LifecycleConstants, ~ Overlap, LifecycleInv, NEW j \in Jobs, AppendSession(j)
  PROVE  LifecycleInv'
<1> USE DEF None
<1>1. Shaped'
  BY AppendSessionTyped DEF LifecycleInv
<1>2. /\ Stores /\ StoreInv /\ job \in [Jobs -> Request] /\ job[j] \in Request
      /\ MaxTurns \in Nat /\ MaxArchives \in Nat
  BY ConstantTypes DEF LifecycleInv, Shaped
<1>3. job[j] # Free /\ job[j].op = "archive" /\ job[j].pc = "append"
  BY FreeRequest DEF LifecycleInv, JobInv, Underway, AppendSession, At
<1>4. /\ job[j].seen \in Turns
      /\ row = job[j].seen
      /\ archives >= 1
      /\ (archives <= 1 => ~ arch.has)
      /\ (~ cut => ~ (row # None /\ Archived))
  BY <1>2, <1>3 DEF LifecycleInv, Shaped, JobShape, JobInv, Underway, HomeWhile, Handing, Removes, Archived
<1>5. \A i \in Jobs \ {j} : job[i] = Free
  BY <1>3, OthersAreFree DEF LifecycleInv
<1>6. CASE /\ arch' = (IF arch.has THEN arch ELSE [has |-> TRUE, turns |-> job[j].seen, restored |-> FALSE])
           /\ To(j, "drop")
  <2>1. /\ job' = [job EXCEPT ![j] = [op |-> "archive", pc |-> "drop", seen |-> job[j].seen]]
        /\ [op |-> "archive", pc |-> "drop", seen |-> job[j].seen] \in Request /\ row' = row /\ files' = files
        /\ arch' = (IF arch.has THEN arch ELSE [has |-> TRUE, turns |-> job[j].seen, restored |-> FALSE])
        /\ mem' = mem /\ kept' = kept /\ deleted' = deleted /\ archives' = archives /\ cut' = cut
        /\ torn' = torn
    <3>1. To(j, "drop") /\ "drop" \in Places
      BY <1>2, <1>3, <1>6 DEF AppendSession, Places
    <3> QED BY <1>2, <1>3, <1>6, <3>1, PcMoved DEF AppendSession, history
  <2>2. /\ job' \in [Jobs -> Request] /\ job'[j] = [op |-> "archive", pc |-> "drop", seen |-> job[j].seen]
        /\ \A i \in Jobs \ {j} : job'[i] = Free
    BY <1>2, <1>5, <2>1, MovedTo
  <2>3. job'[j].op = "archive" /\ job'[j].pc = "drop" /\ job'[j].seen = job[j].seen
    BY <2>2
  <2>4. JobInv(job[j])'
    <3>1. Underway(job[j])'
      BY <1>2, <1>3, <1>4, <1>6, <2>1, <2>2, <2>3 DEF Underway, Archived, Stores, StoreInv
    <3>2. HomeWhile(job[j])'
      BY <1>2, <1>3, <1>4, <1>6, <2>1, <2>2, <2>3 DEF HomeWhile, Handing, Archived
    <3>3. Removes(job[j])'
      BY <1>2, <1>3, <1>4, <1>6, <2>1, <2>2, <2>3
        DEF Removes, Covered, Archived, StoreInv, NothingLostAtFirst, NothingLost, Stores, Turns
    <3> QED BY <3>1, <3>2, <3>3 DEF JobInv
  <2>5. StoreInv'
    <3>1. RowHasFiles'
      BY <1>2, <1>3, <1>4, <1>6, <2>1 DEF StoreInv, RowHasFiles, Stores, Turns
    <3>2. (mem' => row' # None) /\ (arch'.has => archives' >= 1)
      BY <1>2, <1>3, <1>4, <1>6, <2>1 DEF StoreInv, Stores, Turns, Archived
    <3>3. NothingLostAtFirst'
      BY <1>2, <1>3, <1>4, <1>6, <2>1 DEF StoreInv, NothingLostAtFirst, NothingLost, Covered, Archived, Stores, Turns
    <3> QED BY <3>1, <3>2, <3>3 DEF StoreInv
  <2>6. job'[j] = Free => OneHome'
    BY <2>3, FreeRequest
  <2> QED BY <1>1, <2>2, <2>4, <2>5, <2>6, Rejoin
<1>7. CASE "append" \in Faults /\ Finish(j) /\ UNCHANGED arch
  <2>1. /\ job' = [job EXCEPT ![j] = Free]
        /\ Free \in Request /\ row' = row /\ files' = files /\ arch' = arch /\ mem' = mem /\ kept' = kept
        /\ deleted' = deleted /\ archives' = archives /\ cut' = cut /\ torn' = torn
    BY <1>2, <1>3, <1>4, <1>7, FreeRequest DEF AppendSession, Go, Finish, Request, Names, Places, Stores, history
  <2>2. /\ job' \in [Jobs -> Request] /\ job'[j] = Free
        /\ \A i \in Jobs \ {j} : job'[i] = Free
    BY <1>2, <1>5, <2>1, MovedTo
  <2>3. job'[j].op = "none" /\ job'[j].pc = "" /\ job'[j].seen = None
    BY <2>2, FreeRequest
  <2>4. JobInv(job[j])'
    <3>1. Underway(job[j])'
      BY <1>2, <1>3, <1>4, <1>7, <2>1, <2>2, <2>3, FreeRequest DEF Underway, Archived, Stores, StoreInv
    <3>2. HomeWhile(job[j])'
      BY <1>2, <1>3, <1>4, <1>7, <2>1, <2>2, <2>3, FreeRequest DEF HomeWhile, Handing, Archived
    <3>3. Removes(job[j])'
      BY <1>2, <1>3, <1>4, <1>7, <2>1, <2>2, <2>3, FreeRequest
        DEF Removes, Covered, Archived, StoreInv, NothingLostAtFirst, NothingLost, Stores, Turns
    <3> QED BY <3>1, <3>2, <3>3 DEF JobInv
  <2>5. StoreInv'
    <3>1. RowHasFiles'
      BY <1>2, <1>3, <1>4, <1>7, <2>1 DEF StoreInv, RowHasFiles, Stores, Turns
    <3>2. (mem' => row' # None) /\ (arch'.has => archives' >= 1)
      BY <1>2, <1>3, <1>4, <1>7, <2>1 DEF StoreInv, Stores, Turns, Archived
    <3>3. NothingLostAtFirst'
      BY <1>2, <1>3, <1>4, <1>7, <2>1 DEF StoreInv, NothingLostAtFirst, NothingLost, Covered, Archived, Stores, Turns
    <3> QED BY <3>1, <3>2, <3>3 DEF StoreInv
  <2>6. job'[j] = Free => OneHome'
    BY <1>2, <1>3, <1>4, <1>7, <2>1, <2>2 DEF OneHome, Archived, Stores
  <2> QED BY <1>1, <2>2, <2>4, <2>5, <2>6, Rejoin
<1> QED BY <1>6, <1>7 DEF AppendSession

\* A restore starts from an entry that is not restored and without a row.
LEMMA RestoreArchivedSessionKeeps ==
  ASSUME LifecycleConstants, ~ Overlap, LifecycleInv, NEW j \in Jobs, RestoreArchivedSession(j)
  PROVE  LifecycleInv'
<1> USE DEF None
<1>1. Shaped'
  BY RestoreArchivedSessionTyped DEF LifecycleInv
<1>2. /\ Stores /\ StoreInv /\ job \in [Jobs -> Request] /\ job[j] \in Request
      /\ MaxTurns \in Nat /\ MaxArchives \in Nat
  BY ConstantTypes DEF LifecycleInv, Shaped
<1>3. (\A i \in Jobs : job[i] = Free) /\ MayStart(j)
  BY DEF MayStart, RestoreArchivedSession
<1>4. /\ (~ cut => ~ (row # None /\ Archived))
      /\ row = None
      /\ ~ mem
      /\ arch.has
      /\ ~ arch.restored
      /\ Archived
      /\ arch.turns \in Turns
  <2>1. ~ cut => ~ (row # None /\ Archived)
    BY <1>3 DEF LifecycleInv, OneHome, Archived
  <2> QED BY <1>2, <2>1 DEF RestoreArchivedSession, Stores, StoreInv, Archived
<1>5. \A i \in Jobs \ {j} : job[i] = Free
  BY <1>3
<1>6. /\ job' = [job EXCEPT ![j] = [op |-> "restore", pc |-> "write", seen |-> arch.turns]]
      /\ [op |-> "restore", pc |-> "write", seen |-> arch.turns] \in Request /\ row' = row /\ files' = 0
      /\ arch' = arch /\ mem' = mem /\ kept' = kept /\ deleted' = FALSE /\ archives' = archives /\ cut' = cut
      /\ torn' = torn
  BY <1>2, <1>3, <1>4 DEF RestoreArchivedSession, Go, Finish, Request, Names, Places, Stores, history
<1>7. /\ job' \in [Jobs -> Request] /\ job'[j] = [op |-> "restore", pc |-> "write", seen |-> arch.turns]
      /\ \A i \in Jobs \ {j} : job'[i] = Free
  BY <1>2, <1>5, <1>6, MovedTo
<1>8. job'[j].op = "restore" /\ job'[j].pc = "write" /\ job'[j].seen = arch.turns
  BY <1>7
<1>9. JobInv(job[j])'
  <2>1. Underway(job[j])'
    BY <1>2, <1>3, <1>4, <1>6, <1>7, <1>8 DEF Underway, Archived, Stores, StoreInv
  <2>2. HomeWhile(job[j])'
    BY <1>2, <1>3, <1>4, <1>6, <1>7, <1>8 DEF HomeWhile, Handing, Archived
  <2>3. Removes(job[j])'
    BY <1>2, <1>3, <1>4, <1>6, <1>7, <1>8
      DEF Removes, Covered, Archived, StoreInv, NothingLostAtFirst, NothingLost, Stores, Turns
  <2> QED BY <2>1, <2>2, <2>3 DEF JobInv
<1>10. StoreInv'
  <2>1. RowHasFiles'
    BY <1>2, <1>3, <1>4, <1>6 DEF StoreInv, RowHasFiles, Stores, Turns
  <2>2. (mem' => row' # None) /\ (arch'.has => archives' >= 1)
    BY <1>2, <1>3, <1>4, <1>6 DEF StoreInv, Stores, Turns, Archived
  <2>3. NothingLostAtFirst'
    BY <1>2, <1>3, <1>4, <1>6 DEF StoreInv, NothingLostAtFirst, NothingLost, Covered, Archived, Stores, Turns
  <2> QED BY <2>1, <2>2, <2>3 DEF StoreInv
<1>11. job'[j] = Free => OneHome'
  BY <1>8, FreeRequest
<1> QED BY <1>1, <1>7, <1>9, <1>10, <1>11, Rejoin

\* The turns are written, or the request fails.
LEMMA WriteSessionTurnFilesKeeps ==
  ASSUME LifecycleConstants, ~ Overlap, LifecycleInv, NEW j \in Jobs, WriteSessionTurnFiles(j)
  PROVE  LifecycleInv'
<1> USE DEF None
<1>1. Shaped'
  BY WriteSessionTurnFilesTyped DEF LifecycleInv
<1>2. /\ Stores /\ StoreInv /\ job \in [Jobs -> Request] /\ job[j] \in Request
      /\ MaxTurns \in Nat /\ MaxArchives \in Nat
  BY ConstantTypes DEF LifecycleInv, Shaped
<1>3. job[j] # Free /\ job[j].op = "restore" /\ job[j].pc = "write"
  BY FreeRequest DEF LifecycleInv, JobInv, Underway, WriteSessionTurnFiles, At
<1>4. /\ job[j].seen \in Turns
      /\ row = None
      /\ ~ mem
      /\ Archived
      /\ arch.turns = job[j].seen
  BY <1>2, <1>3 DEF LifecycleInv, Shaped, JobShape, JobInv, Underway, HomeWhile, Handing, Removes, Archived
<1>5. \A i \in Jobs \ {j} : job[i] = Free
  BY <1>3, OthersAreFree DEF LifecycleInv
<1>6. CASE files' = job[j].seen /\ To(j, "save")
  <2>1. /\ job' = [job EXCEPT ![j] = [op |-> "restore", pc |-> "save", seen |-> job[j].seen]]
        /\ [op |-> "restore", pc |-> "save", seen |-> job[j].seen] \in Request /\ row' = row
        /\ files' = job[j].seen /\ arch' = arch /\ mem' = mem /\ kept' = kept /\ deleted' = deleted
        /\ archives' = archives /\ cut' = cut /\ torn' = torn
    <3>1. To(j, "save") /\ "save" \in Places
      BY <1>2, <1>3, <1>6 DEF WriteSessionTurnFiles, Places
    <3> QED BY <1>2, <1>3, <1>6, <3>1, PcMoved DEF WriteSessionTurnFiles, history
  <2>2. /\ job' \in [Jobs -> Request] /\ job'[j] = [op |-> "restore", pc |-> "save", seen |-> job[j].seen]
        /\ \A i \in Jobs \ {j} : job'[i] = Free
    BY <1>2, <1>5, <2>1, MovedTo
  <2>3. job'[j].op = "restore" /\ job'[j].pc = "save" /\ job'[j].seen = job[j].seen
    BY <2>2
  <2>4. JobInv(job[j])'
    <3>1. Underway(job[j])'
      BY <1>2, <1>3, <1>4, <1>6, <2>1, <2>2, <2>3 DEF Underway, Archived, Stores, StoreInv
    <3>2. HomeWhile(job[j])'
      BY <1>2, <1>3, <1>4, <1>6, <2>1, <2>2, <2>3 DEF HomeWhile, Handing, Archived
    <3>3. Removes(job[j])'
      BY <1>2, <1>3, <1>4, <1>6, <2>1, <2>2, <2>3
        DEF Removes, Covered, Archived, StoreInv, NothingLostAtFirst, NothingLost, Stores, Turns
    <3> QED BY <3>1, <3>2, <3>3 DEF JobInv
  <2>5. StoreInv'
    <3>1. RowHasFiles'
      BY <1>2, <1>3, <1>4, <1>6, <2>1 DEF StoreInv, RowHasFiles, Stores, Turns
    <3>2. (mem' => row' # None) /\ (arch'.has => archives' >= 1)
      BY <1>2, <1>3, <1>4, <1>6, <2>1 DEF StoreInv, Stores, Turns, Archived
    <3>3. NothingLostAtFirst'
      BY <1>2, <1>3, <1>4, <1>6, <2>1 DEF StoreInv, NothingLostAtFirst, NothingLost, Covered, Archived, Stores, Turns
    <3> QED BY <3>1, <3>2, <3>3 DEF StoreInv
  <2>6. job'[j] = Free => OneHome'
    BY <2>3, FreeRequest
  <2> QED BY <1>1, <2>2, <2>4, <2>5, <2>6, Rejoin
<1>7. CASE "writeTurns" \in Faults /\ Finish(j) /\ UNCHANGED files
  <2>1. /\ job' = [job EXCEPT ![j] = Free]
        /\ Free \in Request /\ row' = row /\ files' = files /\ arch' = arch /\ mem' = mem /\ kept' = kept
        /\ deleted' = deleted /\ archives' = archives /\ cut' = cut /\ torn' = torn
    BY <1>2, <1>3, <1>4, <1>7, FreeRequest
      DEF WriteSessionTurnFiles, Go, Finish, Request, Names, Places, Stores, history
  <2>2. /\ job' \in [Jobs -> Request] /\ job'[j] = Free
        /\ \A i \in Jobs \ {j} : job'[i] = Free
    BY <1>2, <1>5, <2>1, MovedTo
  <2>3. job'[j].op = "none" /\ job'[j].pc = "" /\ job'[j].seen = None
    BY <2>2, FreeRequest
  <2>4. JobInv(job[j])'
    <3>1. Underway(job[j])'
      BY <1>2, <1>3, <1>4, <1>7, <2>1, <2>2, <2>3, FreeRequest DEF Underway, Archived, Stores, StoreInv
    <3>2. HomeWhile(job[j])'
      BY <1>2, <1>3, <1>4, <1>7, <2>1, <2>2, <2>3, FreeRequest DEF HomeWhile, Handing, Archived
    <3>3. Removes(job[j])'
      BY <1>2, <1>3, <1>4, <1>7, <2>1, <2>2, <2>3, FreeRequest
        DEF Removes, Covered, Archived, StoreInv, NothingLostAtFirst, NothingLost, Stores, Turns
    <3> QED BY <3>1, <3>2, <3>3 DEF JobInv
  <2>5. StoreInv'
    <3>1. RowHasFiles'
      BY <1>2, <1>3, <1>4, <1>7, <2>1 DEF StoreInv, RowHasFiles, Stores, Turns
    <3>2. (mem' => row' # None) /\ (arch'.has => archives' >= 1)
      BY <1>2, <1>3, <1>4, <1>7, <2>1 DEF StoreInv, Stores, Turns, Archived
    <3>3. NothingLostAtFirst'
      BY <1>2, <1>3, <1>4, <1>7, <2>1 DEF StoreInv, NothingLostAtFirst, NothingLost, Covered, Archived, Stores, Turns
    <3> QED BY <3>1, <3>2, <3>3 DEF StoreInv
  <2>6. job'[j] = Free => OneHome'
    BY <1>2, <1>3, <1>4, <1>7, <2>1, <2>2 DEF OneHome, Archived, Stores
  <2> QED BY <1>1, <2>2, <2>4, <2>5, <2>6, Rejoin
<1> QED BY <1>6, <1>7 DEF WriteSessionTurnFiles

\* The row is saved, or the files are taken back.
LEMMA SaveRestoredKeeps ==
  ASSUME LifecycleConstants, ~ Overlap, LifecycleInv, NEW j \in Jobs, SaveRestored(j)
  PROVE  LifecycleInv'
<1> USE DEF None
<1>1. Shaped'
  BY SaveRestoredTyped DEF LifecycleInv
<1>2. /\ Stores /\ StoreInv /\ job \in [Jobs -> Request] /\ job[j] \in Request
      /\ MaxTurns \in Nat /\ MaxArchives \in Nat
  BY ConstantTypes DEF LifecycleInv, Shaped
<1>3. job[j] # Free /\ job[j].op = "restore" /\ job[j].pc = "save"
  BY FreeRequest DEF LifecycleInv, JobInv, Underway, SaveRestored, DeleteFiles, At
<1>4. /\ job[j].seen \in Turns
      /\ row = None
      /\ ~ mem
      /\ Archived
      /\ arch.turns = job[j].seen
      /\ files = job[j].seen
  BY <1>2, <1>3 DEF LifecycleInv, Shaped, JobShape, JobInv, Underway, HomeWhile, Handing, Removes, Archived
<1>5. \A i \in Jobs \ {j} : job[i] = Free
  BY <1>3, OthersAreFree DEF LifecycleInv
<1>6. CASE row' = job[j].seen /\ kept' = job[j].seen /\ To(j, "mark") /\ UNCHANGED files
  <2>1. /\ job' = [job EXCEPT ![j] = [op |-> "restore", pc |-> "mark", seen |-> job[j].seen]]
        /\ [op |-> "restore", pc |-> "mark", seen |-> job[j].seen] \in Request /\ row' = job[j].seen
        /\ files' = files /\ arch' = arch /\ mem' = mem /\ kept' = job[j].seen /\ deleted' = deleted
        /\ archives' = archives /\ cut' = cut /\ torn' = torn
    <3>1. To(j, "mark") /\ "mark" \in Places
      BY <1>2, <1>3, <1>6 DEF SaveRestored, DeleteFiles, Places
    <3> QED BY <1>2, <1>3, <1>6, <3>1, PcMoved DEF SaveRestored, DeleteFiles, history
  <2>2. /\ job' \in [Jobs -> Request] /\ job'[j] = [op |-> "restore", pc |-> "mark", seen |-> job[j].seen]
        /\ \A i \in Jobs \ {j} : job'[i] = Free
    BY <1>2, <1>5, <2>1, MovedTo
  <2>3. job'[j].op = "restore" /\ job'[j].pc = "mark" /\ job'[j].seen = job[j].seen
    BY <2>2
  <2>4. JobInv(job[j])'
    <3>1. Underway(job[j])'
      BY <1>2, <1>3, <1>4, <1>6, <2>1, <2>2, <2>3 DEF Underway, Archived, Stores, StoreInv
    <3>2. HomeWhile(job[j])'
      BY <1>2, <1>3, <1>4, <1>6, <2>1, <2>2, <2>3 DEF HomeWhile, Handing, Archived
    <3>3. Removes(job[j])'
      BY <1>2, <1>3, <1>4, <1>6, <2>1, <2>2, <2>3
        DEF Removes, Covered, Archived, StoreInv, NothingLostAtFirst, NothingLost, Stores, Turns
    <3> QED BY <3>1, <3>2, <3>3 DEF JobInv
  <2>5. StoreInv'
    <3>1. RowHasFiles'
      BY <1>2, <1>3, <1>4, <1>6, <2>1 DEF StoreInv, RowHasFiles, Stores, Turns
    <3>2. (mem' => row' # None) /\ (arch'.has => archives' >= 1)
      BY <1>2, <1>3, <1>4, <1>6, <2>1 DEF StoreInv, Stores, Turns, Archived
    <3>3. NothingLostAtFirst'
      BY <1>2, <1>3, <1>4, <1>6, <2>1 DEF StoreInv, NothingLostAtFirst, NothingLost, Covered, Archived, Stores, Turns
    <3> QED BY <3>1, <3>2, <3>3 DEF StoreInv
  <2>6. job'[j] = Free => OneHome'
    BY <2>3, FreeRequest
  <2> QED BY <1>1, <2>2, <2>4, <2>5, <2>6, Rejoin
<1>7. CASE "saveRow" \in Faults /\ DeleteFiles /\ Finish(j) /\ UNCHANGED <<row, kept>>
  <2>1. /\ job' = [job EXCEPT ![j] = Free]
        /\ Free \in Request /\ row' = row /\ arch' = arch /\ mem' = mem /\ kept' = kept /\ deleted' = deleted
        /\ archives' = archives /\ cut' = cut /\ torn' = torn /\ files' \in {files, 0}
    BY <1>2, <1>3, <1>4, <1>7, FreeRequest
      DEF SaveRestored, DeleteFiles, Go, Finish, Request, Names, Places, Stores, history
  <2>2. /\ job' \in [Jobs -> Request] /\ job'[j] = Free
        /\ \A i \in Jobs \ {j} : job'[i] = Free
    BY <1>2, <1>5, <2>1, MovedTo
  <2>3. job'[j].op = "none" /\ job'[j].pc = "" /\ job'[j].seen = None
    BY <2>2, FreeRequest
  <2>4. JobInv(job[j])'
    <3>1. Underway(job[j])'
      BY <1>2, <1>3, <1>4, <1>7, <2>1, <2>2, <2>3, FreeRequest DEF Underway, Archived, Stores, StoreInv
    <3>2. HomeWhile(job[j])'
      BY <1>2, <1>3, <1>4, <1>7, <2>1, <2>2, <2>3, FreeRequest DEF HomeWhile, Handing, Archived
    <3>3. Removes(job[j])'
      BY <1>2, <1>3, <1>4, <1>7, <2>1, <2>2, <2>3, FreeRequest
        DEF Removes, Covered, Archived, StoreInv, NothingLostAtFirst, NothingLost, Stores, Turns
    <3> QED BY <3>1, <3>2, <3>3 DEF JobInv
  <2>5. StoreInv'
    <3>1. RowHasFiles'
      BY <1>2, <1>3, <1>4, <1>7, <2>1 DEF StoreInv, RowHasFiles, Stores, Turns
    <3>2. (mem' => row' # None) /\ (arch'.has => archives' >= 1)
      BY <1>2, <1>3, <1>4, <1>7, <2>1 DEF StoreInv, Stores, Turns, Archived
    <3>3. NothingLostAtFirst'
      BY <1>2, <1>3, <1>4, <1>7, <2>1 DEF StoreInv, NothingLostAtFirst, NothingLost, Covered, Archived, Stores, Turns
    <3> QED BY <3>1, <3>2, <3>3 DEF StoreInv
  <2>6. job'[j] = Free => OneHome'
    BY <1>2, <1>3, <1>4, <1>7, <2>1, <2>2 DEF OneHome, Archived, Stores
  <2> QED BY <1>1, <2>2, <2>4, <2>5, <2>6, Rejoin
<1> QED BY <1>6, <1>7 DEF SaveRestored, DeleteFiles

\* The entry is marked, or the row and the files are taken back as far as they
\* can be deleted.
LEMMA MarkRestoredKeeps ==
  ASSUME LifecycleConstants, ~ Overlap, LifecycleInv, NEW j \in Jobs, MarkRestored(j)
  PROVE  LifecycleInv'
<1> USE DEF None
<1>1. Shaped'
  BY MarkRestoredTyped DEF LifecycleInv
<1>2. /\ Stores /\ StoreInv /\ job \in [Jobs -> Request] /\ job[j] \in Request
      /\ MaxTurns \in Nat /\ MaxArchives \in Nat
  BY ConstantTypes DEF LifecycleInv, Shaped
<1>3. job[j] # Free /\ job[j].op = "restore" /\ job[j].pc = "mark"
  BY FreeRequest DEF LifecycleInv, JobInv, Underway, MarkRestored, TakenBack, DeleteFiles, At
<1>4. /\ job[j].seen \in Turns
      /\ row = job[j].seen
      /\ files = job[j].seen
      /\ kept = job[j].seen
      /\ ~ mem
      /\ Archived
      /\ arch.turns = job[j].seen
  BY <1>2, <1>3 DEF LifecycleInv, Shaped, JobShape, JobInv, Underway, HomeWhile, Handing, Removes, Archived
<1>5. \A i \in Jobs \ {j} : job[i] = Free
  BY <1>3, OthersAreFree DEF LifecycleInv
<1>6. CASE ~ arch.restored /\ arch' = [arch EXCEPT !.restored = TRUE] /\ UNCHANGED <<row, files, cut, torn>>
  <2>1. /\ job' = [job EXCEPT ![j] = Free]
        /\ Free \in Request /\ row' = row /\ files' = files /\ arch' = [arch EXCEPT !.restored = TRUE]
        /\ mem' = mem /\ kept' = kept /\ deleted' = deleted /\ archives' = archives /\ cut' = cut
        /\ torn' = torn
    BY <1>2, <1>3, <1>4, <1>6, FreeRequest
      DEF MarkRestored, TakenBack, DeleteFiles, Go, Finish, Request, Names, Places, Stores, history
  <2>2. /\ job' \in [Jobs -> Request] /\ job'[j] = Free
        /\ \A i \in Jobs \ {j} : job'[i] = Free
    BY <1>2, <1>5, <2>1, MovedTo
  <2>3. job'[j].op = "none" /\ job'[j].pc = "" /\ job'[j].seen = None
    BY <2>2, FreeRequest
  <2>4. JobInv(job[j])'
    <3>1. Underway(job[j])'
      BY <1>2, <1>3, <1>4, <1>6, <2>1, <2>2, <2>3, FreeRequest DEF Underway, Archived, Stores, StoreInv
    <3>2. HomeWhile(job[j])'
      BY <1>2, <1>3, <1>4, <1>6, <2>1, <2>2, <2>3, FreeRequest DEF HomeWhile, Handing, Archived
    <3>3. Removes(job[j])'
      BY <1>2, <1>3, <1>4, <1>6, <2>1, <2>2, <2>3, FreeRequest
        DEF Removes, Covered, Archived, StoreInv, NothingLostAtFirst, NothingLost, Stores, Turns
    <3> QED BY <3>1, <3>2, <3>3 DEF JobInv
  <2>5. StoreInv'
    <3>1. RowHasFiles'
      BY <1>2, <1>3, <1>4, <1>6, <2>1 DEF StoreInv, RowHasFiles, Stores, Turns
    <3>2. (mem' => row' # None) /\ (arch'.has => archives' >= 1)
      BY <1>2, <1>3, <1>4, <1>6, <2>1 DEF StoreInv, Stores, Turns, Archived
    <3>3. NothingLostAtFirst'
      BY <1>2, <1>3, <1>4, <1>6, <2>1 DEF StoreInv, NothingLostAtFirst, NothingLost, Covered, Archived, Stores, Turns
    <3> QED BY <3>1, <3>2, <3>3 DEF StoreInv
  <2>6. job'[j] = Free => OneHome'
    BY <1>2, <1>3, <1>4, <1>6, <2>1, <2>2 DEF OneHome, Archived, Stores
  <2> QED BY <1>1, <2>2, <2>4, <2>5, <2>6, Rejoin
<1>7. CASE DeleteFiles /\ UNCHANGED arch /\ row' = None /\ cut' = FALSE /\ torn' = FALSE
  <2>1. /\ job' = [job EXCEPT ![j] = Free]
        /\ Free \in Request /\ row' = None /\ arch' = arch /\ mem' = mem /\ kept' = kept /\ deleted' = deleted
        /\ archives' = archives /\ cut' = FALSE /\ torn' = FALSE /\ files' \in {files, 0}
    BY <1>2, <1>3, <1>4, <1>7, FreeRequest
      DEF MarkRestored, TakenBack, DeleteFiles, Go, Finish, Request, Names, Places, Stores, history
  <2>2. /\ job' \in [Jobs -> Request] /\ job'[j] = Free
        /\ \A i \in Jobs \ {j} : job'[i] = Free
    BY <1>2, <1>5, <2>1, MovedTo
  <2>3. job'[j].op = "none" /\ job'[j].pc = "" /\ job'[j].seen = None
    BY <2>2, FreeRequest
  <2>4. JobInv(job[j])'
    <3>1. Underway(job[j])'
      BY <1>2, <1>3, <1>4, <1>7, <2>1, <2>2, <2>3, FreeRequest DEF Underway, Archived, Stores, StoreInv
    <3>2. HomeWhile(job[j])'
      BY <1>2, <1>3, <1>4, <1>7, <2>1, <2>2, <2>3, FreeRequest DEF HomeWhile, Handing, Archived
    <3>3. Removes(job[j])'
      BY <1>2, <1>3, <1>4, <1>7, <2>1, <2>2, <2>3, FreeRequest
        DEF Removes, Covered, Archived, StoreInv, NothingLostAtFirst, NothingLost, Stores, Turns
    <3> QED BY <3>1, <3>2, <3>3 DEF JobInv
  <2>5. StoreInv'
    <3>1. RowHasFiles'
      BY <1>2, <1>3, <1>4, <1>7, <2>1 DEF StoreInv, RowHasFiles, Stores, Turns
    <3>2. (mem' => row' # None) /\ (arch'.has => archives' >= 1)
      BY <1>2, <1>3, <1>4, <1>7, <2>1 DEF StoreInv, Stores, Turns, Archived
    <3>3. NothingLostAtFirst'
      BY <1>2, <1>3, <1>4, <1>7, <2>1 DEF StoreInv, NothingLostAtFirst, NothingLost, Covered, Archived, Stores, Turns
    <3> QED BY <3>1, <3>2, <3>3 DEF StoreInv
  <2>6. job'[j] = Free => OneHome'
    BY <1>2, <1>3, <1>4, <1>7, <2>1, <2>2 DEF OneHome, Archived, Stores
  <2> QED BY <1>1, <2>2, <2>4, <2>5, <2>6, Rejoin
<1>8. CASE DeleteFiles /\ UNCHANGED arch /\ cut' = TRUE /\ torn' = (torn \/ files' < row) /\ UNCHANGED row
  <2>1. /\ job' = [job EXCEPT ![j] = Free]
        /\ Free \in Request /\ row' = row /\ arch' = arch /\ mem' = mem /\ kept' = kept /\ deleted' = deleted
        /\ archives' = archives /\ cut' = TRUE /\ files' \in {files, 0}
    BY <1>2, <1>3, <1>4, <1>8, FreeRequest
      DEF MarkRestored, TakenBack, DeleteFiles, Go, Finish, Request, Names, Places, Stores, history
  <2>2. /\ job' \in [Jobs -> Request] /\ job'[j] = Free
        /\ \A i \in Jobs \ {j} : job'[i] = Free
    BY <1>2, <1>5, <2>1, MovedTo
  <2>3. job'[j].op = "none" /\ job'[j].pc = "" /\ job'[j].seen = None
    BY <2>2, FreeRequest
  <2>4. JobInv(job[j])'
    <3>1. Underway(job[j])'
      BY <1>2, <1>3, <1>4, <1>8, <2>1, <2>2, <2>3, FreeRequest DEF Underway, Archived, Stores, StoreInv
    <3>2. HomeWhile(job[j])'
      BY <1>2, <1>3, <1>4, <1>8, <2>1, <2>2, <2>3, FreeRequest DEF HomeWhile, Handing, Archived
    <3>3. Removes(job[j])'
      BY <1>2, <1>3, <1>4, <1>8, <2>1, <2>2, <2>3, FreeRequest
        DEF Removes, Covered, Archived, StoreInv, NothingLostAtFirst, NothingLost, Stores, Turns
    <3> QED BY <3>1, <3>2, <3>3 DEF JobInv
  <2>5. StoreInv'
    <3>1. RowHasFiles'
      <4>1. torn' <=> (torn \/ files' < row)
        BY <1>2, <1>8, Zenon DEF Stores
      <4> QED BY <1>2, <1>3, <1>4, <1>8, <2>1, <4>1 DEF StoreInv, RowHasFiles, Stores, Turns
    <3>2. (mem' => row' # None) /\ (arch'.has => archives' >= 1)
      BY <1>2, <1>3, <1>4, <1>8, <2>1 DEF StoreInv, Stores, Turns, Archived
    <3>3. NothingLostAtFirst'
      BY <1>2, <1>3, <1>4, <1>8, <2>1 DEF StoreInv, NothingLostAtFirst, NothingLost, Covered, Archived, Stores, Turns
    <3> QED BY <3>1, <3>2, <3>3 DEF StoreInv
  <2>6. job'[j] = Free => OneHome'
    BY <1>2, <1>3, <1>4, <1>8, <2>1, <2>2 DEF OneHome, Archived, Stores
  <2> QED BY <1>1, <2>2, <2>4, <2>5, <2>6, Rejoin
<1> QED BY <1>6, <1>7, <1>8 DEF MarkRestored, TakenBack, DeleteFiles

\* A crash leaves the stores as they are, with no request and no memory.
LEMMA CrashKeeps ==
  ASSUME LifecycleConstants, ~ Overlap, LifecycleInv, Crash
  PROVE  LifecycleInv'
<1> USE DEF None
<1>1. Stores /\ StoreInv /\ OneHome
  BY DEF LifecycleInv, Shaped, StoreInv
<1>2. /\ mem' = FALSE /\ UNCHANGED <<row, files, arch, kept, archives, torn>>
      /\ job' = [j \in Jobs |-> Free] /\ cut' = (cut \/ \E j \in Jobs : Handing(job[j]))
  BY DEF Crash
<1>3. \A j \in Jobs : job'[j] = Free
  BY <1>2
<1>4. Shaped'
  BY CrashTyped DEF LifecycleInv
<1>5. \A j \in Jobs : JobInv(job[j])'
  BY <1>3, FreeRequest DEF JobInv, Underway, HomeWhile, Removes
<1>6. OneAtATime'
  BY <1>3 DEF OneAtATime
<1>7. OneHome'
  <2>1. SUFFICES ASSUME ~ cut, \A j \in Jobs : ~ Handing(job[j])
                 PROVE  ~ (row # None /\ Archived)
    BY <1>2 DEF OneHome, Archived
  <2>2. CASE \A j \in Jobs : job[j] = Free
    BY <1>1, <2>1, <2>2 DEF OneHome, Archived
  <2>3. ASSUME NEW j \in Jobs, job[j] # Free
        PROVE  ~ (row # None /\ Archived)
    BY <2>1, <2>3 DEF LifecycleInv, JobInv, HomeWhile
  <2> QED BY <2>2, <2>3
<1>8. StoreInv'
  BY <1>1, <1>2 DEF StoreInv, RowHasFiles, NothingLostAtFirst, NothingLost
<1> QED BY <1>4, <1>5, <1>6, <1>7, <1>8 DEF LifecycleInv

\* A new session satisfies the invariant: a row and no turns.
LEMMA InitLifecycle ==
  ASSUME LifecycleConstants, Init
  PROVE  LifecycleInv
<1> USE DEF None
<1>1. /\ row = 0 /\ files = 0 /\ kept = 0 /\ archives = 0 /\ arch = NoEntry /\ mem = TRUE /\ torn = FALSE
      /\ \A j \in Jobs : job[j] = Free
  BY DEF Init
<1>2. ~ arch.has
  BY <1>1 DEF NoEntry
<1>3. \A j \in Jobs : JobInv(job[j])
  BY <1>1, FreeRequest DEF JobInv, Underway, HomeWhile, Removes
<1>4. OneAtATime /\ OneHome
  BY <1>1, <1>2 DEF OneAtATime, OneHome
<1>5. StoreInv
  BY <1>1, <1>2 DEF StoreInv, RowHasFiles, NothingLostAtFirst, NothingLost
<1> QED BY <1>3, <1>4, <1>5, InitTyped DEF LifecycleInv

\* Every step keeps the invariant when requests are served one at a time.
LEMMA NextKeepsLifecycle ==
  ASSUME LifecycleConstants, ~ Overlap, LifecycleInv, [Next]_vars
  PROVE  LifecycleInv'
<1>1. CASE UNCHANGED vars
  <2>1. UNCHANGED <<row, files, arch, mem, job, kept, deleted, alone, archives, cut, torn>>
    BY <1>1 DEF vars, history
  <2>2. Shaped' /\ OneAtATime'
    BY <2>1 DEF LifecycleInv, Shaped, Stores, OneAtATime
  <2>3. \A j \in Jobs : JobInv(job[j])'
    BY <2>1 DEF LifecycleInv, JobInv, Underway, HomeWhile, Handing, Removes, Archived, Covered
  <2>4. StoreInv' /\ OneHome'
    BY <2>1 DEF LifecycleInv, StoreInv, RowHasFiles, NothingLostAtFirst, NothingLost, OneHome
  <2> QED BY <2>2, <2>3, <2>4 DEF LifecycleInv
<1>2. CASE Next
  <2>1. CASE Crash
    BY <2>1, CrashKeeps
  <2>2. ASSUME NEW j \in Jobs, \E op \in {"prompt", "save"} : SessionByID(j, op)
        PROVE  LifecycleInv'
    BY <2>2, SessionByIDpromptKeeps, SessionByIDsaveKeeps
  <2>3. ASSUME NEW j \in Jobs, persistSession(j) \/ PromptRuns(j) \/ PromptLoads(j) \/ PromptEnds(j)
        PROVE  LifecycleInv'
    BY <2>3, persistSessionKeeps, PromptRunsKeeps, PromptLoadsKeeps, PromptEndsKeeps
  <2>4. ASSUME NEW j \in Jobs,
               \E op \in {"delete", "archive"} : deleteActive(j, op) \/ deleteRow(j, op) \/ DeleteSessionData(j, op)
        PROVE  LifecycleInv'
    BY <2>4, deleteActivedeleteKeeps, deleteActivearchiveKeeps, deleteRowdeleteKeeps, deleteRowarchiveKeeps,
       DeleteSessionDatadeleteKeeps, DeleteSessionDataarchiveKeeps
  <2>5. ASSUME NEW j \in Jobs, DeleteSession(j) \/ archiveSession(j) \/ AppendSession(j)
        PROVE  LifecycleInv'
    BY <2>5, DeleteSessionKeeps, archiveSessionKeeps, AppendSessionKeeps
  <2>6. ASSUME NEW j \in Jobs,
               RestoreArchivedSession(j) \/ WriteSessionTurnFiles(j) \/ SaveRestored(j) \/ MarkRestored(j)
        PROVE  LifecycleInv'
    BY <2>6, RestoreArchivedSessionKeeps, WriteSessionTurnFilesKeeps, SaveRestoredKeeps, MarkRestoredKeeps
  <2> QED BY <1>2, <2>1, <2>2, <2>3, <2>4, <2>5, <2>6 DEF Next
<1> QED BY <1>1, <1>2

\* The inductive invariant, for requests that are served one at a time.
THEOREM LifecycleInvariance ==
  ASSUME LifecycleConstants, ~ Overlap
  PROVE  Spec => []LifecycleInv
BY InitLifecycle, NextKeepsLifecycle, PTL DEF Spec

\* A session that is listed can be read: after every crash and every failing
\* step of a restore, an archive or a delete the files hold the turns of the
\* row, unless a restore was taken back by half.
THEOREM RowHasFilesAlways ==
  ASSUME LifecycleConstants, ~ Overlap
  PROVE  Spec => []RowHasFiles
<1>1. LifecycleInv => RowHasFiles
  BY DEF LifecycleInv, StoreInv
<1> QED BY <1>1, LifecycleInvariance, PTL

\* When nothing is being served a session is active or archived, never both,
\* unless a crash or a failing delete of the row has cut off an archive or a
\* restore and that row is still there.
THEOREM OneHomeAlways ==
  ASSUME LifecycleConstants, ~ Overlap
  PROVE  Spec => []OneHome
<1>1. LifecycleInv => OneHome
  BY DEF LifecycleInv
<1> QED BY <1>1, LifecycleInvariance, PTL

\* Turns that the user has not deleted stay in a listed session or in a listed
\* archive entry whatever fails and whenever the hub crashes, up to the second
\* archive request of the session (which may remove a row whose turns the entry
\* that is there already does not hold).
THEOREM NothingLostUntilArchivedAgain ==
  ASSUME LifecycleConstants, ~ Overlap
  PROVE  Spec => []NothingLostAtFirst
<1>1. LifecycleInv => NothingLostAtFirst
  BY DEF LifecycleInv, StoreInv
<1> QED BY <1>1, LifecycleInvariance, PTL

-----------------------------------------------------------------------------
(* Deletes, for requests that may overlap. *)

\* A delete that is alone has taken the session out of memory before it
\* deletes the row, and nothing that it has taken away comes back.
Deleting ==
  \A j \in Jobs : job[j].op = "delete" /\ alone =>
    /\ \A i \in Jobs \ {j} : job[i] = Free
    /\ job[j].pc \in {"row", "files"} => ~ mem
    /\ job[j].pc = "files" => row = None
\* After its answer there is nothing that a request could start from.
Gone == deleted /\ alone => row = None /\ ~ mem /\ \A j \in Jobs : job[j] = Free
DeleteInv == Shaped /\ Deleting /\ Gone

\* A request other than a delete that is under way shows that no delete is
\* alone and that none was answered alone; its steps keep that.
LEMMA OtherSteps ==
  ASSUME DeleteInv, NEW j \in Jobs, job[j] # Free, job[j].op # "delete", job'[j].op # "delete",
         \A i \in Jobs \ {j} : job'[i] = job[i], alone' = alone, deleted' => deleted
  PROVE  Deleting' /\ Gone'
<1>1. ASSUME NEW k \in Jobs, job'[k].op = "delete", alone'
      PROVE  FALSE
  <2>1. k # j /\ job[k].op = "delete" /\ alone
    BY <1>1
  <2> QED BY <2>1 DEF DeleteInv, Deleting
<1>2. ~ (deleted' /\ alone')
  BY DEF DeleteInv, Gone
<1> QED BY <1>1, <1>2 DEF Deleting, Gone

\* The updates of a request: its name after the step, and the others.
LEMMA StepOf ==
  ASSUME job \in [Jobs -> Request], NEW j \in Jobs, NEW pc, NEW seen, NEW op,
         To(j, pc) \/ Finish(j) \/ Go(j, op, pc, seen)
  PROVE  /\ \A i \in Jobs \ {j} : job'[i] = job[i]
         /\ To(j, pc) => job'[j].op = job[j].op /\ job'[j].pc = pc
         /\ Finish(j) => job'[j] = Free /\ job'[j].op = "none"
         /\ Go(j, op, pc, seen) => job'[j].op = op /\ job'[j].pc = pc
<1>1. job[j] \in [op : Names, pc : Places, seen : {None} \union Turns]
  BY DEF Request
<1>2. To(j, pc) => job'[j] = [job[j] EXCEPT !.pc = pc]
  BY DEF To
<1>3. To(j, pc) => job'[j].op = job[j].op /\ job'[j].pc = pc
  BY <1>1, <1>2
<1>4. Finish(j) => job'[j] = Free
  BY DEF Finish
<1>5. Go(j, op, pc, seen) => job'[j] = [op |-> op, pc |-> pc, seen |-> seen]
  BY DEF Go
<1>6. \A i \in Jobs \ {j} : job'[i] = job[i]
  BY DEF To, Finish, Go
<1>7. Go(j, op, pc, seen) => job'[j].op = op /\ job'[j].pc = pc
  BY <1>5
<1>8. Finish(j) => job'[j].op = "none"
  BY <1>4, FreeRequest
<1> QED BY <1>3, <1>4, <1>6, <1>7, <1>8

\* A request that is looked up, archived or restored starts.
LEMMA StartsKeepDeletes ==
  ASSUME DeleteInv, NEW j \in Jobs,
         (\E op \in {"prompt", "save"} : SessionByID(j, op)) \/ archiveSession(j) \/ RestoreArchivedSession(j)
  PROVE  Deleting' /\ Gone'
<1>1. job \in [Jobs -> Request] /\ (alone' => alone /\ \A i \in Jobs : job[i].op # "delete")
  <2>1. Beside
    BY DEF SessionByID, archiveSession, RestoreArchivedSession
  <2> QED BY <2>1, Zenon DEF DeleteInv, Shaped, Beside
<1>2. \E op \in {"prompt", "save", "archive", "restore"}, pc \in Places, seen \in {row, arch.turns, None} : Go(j, op, pc, seen)
  BY DEF SessionByID, archiveSession, RestoreArchivedSession, Places
<1>3. job'[j].op # "delete" /\ \A i \in Jobs \ {j} : job'[i] = job[i]
  BY <1>1, <1>2, StepOf
<1>4. Deleting'
  <2> SUFFICES ASSUME NEW k \in Jobs, job'[k].op = "delete", alone' PROVE FALSE
    BY DEF Deleting
  <2> QED BY <1>1, <1>3
<1>5. ~ (deleted' /\ alone')
  <2>1. SUFFICES ASSUME deleted', alone' PROVE FALSE
    OBVIOUS
  <2>2. deleted /\ (mem \/ row # None)
    BY <2>1 DEF SessionByID, archiveSession, RestoreArchivedSession
  <2> QED BY <1>1, <2>1, <2>2 DEF DeleteInv, Gone
<1> QED BY <1>4, <1>5 DEF Gone

\* The steps of prompts, saves, archives and restores under way.
LEMMA OthersKeepDeletes ==
  ASSUME DeleteInv, NEW j \in Jobs,
         \/ persistSession(j) \/ PromptRuns(j) \/ PromptLoads(j) \/ PromptEnds(j) \/ AppendSession(j)
         \/ deleteActive(j, "archive") \/ deleteRow(j, "archive") \/ DeleteSessionData(j, "archive")
         \/ WriteSessionTurnFiles(j) \/ SaveRestored(j) \/ MarkRestored(j)
  PROVE  Deleting' /\ Gone'
<1>1. job \in [Jobs -> Request]
  BY DEF DeleteInv, Shaped
<1>2. job[j].op \in {"prompt", "save", "archive", "restore"} /\ job[j] # Free /\ job[j].op # "delete"
  BY FreeRequest
    DEF At, persistSession, PromptRuns, PromptLoads, PromptEnds, AppendSession, deleteActive, deleteRow,
        DeleteSessionData, WriteSessionTurnFiles, SaveRestored, MarkRestored
<1>3. alone' = alone /\ (deleted' => deleted)
  <2>1. CASE DeleteSessionData(j, "archive")
    <3>1. alone' = alone
      BY <2>1 DEF DeleteSessionData, history
    <3>2. ~ deleted' \/ deleted' = deleted
      BY <2>1, Zenon DEF DeleteSessionData
    <3> QED BY <3>1, <3>2
  <2>2. ASSUME ~ DeleteSessionData(j, "archive")
        PROVE  alone' = alone /\ deleted' = deleted
    BY <2>2
      DEF persistSession, PromptRuns, PromptLoads, PromptEnds, AppendSession, deleteActive, deleteRow,
          WriteSessionTurnFiles, SaveRestored, MarkRestored, history
  <2> QED BY <2>1, <2>2
<1>4. (\E pc \in Places : To(j, pc)) \/ Finish(j) \/ Go(j, "prompt", "persist", row)
  BY DEF persistSession, PromptRuns, PromptLoads, PromptEnds, AppendSession, deleteActive, deleteRow,
         DeleteSessionData, WriteSessionTurnFiles, SaveRestored, MarkRestored, Places
<1>5. job'[j].op # "delete" /\ \A i \in Jobs \ {j} : job'[i] = job[i]
  <2>1. ASSUME NEW pc \in Places, To(j, pc)
        PROVE  job'[j].op = job[j].op /\ \A i \in Jobs \ {j} : job'[i] = job[i]
    BY <1>1, <2>1, StepOf
  <2>2. CASE Finish(j)
    BY <1>1, <2>2, StepOf
  <2>3. CASE Go(j, "prompt", "persist", row)
    BY <1>1, <2>3, StepOf
  <2> QED BY <1>2, <1>4, <2>1, <2>2, <2>3
<1> QED BY <1>2, <1>3, <1>5, OtherSteps

\* A delete starts, alone or not, and goes through memory, row and files.
LEMMA DeletesKeepDeletes ==
  ASSUME DeleteInv, NEW j \in Jobs,
         DeleteSession(j) \/ deleteActive(j, "delete") \/ deleteRow(j, "delete") \/ DeleteSessionData(j, "delete")
  PROVE  Deleting' /\ Gone'
<1>1. job \in [Jobs -> Request] /\ "drop" \in Places
  BY DEF DeleteInv, Shaped, Places
<1>2. CASE DeleteSession(j)
  <2>1. Go(j, "delete", "drop", None) /\ ~ deleted' /\ (alone' => \A i \in Jobs : job[i] = Free)
    BY <1>2 DEF DeleteSession
  <2>2. job'[j].pc = "drop" /\ \A i \in Jobs \ {j} : job'[i] = job[i]
    BY <1>1, <2>1, StepOf
  <2>3. ASSUME alone', NEW k \in Jobs, job'[k].op = "delete"
        PROVE  k = j /\ job'[k].pc = "drop" /\ \A i \in Jobs \ {j} : job'[i] = Free
    BY <2>1, <2>2, <2>3, FreeRequest
  <2> QED BY <2>1, <2>3 DEF Deleting, Gone
<1>3. CASE deleteActive(j, "delete") \/ deleteRow(j, "delete") \/ DeleteSessionData(j, "delete")
  <2>1. job[j].op = "delete" /\ job[j] # Free /\ alone' = alone
    BY <1>3, FreeRequest DEF deleteActive, deleteRow, DeleteSessionData, At, history
  <2>2. \A i \in Jobs \ {j} : alone => job[i] = Free
    BY <2>1 DEF DeleteInv, Deleting
  <2>3. (\E pc \in Places : To(j, pc)) \/ Finish(j)
    BY <1>3 DEF deleteActive, deleteRow, DeleteSessionData, Places
  <2>4. \A i \in Jobs \ {j} : job'[i] = job[i]
    BY <1>1, <2>3, StepOf
  <2>5. ~ (deleted /\ alone)
    BY <2>1 DEF DeleteInv, Gone
  <2>6. CASE deleteActive(j, "delete")
    <3>1. job'[j].pc = "row" /\ mem' = FALSE /\ deleted' = deleted
      BY <1>1, <2>6, StepOf DEF deleteActive
    <3>2. Deleting'
      BY <2>1, <2>2, <2>4, <3>1, FreeRequest DEF Deleting
    <3> QED BY <2>1, <2>5, <3>1, <3>2 DEF Gone
  <2>7. CASE deleteRow(j, "delete")
    <3>1. mem' = mem /\ deleted' = deleted /\ ((To(j, "files") /\ row' = None) \/ Finish(j)) /\ job[j].pc = "row"
      BY <2>7 DEF deleteRow, At
    <3>2. (job'[j].pc = "files" /\ row' = None) \/ job'[j] = Free
      BY <1>1, <3>1, StepOf
    <3>3. alone => ~ mem'
      BY <2>1, <3>1 DEF DeleteInv, Deleting
    <3>4. Deleting'
      BY <2>1, <2>2, <2>4, <3>2, <3>3, FreeRequest DEF Deleting
    <3> QED BY <2>1, <2>5, <3>1, <3>4 DEF Gone
  <2>8. CASE DeleteSessionData(j, "delete")
    <3>1. mem' = mem /\ row' = row /\ Finish(j) /\ job[j].pc = "files"
      BY <2>8 DEF DeleteSessionData, At
    <3>2. job'[j] = Free
      BY <1>1, <3>1, StepOf
    <3>3. alone => ~ mem' /\ row' = None
      BY <2>1, <3>1 DEF DeleteInv, Deleting
    <3>4. alone' => \A i \in Jobs : job'[i] = Free
      BY <2>1, <2>2, <2>4, <3>2
    <3> QED BY <2>1, <3>3, <3>4, FreeRequest DEF Deleting, Gone
  <2> QED BY <1>3, <2>6, <2>7, <2>8
<1> QED BY <1>2, <1>3

\* Every step keeps what is deleted, whether requests overlap or not.
LEMMA NextKeepsDeletes ==
  ASSUME LifecycleConstants, DeleteInv, [Next]_vars
  PROVE  DeleteInv'
<1>1. Shaped'
  BY NextTyped DEF DeleteInv
<1>2. CASE UNCHANGED vars
  BY <1>1, <1>2 DEF vars, history, DeleteInv, Deleting, Gone
<1>3. CASE Crash
  <2>1. mem' = FALSE /\ UNCHANGED <<row, deleted, alone>> /\ job' = [j \in Jobs |-> Free]
    BY <1>3 DEF Crash
  <2>2. \A j \in Jobs : job'[j] = Free /\ job'[j].op # "delete"
    BY <2>1, FreeRequest
  <2> QED BY <1>1, <2>1, <2>2 DEF DeleteInv, Deleting, Gone
<1>4. ASSUME NEW j \in Jobs,
             (\E op \in {"prompt", "save"} : SessionByID(j, op)) \/ archiveSession(j) \/ RestoreArchivedSession(j)
      PROVE  DeleteInv'
  BY <1>1, <1>4, StartsKeepDeletes DEF DeleteInv
<1>5. ASSUME NEW j \in Jobs,
             \/ persistSession(j) \/ PromptRuns(j) \/ PromptLoads(j) \/ PromptEnds(j) \/ AppendSession(j)
             \/ deleteActive(j, "archive") \/ deleteRow(j, "archive") \/ DeleteSessionData(j, "archive")
             \/ WriteSessionTurnFiles(j) \/ SaveRestored(j) \/ MarkRestored(j)
      PROVE  DeleteInv'
  BY <1>1, <1>5, OthersKeepDeletes DEF DeleteInv
<1>6. ASSUME NEW j \in Jobs,
             DeleteSession(j) \/ deleteActive(j, "delete") \/ deleteRow(j, "delete") \/ DeleteSessionData(j, "delete")
      PROVE  DeleteInv'
  BY <1>1, <1>6, DeletesKeepDeletes DEF DeleteInv
<1> QED BY <1>2, <1>3, <1>4, <1>5, <1>6 DEF Next

\* An answered delete that no other request was served beside stays done: no
\* prompt, save, archive or crash after it brings the row back, however many
\* requests are served at a time before and after it, until a restore.
THEOREM DeletedStaysDeletedAlways ==
  ASSUME LifecycleConstants
  PROVE  Spec => []DeletedStaysDeleted
<1>1. Init => DeleteInv
  <2> SUFFICES ASSUME Init PROVE Deleting /\ Gone
    BY InitTyped DEF DeleteInv
  <2>1. deleted = FALSE /\ \A j \in Jobs : job[j].op # "delete"
    BY FreeRequest DEF Init
  <2> QED BY <2>1 DEF Deleting, Gone
<1>2. DeleteInv /\ [Next]_vars => DeleteInv'
  BY NextKeepsDeletes
<1>3. DeleteInv => DeletedStaysDeleted
  BY DEF DeleteInv, Gone, DeletedStaysDeleted
<1> QED BY <1>1, <1>2, <1>3, PTL DEF Spec
=============================================================================
