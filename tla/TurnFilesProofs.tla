-------------------------- MODULE TurnFilesProofs --------------------------
(***************************************************************************)
(* What TurnFiles guarantees for every value of its constants: no crash or *)
(* failed operation makes a turn unreadable, a batch that is accepted is   *)
(* never refused half way, and the files implement the log of TurnLog.     *)
(***************************************************************************)
EXTENDS TurnFiles, WellFoundedInduction, SequenceTheorems, TLAPS

-----------------------------------------------------------------------------
(* The inductive invariant *)

\* The bytes slot s of a file points to.
BytesOf(f, s) == SubSeq(f.body, f.slots[s].off + 1, f.slots[s].off + f.slots[s].len)

\* A file without a valid header holds nothing; every used slot ends at or before
\* the end of the last one, which is inside the body, and holds a content.
FileOK(f) ==
    /\ f.head # "ok" => f.slots = <<>> /\ f.body = <<>>
    /\ Len(f.slots) <= SlotsPerFile
    /\ EndOf(f) <= Len(f.body)
    /\ \A s \in 1..Len(f.slots) : f.slots[s].off + f.slots[s].len <= EndOf(f)
    /\ \A s \in 1..Len(f.slots) : BytesOf(f, s) \in Contents

\* d, the synced state of the file f, has every byte a slot of f points to, even
\* of a slot that is not synced itself.
BackedBy(d, f) ==
    /\ f.head = "absent" => d.head = "absent"
    /\ d.head = "ok" => f.head = "ok"
    /\ d.head # "ok" => f.slots = <<>>
    /\ Len(d.slots) <= Len(f.slots)
    /\ \A s \in 1..Len(d.slots) : d.slots[s] = f.slots[s]
    /\ EndOf(f) <= Len(d.body)
    /\ \A i \in 1..EndOf(f) : d.body[i] = f.body[i]

\* A file that was created and never synced: a power loss may spoil its header.
Young(k) == file[k].head # "absent" /\ disk[k].head # "ok"

FilesOK ==
    /\ \A k \in FileNos : FileOK(file[k]) /\ FileOK(disk[k]) /\ BackedBy(disk[k], file[k])
    /\ \A k, j \in FileNos : Young(k) /\ k <= j => file[j].slots = <<>>

BeforeSlot == {"open", "header", "body", "syncBody", "slot"}

\* The body the header knows of is followed by the content being written.
BodyWritten(f) ==
    /\ Len(f.body) = EndOf(f) + Len(Head(todo))
    /\ \A i \in 1..Len(Head(todo)) : f.body[EndOf(f) + i] = Head(todo)[i]

\* Where the call in progress stands.
CallOK ==
    /\ pc \in {"idle", "delete"} => cur = 0 /\ todo = <<>>
    /\ pc \notin {"idle", "delete"} =>
          /\ cur \in 1..MaxTurn
          /\ \A j \in FileNos : j > FileOf(cur) => file[j].slots = <<>>
          /\ \A k \in FileNos : Young(k) => k >= FileOf(cur)
    /\ pc \in BeforeSlot =>
          /\ todo # <<>> /\ cur + Len(todo) <= MaxTurn + 1
          /\ SlotOf(cur) = Len(file[FileOf(cur)].slots) + 1
          /\ Latest(file) = cur - 1
    /\ pc = "header" => file[FileOf(cur)].head # "absent"
    /\ pc \in {"body", "syncBody", "slot", "syncSlot"} => file[FileOf(cur)].head = "ok"
    /\ pc \in {"syncBody", "slot"} => BodyWritten(file[FileOf(cur)])
    /\ pc = "slot" => disk[FileOf(cur)] = file[FileOf(cur)]
    /\ pc = "syncSlot" =>
          /\ cur + Len(todo) <= MaxTurn
          /\ SlotOf(cur) = Len(file[FileOf(cur)].slots)
          /\ Latest(file) = cur

FilesInv == TypeOK /\ FilesOK /\ CallOK

-----------------------------------------------------------------------------
(* Positions *)

\* Multiples of SlotsPerFile are ordered as their factors are.
LEMMA Multiples ==
    ASSUME NEW k \in Nat, NEW j \in Nat, k < j
    PROVE  /\ k * SlotsPerFile \in Nat /\ j * SlotsPerFile \in Nat
           /\ (k + 1) * SlotsPerFile = k * SlotsPerFile + SlotsPerFile
           /\ k * SlotsPerFile + SlotsPerFile <= j * SlotsPerFile
<1>1. SlotsPerFile \in Nat \ {0}
  BY FilesAssumption
<1>2. \A m, n, p \in Nat : p * (m + n) = p * m + p * n /\ p * m \in Nat
  BY SMT
<1>3. j = (k + 1) + (j - (k + 1)) /\ j - (k + 1) \in Nat
  OBVIOUS
<1>4. SlotsPerFile * j = SlotsPerFile * (k + 1) + SlotsPerFile * (j - (k + 1))
  BY <1>1, <1>2, <1>3
<1>5. SlotsPerFile * (k + 1) = SlotsPerFile * k + SlotsPerFile * 1
  BY <1>1, <1>2
<1>6. \A m, n \in Nat : m * n = n * m /\ m * n \in Nat
  BY SMT
<1> QED BY <1>1, <1>3, <1>4, <1>5, <1>6

\* A turn is in slot SlotOf(i) of file FileOf(i), and turnPath is one to one.
LEMMA Position ==
    ASSUME NEW i \in Nat \ {0}
    PROVE  /\ FileOf(i) \in Nat /\ SlotOf(i) \in 1..SlotsPerFile
           /\ i = FileOf(i) * SlotsPerFile + SlotOf(i)
BY FilesAssumption, SMT DEF FileOf, SlotOf

LEMMA PositionUnique ==
    ASSUME NEW i \in Nat \ {0}, NEW k \in Nat, NEW s \in 1..SlotsPerFile,
           i = k * SlotsPerFile + s
    PROVE  FileOf(i) = k /\ SlotOf(i) = s
<1>1. /\ FileOf(i) \in Nat /\ SlotOf(i) \in 1..SlotsPerFile
      /\ i = FileOf(i) * SlotsPerFile + SlotOf(i)
  BY Position
<1>2. SlotsPerFile \in Nat \ {0}
  BY FilesAssumption
<1> DEFINE a == FileOf(i)
           t == SlotOf(i)
<1> HIDE DEF a, t
<1>3. /\ a \in Nat /\ t \in 1..SlotsPerFile /\ i = a * SlotsPerFile + t
  BY <1>1 DEF a, t
<1>4. ~ (a < k)
  BY <1>2, <1>3, Multiples
<1>5. ~ (k < a)
  BY <1>2, <1>3, Multiples
<1>6. a = k
  BY <1>3, <1>4, <1>5
<1>7. a * SlotsPerFile \in Nat
  BY <1>2, <1>3, SMT
<1> QED BY <1>2, <1>3, <1>6, <1>7 DEF a, t

\* The files of the turns of the session are numbered by FileNos.
LEMMA FileNumber ==
    ASSUME NEW i \in 1..MaxTurn
    PROVE  FileOf(i) \in FileNos
<1>1. i \in Nat \ {0} /\ SlotsPerFile \in Nat \ {0} /\ MaxTurn \in Nat
  BY FilesAssumption
<1>2. FileOf(i) \in Nat /\ i = FileOf(i) * SlotsPerFile + SlotOf(i) /\ SlotOf(i) \in 1..SlotsPerFile
  BY <1>1, Position
<1>3. MaxTurn + 1 \in Nat \ {0} /\ MaxTurn \div SlotsPerFile = FileOf(MaxTurn + 1)
  BY <1>1 DEF FileOf
<1>4. /\ FileOf(MaxTurn + 1) \in Nat /\ SlotOf(MaxTurn + 1) \in 1..SlotsPerFile
      /\ MaxTurn + 1 = FileOf(MaxTurn + 1) * SlotsPerFile + SlotOf(MaxTurn + 1)
  BY <1>3, Position
<1>5. ~ (FileOf(MaxTurn + 1) < FileOf(i))
  BY <1>1, <1>2, <1>4, Multiples
<1> QED BY <1>2, <1>3, <1>4, <1>5 DEF FileNos

\* The turn after one is in the next slot, or in the first slot of the next file.
LEMMA NextPosition ==
    ASSUME NEW i \in Nat \ {0}
    PROVE  \/ FileOf(i + 1) = FileOf(i) /\ SlotOf(i + 1) = SlotOf(i) + 1
           \/ /\ FileOf(i + 1) = FileOf(i) + 1 /\ SlotOf(i + 1) = 1
              /\ SlotOf(i) = SlotsPerFile
<1>1. /\ FileOf(i) \in Nat /\ SlotOf(i) \in 1..SlotsPerFile
      /\ i = FileOf(i) * SlotsPerFile + SlotOf(i)
  BY Position
<1>2. SlotsPerFile \in Nat \ {0} /\ FileOf(i) * SlotsPerFile \in Nat
  BY <1>1, FilesAssumption, SMT
<1>3. CASE SlotOf(i) < SlotsPerFile
  <2>1. i + 1 = FileOf(i) * SlotsPerFile + (SlotOf(i) + 1) /\ SlotOf(i) + 1 \in 1..SlotsPerFile
    BY <1>1, <1>2, <1>3
  <2> QED BY <1>1, <2>1, PositionUnique
<1>4. CASE SlotOf(i) = SlotsPerFile
  <2>1. (FileOf(i) + 1) * SlotsPerFile = FileOf(i) * SlotsPerFile + SlotsPerFile
    BY <1>1, Multiples
  <2>2. i + 1 = (FileOf(i) + 1) * SlotsPerFile + 1 /\ 1 \in 1..SlotsPerFile /\ FileOf(i) + 1 \in Nat
    BY <1>1, <1>2, <1>4, <2>1
  <2> QED BY <1>1, <1>4, <2>2, PositionUnique
<1> QED BY <1>1, <1>2, <1>3, <1>4

-----------------------------------------------------------------------------
(* The last turn *)

\* A bounded, nonempty set of natural numbers has a greatest element.
LEMMA Greatest ==
    ASSUME NEW n \in Nat, NEW S \in SUBSET (0..n), S # {}
    PROVE  \E m \in S : \A j \in S : j <= m
<1> DEFINE Lt == {p \in Nat \X Nat : p[1] < p[2]}
           R == {n - i : i \in S}
<1>1. IsWellFoundedOn(Lt, Nat)
  BY NatLessThanWellFounded, Zenon DEF OpToRel
<1>2. R \subseteq Nat /\ R # {}
  <2>1. \A i \in S : n - i \in Nat
    OBVIOUS
  <2> QED BY <2>1
<1>3. PICK r \in R : \A q \in R : ~ (<<q, r>> \in Lt)
  <2> HIDE DEF Lt, R
  <2> QED BY <1>1, <1>2, WFMin, Zenon
<1>4. PICK m \in S : r = n - m
  BY <1>3
<1>5. \A j \in S : j <= m
  <2> SUFFICES ASSUME NEW j \in S PROVE j <= m
    OBVIOUS
  <2>1. n - j \in R /\ n - j \in Nat /\ n - m \in Nat /\ j \in Nat /\ m \in Nat
    OBVIOUS
  <2> HIDE DEF R
  <2>2. ~ (n - j < n - m)
    <3>1. <<n - j, n - m>> \in Nat \X Nat /\ <<n - j, n - m>>[1] = n - j /\ <<n - j, n - m>>[2] = n - m
      BY <2>1
    <3>2. ~ (<<n - j, n - m>> \in Lt)
      BY <1>3, <1>4, <2>1
    <3> QED BY <3>1, <3>2
  <2> QED BY <2>1, <2>2
<1> QED BY <1>5

LEMMA FileNosFacts ==
    /\ FileNos \subseteq Nat /\ 0 \in FileNos
    /\ \A k \in FileNos : \A j \in Nat : j <= k => j \in FileNos
    /\ \E top \in Nat : \A k \in FileNos : k <= top
<1>1. MaxTurn + 1 \in Nat \ {0} /\ MaxTurn \div SlotsPerFile = FileOf(MaxTurn + 1)
  BY FilesAssumption DEF FileOf
<1>2. MaxTurn \div SlotsPerFile \in Nat
  BY <1>1, Position
<1> DEFINE top == MaxTurn \div SlotsPerFile
<1>3. FileNos = 0..top
  BY DEF FileNos
<1>4. top \in Nat
  BY <1>2
<1> HIDE DEF top
<1>5. FileNos \subseteq Nat /\ 0 \in FileNos /\ \A k \in FileNos : k <= top
  BY <1>3, <1>4
<1>6. \A k \in FileNos : \A j \in Nat : j <= k => j \in FileNos
  BY <1>3, <1>4
<1> QED BY <1>4, <1>5, <1>6

\* Files with at most SlotsPerFile used slots each.
Fits(fs) == \A k \in FileNos : Len(fs[k].slots) <= SlotsPerFile

LEMMA LatestInFacts ==
    ASSUME NEW fs \in [FileNos -> TurnFile], Fits(fs), NEW k \in FileNos
    PROVE  /\ fs[k] \in TurnFile /\ fs[k].slots \in Seq(Slot) /\ Len(fs[k].slots) \in 0..SlotsPerFile
           /\ (fs[k].slots = <<>>) <=> (Len(fs[k].slots) = 0)
           /\ k \in Nat /\ k * SlotsPerFile \in Nat
           /\ fs[k].slots = <<>> => LatestIn(k, fs[k]) = 0
           /\ fs[k].slots # <<>> => LatestIn(k, fs[k]) = k * SlotsPerFile + Len(fs[k].slots)
           /\ LatestIn(k, fs[k]) \in 0..(k * SlotsPerFile + SlotsPerFile)
<1>1. SlotsPerFile \in Nat \ {0} /\ k \in Nat
  BY FilesAssumption, FileNosFacts
<1>2. fs[k] \in TurnFile /\ fs[k].slots \in Seq(Slot) /\ Len(fs[k].slots) \in 0..SlotsPerFile
  BY <1>1 DEF TurnFile, Fits
<1>3. k * SlotsPerFile \in Nat
  BY <1>1, SMT
<1>4. (fs[k].slots = <<>>) <=> (Len(fs[k].slots) = 0)
  BY <1>2
<1>5. CASE fs[k].slots = <<>>
  <2>1. LatestIn(k, fs[k]) = 0
    BY <1>5 DEF LatestIn
  <2> QED BY <1>1, <1>2, <1>3, <1>4, <1>5, <2>1
<1>6. CASE fs[k].slots # <<>>
  <2>1. LatestIn(k, fs[k]) = k * SlotsPerFile + Len(fs[k].slots)
    BY <1>6 DEF LatestIn
  <2>2. \A m \in Nat : \A n \in 0..SlotsPerFile : m + n \in 0..(m + SlotsPerFile)
    BY <1>1
  <2>3. LatestIn(k, fs[k]) \in 0..(k * SlotsPerFile + SlotsPerFile)
    BY <1>2, <1>3, <2>1, <2>2, Zenon
  <2> QED BY <1>1, <1>2, <1>3, <1>4, <1>6, <2>1, <2>3, Zenon
<1> QED BY <1>5, <1>6

\* Latest is the greatest of the last turns of the files.
LEMMA LatestFacts ==
    ASSUME NEW fs \in [FileNos -> TurnFile], Fits(fs)
    PROVE  /\ Latest(fs) \in Nat
           /\ \E k \in FileNos : Latest(fs) = LatestIn(k, fs[k])
           /\ \A k \in FileNos : LatestIn(k, fs[k]) <= Latest(fs)
<1> DEFINE ends == {LatestIn(k, fs[k]) : k \in FileNos}
<1>1. PICK top \in Nat : \A k \in FileNos : k <= top
  BY FileNosFacts
<1>2. SlotsPerFile \in Nat \ {0} /\ 0 \in FileNos /\ top * SlotsPerFile \in Nat
  BY FilesAssumption, FileNosFacts, SMT
<1>3. \A k \in FileNos : LatestIn(k, fs[k]) \in 0..(top * SlotsPerFile + SlotsPerFile)
  <2> SUFFICES ASSUME NEW k \in FileNos
               PROVE  LatestIn(k, fs[k]) \in 0..(top * SlotsPerFile + SlotsPerFile)
    OBVIOUS
  <2>1. k \in Nat /\ k <= top /\ k * SlotsPerFile \in Nat
        /\ LatestIn(k, fs[k]) \in 0..(k * SlotsPerFile + SlotsPerFile)
    BY <1>1, LatestInFacts
  <2>2. k * SlotsPerFile <= top * SlotsPerFile
    <3>1. CASE k = top
      BY <1>2, <3>1
    <3>2. CASE k < top
      BY <1>2, <2>1, <3>2, Multiples
    <3> QED BY <2>1, <3>1, <3>2
  <2> QED BY <1>2, <2>1, <2>2
<1> DEFINE bound == top * SlotsPerFile + SlotsPerFile
<1>4. ends \in SUBSET (0..bound) /\ ends # {} /\ bound \in Nat
  BY <1>2, <1>3
<1> HIDE DEF bound
<1>5. \E m \in ends : \A j \in ends : j <= m
  <2> HIDE DEF ends
  <2> QED BY <1>4, Greatest, Zenon
<1>6. Latest(fs) \in ends /\ \A j \in ends : j <= Latest(fs)
  BY <1>5 DEF Latest
<1>7. Latest(fs) \in Nat
  <2>1. \A x \in 0..bound : x \in Nat
    BY <1>4
  <2> HIDE DEF ends
  <2> QED BY <1>4, <1>6, <2>1, Zenon
<1> QED BY <1>6, <1>7

\* A number that is the last turn of some file, and of none exceeded, is Latest.
LEMMA LatestIs ==
    ASSUME NEW fs \in [FileNos -> TurnFile], Fits(fs), NEW n \in Nat,
           \E k \in FileNos : LatestIn(k, fs[k]) = n,
           \A k \in FileNos : LatestIn(k, fs[k]) <= n
    PROVE  Latest(fs) = n
<1>1. /\ Latest(fs) \in Nat
      /\ \E k \in FileNos : Latest(fs) = LatestIn(k, fs[k])
      /\ \A k \in FileNos : LatestIn(k, fs[k]) <= Latest(fs)
  BY LatestFacts
<1>2. n <= Latest(fs)
  BY <1>1
<1>3. Latest(fs) <= n
  BY <1>1
<1> QED BY <1>1, <1>2, <1>3

\* Only the number of used slots counts.
LEMMA LatestSame ==
    ASSUME NEW fs \in [FileNos -> TurnFile], NEW gs \in [FileNos -> TurnFile],
           \A k \in FileNos : fs[k].slots = gs[k].slots
    PROVE  Latest(fs) = Latest(gs)
<1>1. \A k \in FileNos : LatestIn(k, fs[k]) = LatestIn(k, gs[k])
  BY DEF LatestIn
<1>2. {LatestIn(k, fs[k]) : k \in FileNos} = {LatestIn(k, gs[k]) : k \in FileNos}
  BY <1>1
<1> QED BY <1>2, Zenon DEF Latest

\* A turn whose slot is used is at or before the last one; after a turn with a
\* used slot of a later file, too.
LEMMA UsedIsOld ==
    ASSUME NEW fs \in [FileNos -> TurnFile], Fits(fs),
           NEW i \in Nat \ {0}, FileOf(i) \in FileNos, SlotOf(i) <= Len(fs[FileOf(i)].slots)
    PROVE  i <= Latest(fs)
<1>1. /\ FileOf(i) \in Nat /\ SlotOf(i) \in 1..SlotsPerFile
      /\ i = FileOf(i) * SlotsPerFile + SlotOf(i)
  BY Position
<1>2. /\ Len(fs[FileOf(i)].slots) \in 0..SlotsPerFile
      /\ (fs[FileOf(i)].slots = <<>>) <=> (Len(fs[FileOf(i)].slots) = 0)
      /\ FileOf(i) * SlotsPerFile \in Nat
      /\ fs[FileOf(i)].slots # <<>> =>
            LatestIn(FileOf(i), fs[FileOf(i)]) = FileOf(i) * SlotsPerFile + Len(fs[FileOf(i)].slots)
  BY LatestInFacts
<1>3. Latest(fs) \in Nat /\ LatestIn(FileOf(i), fs[FileOf(i)]) <= Latest(fs)
  BY LatestFacts
<1> QED BY <1>1, <1>2, <1>3

\* The last turn is at most the last position.
LEMMA LatestBound ==
    ASSUME NEW fs \in [FileNos -> TurnFile], Fits(fs), NEW k \in FileNos,
           \A j \in FileNos : k <= j => fs[j].slots = <<>>
    PROVE  Latest(fs) <= k * SlotsPerFile
<1>1. /\ Latest(fs) \in Nat
      /\ \E j \in FileNos : Latest(fs) = LatestIn(j, fs[j])
  BY LatestFacts
<1>2. PICK j \in FileNos : Latest(fs) = LatestIn(j, fs[j])
  BY <1>1
<1>3. /\ j \in Nat /\ k \in Nat /\ SlotsPerFile \in Nat \ {0} /\ k * SlotsPerFile \in Nat
      /\ fs[j].slots = <<>> => LatestIn(j, fs[j]) = 0
      /\ LatestIn(j, fs[j]) \in 0..(j * SlotsPerFile + SlotsPerFile)
  BY LatestInFacts, FilesAssumption
<1>4. CASE k <= j
  BY <1>2, <1>3, <1>4
<1>5. CASE j < k
  BY <1>2, <1>3, <1>5, Multiples
<1> QED BY <1>3, <1>4, <1>5

-----------------------------------------------------------------------------
(* One file *)

LEMMA FileFields ==
    ASSUME NEW f \in TurnFile
    PROVE  /\ f.head \in Heads /\ f.slots \in Seq(Slot) /\ f.body \in Seq(Cells)
           /\ Len(f.slots) \in Nat /\ Len(f.body) \in Nat
           /\ \A s \in 1..Len(f.slots) :
                 f.slots[s] \in Slot /\ f.slots[s].off \in Nat /\ f.slots[s].len \in Nat \ {0}
           /\ \A i \in 1..Len(f.body) : f.body[i] \in Cells
           /\ EndOf(f) \in Nat
           /\ (f.slots = <<>>) <=> (Len(f.slots) = 0)
           /\ f.slots = <<>> => EndOf(f) = 0
           /\ f.slots # <<>> =>
                 /\ Len(f.slots) \in 1..Len(f.slots)
                 /\ EndOf(f) = f.slots[Len(f.slots)].off + f.slots[Len(f.slots)].len
<1>1. f.head \in Heads /\ f.slots \in Seq(Slot) /\ f.body \in Seq(Cells)
  BY DEF TurnFile
<1>2. Len(f.slots) \in Nat /\ Len(f.body) \in Nat
  BY <1>1
<1>3. \A s \in 1..Len(f.slots) :
          f.slots[s] \in Slot /\ f.slots[s].off \in Nat /\ f.slots[s].len \in Nat \ {0}
  <2>1. \A s \in 1..Len(f.slots) : f.slots[s] \in Slot
    BY <1>1
  <2>2. \A x \in Slot : x.off \in Nat /\ x.len \in Nat \ {0}
    BY DEF Slot
  <2> QED BY <2>1, <2>2
<1>4. \A i \in 1..Len(f.body) : f.body[i] \in Cells
  BY <1>1
<1>5. (f.slots = <<>>) <=> (Len(f.slots) = 0)
  BY <1>1
<1>6. f.slots = <<>> => EndOf(f) = 0
  BY DEF EndOf
<1>7. f.slots # <<>> =>
          /\ Len(f.slots) \in 1..Len(f.slots)
          /\ EndOf(f) = f.slots[Len(f.slots)].off + f.slots[Len(f.slots)].len
  BY <1>2, <1>5 DEF EndOf
<1>8. EndOf(f) \in Nat
  BY <1>3, <1>6, <1>7
<1> QED BY <1>1, <1>2, <1>3, <1>4, <1>5, <1>6, <1>7, <1>8

\* A part of a sequence, as SameBytes uses it.
LEMMA PartOf ==
    ASSUME NEW S, NEW q, NEW m \in Int, NEW n \in Int, m <= n, \A i \in m..n : q[i] \in S
    PROVE  /\ SubSeq(q, m, n) \in Seq(S)
           /\ Len(SubSeq(q, m, n)) = n - m + 1
           /\ \A i \in 1..(n - m + 1) : SubSeq(q, m, n)[i] = q[m + i - 1]
BY SubSeqProperties

\* The end of a slot is a number.
LEMMA SumNat == \A a, b \in Nat : a + b \in Nat
OBVIOUS

\* Two files agree on a slot when they agree on the bytes up to its end.
LEMMA SameBytes ==
    ASSUME NEW f \in TurnFile, NEW g \in TurnFile,
           NEW s \in Nat, s \in 1..Len(f.slots), s \in 1..Len(g.slots), g.slots[s] = f.slots[s],
           f.slots[s].off + f.slots[s].len <= Len(f.body),
           f.slots[s].off + f.slots[s].len <= Len(g.body),
           \A i \in 1..(f.slots[s].off + f.slots[s].len) : g.body[i] = f.body[i]
    PROVE  BytesOf(g, s) = BytesOf(f, s)
<1> DEFINE m == f.slots[s].off + 1
           n == f.slots[s].off + f.slots[s].len
<1>1. m \in Int /\ n \in Int /\ m >= 1 /\ n <= Len(f.body) /\ n <= Len(g.body) /\ m <= n
      /\ Len(f.body) \in Nat /\ Len(g.body) \in Nat
  <2>1. f.slots[s].off \in Nat /\ f.slots[s].len \in Nat \ {0}
        /\ Len(f.body) \in Nat /\ Len(g.body) \in Nat
    BY FileFields
  <2> QED BY <2>1, SMTT(30)
<1>2. BytesOf(f, s) = SubSeq(f.body, m, n) /\ BytesOf(g, s) = SubSeq(g.body, m, n)
  BY DEF BytesOf
<1>3. \A i \in 1..n : g.body[i] = f.body[i]
  OBVIOUS
<1> HIDE DEF m, n
<1>4. (\A i \in m..n : f.body[i] \in Cells) /\ (\A i \in m..n : g.body[i] \in Cells)
  BY <1>1, FileFields, SMTT(30)
<1>5. /\ SubSeq(f.body, m, n) \in Seq(Cells)
      /\ Len(SubSeq(f.body, m, n)) = n - m + 1
      /\ \A i \in 1..(n - m + 1) : SubSeq(f.body, m, n)[i] = f.body[m + i - 1]
  <2>1. m \in Int /\ n \in Int /\ m <= n
    BY <1>1
  <2>2. \A i \in m..n : f.body[i] \in Cells
    BY <1>4
  <2> QED BY <2>1, <2>2, PartOf
<1>6. /\ SubSeq(g.body, m, n) \in Seq(Cells)
      /\ Len(SubSeq(g.body, m, n)) = n - m + 1
      /\ \A i \in 1..(n - m + 1) : SubSeq(g.body, m, n)[i] = g.body[m + i - 1]
  <2>1. m \in Int /\ n \in Int /\ m <= n
    BY <1>1
  <2>2. \A i \in m..n : g.body[i] \in Cells
    BY <1>4
  <2> QED BY <2>1, <2>2, PartOf
<1>7. \A i \in 1..(n - m + 1) : m + i - 1 \in 1..n
  BY <1>1
<1>8. \A i \in 1..(n - m + 1) : SubSeq(g.body, m, n)[i] = SubSeq(f.body, m, n)[i]
  BY <1>3, <1>5, <1>6, <1>7
<1>9. SubSeq(g.body, m, n) = SubSeq(f.body, m, n)
  BY <1>5, <1>6, <1>8, SeqEqual
<1> QED BY <1>2, <1>9

\* A change of a file that keeps the slots and the bytes they point to keeps
\* every content.
LEMMA SlotsKept ==
    ASSUME NEW f \in TurnFile, FileOK(f), NEW g \in TurnFile,
           g.slots = f.slots,
           g.head # "ok" => g.slots = <<>> /\ g.body = <<>>,
           EndOf(f) <= Len(g.body),
           \A i \in 1..EndOf(f) : g.body[i] = f.body[i]
    PROVE  /\ FileOK(g) /\ EndOf(g) = EndOf(f)
           /\ \A s \in 1..Len(f.slots) : BytesOf(g, s) = BytesOf(f, s)
<1>1. EndOf(g) = EndOf(f) /\ EndOf(f) \in Nat /\ EndOf(f) <= Len(f.body)
      /\ Len(f.body) \in Nat /\ Len(g.body) \in Nat
  BY FileFields DEF EndOf, FileOK
<1>2. ASSUME NEW s \in 1..Len(f.slots)
      PROVE  BytesOf(g, s) = BytesOf(f, s)
  <2>1. f.slots[s].off \in Nat /\ f.slots[s].len \in Nat \ {0} /\ s \in Nat
        /\ f.slots[s].off + f.slots[s].len <= EndOf(f)
    BY FileFields DEF FileOK
  <2> DEFINE n == f.slots[s].off + f.slots[s].len
  <2>2. n \in Nat /\ n <= EndOf(f)
    BY <2>1
  <2> HIDE DEF n
  <2>3. n <= Len(f.body) /\ n <= Len(g.body) /\ \A i \in 1..n : g.body[i] = f.body[i]
    BY <1>1, <2>2
  <2> QED BY <2>1, <2>3, SameBytes DEF n
<1>3. FileOK(g)
  BY <1>1, <1>2 DEF FileOK
<1> QED BY <1>1, <1>2, <1>3

\* Truncating the orphan bytes and writing others behind keeps every content.
Rewritten(f, c) == [f EXCEPT !.body = SubSeq(f.body, 1, EndOf(f)) \o c]

LEMMA BodyReplaced ==
    ASSUME NEW f \in TurnFile, FileOK(f), f.head = "ok", NEW c \in Seq(Cells),
           NEW g, g = Rewritten(f, c)
    PROVE  /\ g \in TurnFile /\ FileOK(g) /\ g.head = "ok" /\ g.slots = f.slots
           /\ EndOf(g) = EndOf(f) /\ Len(g.body) = EndOf(f) + Len(c)
           /\ \A i \in 1..EndOf(f) : g.body[i] = f.body[i]
           /\ \A i \in 1..Len(c) : g.body[EndOf(f) + i] = c[i]
           /\ \A s \in 1..Len(f.slots) : BytesOf(g, s) = BytesOf(f, s)
<1> DEFINE n == EndOf(f)
           b == SubSeq(f.body, 1, n)
<1>1. n \in Nat /\ n <= Len(f.body) /\ Len(f.body) \in Nat /\ Len(c) \in Nat
  BY FileFields DEF FileOK
<1>2. \A i \in 1..n : f.body[i] \in Cells
  BY <1>1, FileFields
<1> HIDE DEF n
<1>3. b \in Seq(Cells) /\ Len(b) = n /\ \A i \in 1..n : b[i] = f.body[i]
  <2>1. /\ b \in Seq(Cells) /\ Len(b) = IF 1 <= n THEN n - 1 + 1 ELSE 0
        /\ \A i \in 1..(n - 1 + 1) : b[i] = f.body[1 + i - 1]
    BY <1>1, <1>2, SubSeqProperties
  <2>2. \A i \in 1..n : 1 + i - 1 = i
    BY <1>1
  <2> QED BY <1>1, <2>1, <2>2
<1> HIDE DEF b
<1> DEFINE w == b \o c
<1>4. /\ w \in Seq(Cells) /\ Len(w) = n + Len(c)
      /\ \A i \in 1..(n + Len(c)) : w[i] = IF i <= n THEN b[i] ELSE c[i - n]
  BY <1>3, ConcatProperties
<1> HIDE DEF w
<1>5. g.body = w /\ g.slots = f.slots /\ g.head = "ok" /\ g \in TurnFile
  BY <1>4 DEF Rewritten, TurnFile, w, b, n
<1>6. Len(g.body) = n + Len(c) /\ n <= Len(g.body)
  <2>1. Len(g.body) = n + Len(c)
    BY <1>4, <1>5, Zenon
  <2>2. n <= n + Len(c)
    BY <1>1
  <2> QED BY <2>1, <2>2, Zenon
<1>7. \A i \in 1..n : g.body[i] = f.body[i]
  <2>1. \A i \in 1..n : i \in 1..(n + Len(c)) /\ i <= n
    BY <1>1
  <2> QED BY <1>3, <1>4, <1>5, <2>1
<1>8. \A i \in 1..Len(c) : g.body[n + i] = c[i]
  <2> SUFFICES ASSUME NEW i \in 1..Len(c) PROVE g.body[n + i] = c[i]
    OBVIOUS
  <2>1. n + i \in 1..(n + Len(c)) /\ ~ (n + i <= n) /\ (n + i) - n = i
    BY <1>1
  <2> QED BY <1>4, <1>5, <2>1
<1>9. /\ FileOK(g) /\ EndOf(g) = EndOf(f)
      /\ \A s \in 1..Len(f.slots) : BytesOf(g, s) = BytesOf(f, s)
  BY <1>5, <1>6, <1>7, SlotsKept DEF n
<1> QED BY <1>5, <1>6, <1>7, <1>8, <1>9 DEF n

\* A slot for the bytes behind the last one holds them as a content.
Extended(f, c) == [f EXCEPT !.slots = Append(@, [off |-> EndOf(f), len |-> Len(c)])]

LEMMA SlotAppended ==
    ASSUME NEW f \in TurnFile, FileOK(f), f.head = "ok", Len(f.slots) < SlotsPerFile,
           NEW c \in Contents, Len(f.body) = EndOf(f) + Len(c),
           \A i \in 1..Len(c) : f.body[EndOf(f) + i] = c[i],
           NEW g, g = Extended(f, c)
    PROVE  /\ g \in TurnFile /\ FileOK(g) /\ g.head = "ok" /\ g.body = f.body
           /\ Len(g.slots) = Len(f.slots) + 1 /\ EndOf(g) = Len(f.body)
           /\ \A s \in 1..Len(f.slots) : g.slots[s] = f.slots[s] /\ BytesOf(g, s) = BytesOf(f, s)
           /\ BytesOf(g, Len(f.slots) + 1) = c
<1> DEFINE n == EndOf(f)
           L == Len(f.slots)
           x == [off |-> n, len |-> Len(c)]
<1>1. c \in Seq(Bytes) /\ c \in Seq(Cells) /\ c # <<>> /\ Len(c) \in Nat \ {0}
      /\ \A i \in 1..Len(c) : c[i] \in Cells
  BY FilesAssumption DEF Cells
<1>2. n \in Nat /\ L \in Nat /\ f.slots \in Seq(Slot) /\ f.body \in Seq(Cells) /\ SlotsPerFile \in Nat
  BY FileFields, FilesAssumption
<1>3. x \in Slot /\ x.off = n /\ x.len = Len(c)
  BY <1>1, <1>2 DEF Slot
<1> HIDE DEF x
<1>4. /\ Append(f.slots, x) \in Seq(Slot) /\ Len(Append(f.slots, x)) = L + 1
      /\ \A s \in 1..L : Append(f.slots, x)[s] = f.slots[s]
      /\ Append(f.slots, x)[L + 1] = x
  BY <1>2, <1>3, AppendProperties
<1>5. g.slots = Append(f.slots, x) /\ g.body = f.body /\ g.head = "ok" /\ g \in TurnFile
  BY <1>4 DEF Extended, TurnFile, x
<1> HIDE DEF n, L
<1>6. Len(g.slots) = L + 1 /\ g.slots # <<>> /\ g.slots[L + 1] = x
      /\ \A s \in 1..L : g.slots[s] = f.slots[s]
  BY <1>2, <1>4, <1>5
<1>7. EndOf(g) = n + Len(c) /\ Len(g.body) = n + Len(c)
  <2>1. EndOf(g) = g.slots[L + 1].off + g.slots[L + 1].len
    BY <1>6 DEF EndOf
  <2> QED BY <1>3, <1>5, <1>6, <2>1 DEF n
<1>8. ASSUME NEW s \in 1..L
      PROVE  BytesOf(g, s) = BytesOf(f, s) /\ f.slots[s].off + f.slots[s].len <= EndOf(g)
  <2>1. f.slots[s].off \in Nat /\ f.slots[s].len \in Nat \ {0} /\ s \in Nat
        /\ f.slots[s].off + f.slots[s].len <= n
    BY FileFields DEF FileOK, L, n
  <2>2. BytesOf(g, s) = BytesOf(f, s)
    BY <1>5, <1>6 DEF BytesOf
  <2> DEFINE e == f.slots[s].off + f.slots[s].len
  <2>3. e \in Nat /\ e <= n
    BY <2>1, SumNat, Zenon
  <2> HIDE DEF e
  <2>4. e <= n + Len(c)
    BY <1>1, <1>2, <2>3
  <2> QED BY <1>7, <2>2, <2>4 DEF e
<1>9. BytesOf(g, L + 1) = c
  <2>1. BytesOf(g, L + 1) = SubSeq(f.body, n + 1, n + Len(c))
    BY <1>3, <1>5, <1>6 DEF BytesOf
  <2>2. \A i \in (n + 1)..(n + Len(c)) : f.body[i] \in Cells
    <3>1. \A i \in (n + 1)..(n + Len(c)) : i \in 1..Len(f.body)
      BY <1>1, <1>2 DEF n
    <3> QED BY <3>1, FileFields
  <2>3. n + 1 \in Int /\ n + Len(c) \in Int /\ n + 1 <= n + Len(c)
        /\ (n + Len(c)) - (n + 1) + 1 = Len(c)
    BY <1>1, <1>2
  <2> DEFINE z == SubSeq(f.body, n + 1, n + Len(c))
  <2>4. /\ z \in Seq(Cells) /\ Len(z) = Len(c)
        /\ \A i \in 1..Len(c) : z[i] = f.body[(n + 1) + i - 1]
    BY <2>2, <2>3, SubSeqProperties
  <2>5. \A i \in 1..Len(c) : (n + 1) + i - 1 = n + i
    BY <1>1, <1>2
  <2>6. \A i \in 1..Len(c) : z[i] = c[i]
    BY <2>4, <2>5 DEF n
  <2> HIDE DEF z
  <2>7. z = c
    BY <1>1, <2>4, <2>6, SeqEqual
  <2> QED BY <2>1, <2>7 DEF z
<1>10. FileOK(g)
  <2>1. g.head = "ok" /\ Len(g.slots) <= SlotsPerFile /\ EndOf(g) <= Len(g.body)
    BY <1>1, <1>2, <1>5, <1>6, <1>7 DEF L
  <2>2. \A s \in 1..Len(g.slots) : s \in 1..L \/ s = L + 1
    BY <1>2, <1>6
  <2>3. \A s \in 1..Len(g.slots) : g.slots[s].off + g.slots[s].len <= EndOf(g)
    <3>1. g.slots[L + 1].off + g.slots[L + 1].len <= EndOf(g)
      BY <1>1, <1>2, <1>3, <1>6, <1>7
    <3> QED BY <1>6, <1>8, <2>2, <3>1
  <2>4. \A s \in 1..Len(g.slots) : BytesOf(g, s) \in Contents
    <3>1. \A s \in 1..L : BytesOf(f, s) \in Contents
      BY DEF FileOK, L
    <3> QED BY <1>8, <1>9, <2>2, <3>1
  <2> QED BY <2>1, <2>3, <2>4 DEF FileOK
<1> QED BY <1>1, <1>2, <1>5, <1>6, <1>7, <1>8, <1>9, <1>10 DEF n, L

\* What a power loss leaves of a body keeps the bytes that slots point to.
LEMMA SurvivingBody ==
    ASSUME NEW d \in TurnFile, NEW f \in TurnFile, FileOK(f), BackedBy(d, f),
           NEW b \in SurvivingBodies(d, f)
    PROVE  /\ b \in Seq(Cells) /\ EndOf(f) <= Len(b)
           /\ \A i \in 1..EndOf(f) : b[i] = f.body[i]
<1> DEFINE least == IF Len(d.body) < Len(f.body) THEN Len(d.body) ELSE Len(f.body)
           most == IF Len(d.body) < Len(f.body) THEN Len(f.body) ELSE Len(d.body)
<1>1. /\ Len(d.body) \in Nat /\ Len(f.body) \in Nat /\ EndOf(f) \in Nat
      /\ EndOf(f) <= Len(f.body) /\ EndOf(f) <= Len(d.body)
  BY FileFields DEF FileOK, BackedBy
<1>2. least \in Nat /\ most \in Nat /\ EndOf(f) <= least
  BY <1>1
<1>3. PICK n \in least..most : b \in [1..n -> Cells] /\ \A i \in 1..n : ByteSurvives(d, f, b, i)
  BY DEF SurvivingBodies
<1> HIDE DEF least, most
<1>4. n \in Nat /\ EndOf(f) <= n
  BY <1>1, <1>2, <1>3
<1>5. b \in Seq(Cells) /\ Len(b) = n
  BY <1>3, <1>4
<1>6. ASSUME NEW i \in 1..EndOf(f)
      PROVE  b[i] = f.body[i]
  <2>1. i \in 1..n /\ i <= Len(d.body) /\ i <= Len(f.body)
    BY <1>1, <1>4
  <2>2. d.body[i] = f.body[i]
    BY DEF BackedBy
  <2>3. ByteSurvives(d, f, b, i)
    BY <1>3, <2>1
  <2> QED BY <2>1, <2>2, <2>3 DEF ByteSurvives
<1> QED BY <1>4, <1>5, <1>6

\* A file with some of the slots of f and the bytes they point to.
LEMMA PartOfFile ==
    ASSUME NEW d \in TurnFile, FileOK(d), NEW f \in TurnFile, FileOK(f), BackedBy(d, f),
           NEW s \in {d.slots, f.slots}, NEW b \in SurvivingBodies(d, f),
           NEW g, g = [head |-> "ok", slots |-> s, body |-> b]
    PROVE  /\ g \in TurnFile /\ FileOK(g) /\ g.head = "ok"
           /\ Len(d.slots) <= Len(g.slots) /\ Len(g.slots) <= Len(f.slots)
           /\ \A t \in 1..Len(g.slots) : g.slots[t] = f.slots[t] /\ BytesOf(g, t) = BytesOf(f, t)
<1>1. /\ b \in Seq(Cells) /\ EndOf(f) <= Len(b)
      /\ \A i \in 1..EndOf(f) : b[i] = f.body[i]
  BY SurvivingBody
<1>2. /\ Len(d.slots) \in Nat /\ Len(f.slots) \in Nat /\ Len(d.slots) <= Len(f.slots)
      /\ \A t \in 1..Len(d.slots) : d.slots[t] = f.slots[t]
      /\ EndOf(f) \in Nat /\ EndOf(d) \in Nat /\ Len(f.body) \in Nat /\ Len(b) \in Nat
      /\ EndOf(f) <= Len(f.body) /\ SlotsPerFile \in Nat /\ Len(f.slots) <= SlotsPerFile
  BY <1>1, FileFields, FilesAssumption DEF BackedBy, FileOK
<1>3. g.slots = s /\ g.body = b /\ g.head = "ok" /\ g \in TurnFile /\ s \in Seq(Slot)
  BY <1>1, FileFields DEF TurnFile, Heads
<1>4. Len(d.slots) <= Len(s) /\ Len(s) <= Len(f.slots) /\ Len(s) \in Nat
      /\ \A t \in 1..Len(s) : s[t] = f.slots[t]
  BY <1>2
<1>5. ASSUME NEW t \in 1..Len(s)
      PROVE  /\ BytesOf(g, t) = BytesOf(f, t) /\ BytesOf(f, t) \in Contents
             /\ g.slots[t].off + g.slots[t].len <= EndOf(g)
             /\ f.slots[t].off + f.slots[t].len <= EndOf(f)
  <2>1. t \in Nat /\ t \in 1..Len(f.slots) /\ t \in 1..Len(g.slots) /\ g.slots[t] = f.slots[t]
    BY <1>2, <1>3, <1>4
  <2>2. f.slots[t].off \in Nat /\ f.slots[t].len \in Nat \ {0}
        /\ f.slots[t].off + f.slots[t].len <= EndOf(f) /\ BytesOf(f, t) \in Contents
    BY <2>1, FileFields DEF FileOK
  <2> DEFINE n == f.slots[t].off + f.slots[t].len
  <2>3. n \in Nat /\ n <= EndOf(f)
    BY <2>2
  <2> HIDE DEF n
  <2>4. n <= Len(f.body) /\ n <= Len(g.body) /\ \A i \in 1..n : g.body[i] = f.body[i]
    BY <1>1, <1>2, <1>3, <2>3
  <2>5. BytesOf(g, t) = BytesOf(f, t)
    BY <1>3, <2>1, <2>4, SameBytes DEF n
  <2>6. g.slots[t].off + g.slots[t].len <= EndOf(g)
    <3>1. CASE s = f.slots
      <4>1. EndOf(g) = EndOf(f)
        BY <1>3, <3>1 DEF EndOf
      <4> QED BY <2>1, <2>2, <4>1
    <3>2. CASE s = d.slots
      <4>1. EndOf(g) = EndOf(d) /\ d.slots[t].off + d.slots[t].len <= EndOf(d)
        BY <1>3, <3>2 DEF EndOf, FileOK
      <4> QED BY <1>3, <3>2, <4>1
    <3> QED BY <3>1, <3>2
  <2> QED BY <2>2, <2>5, <2>6
<1>6. EndOf(g) <= Len(g.body)
  <2>1. CASE s = <<>>
    BY <1>2, <1>3, <2>1 DEF EndOf
  <2>2. CASE s # <<>>
    <3>1. Len(s) \in 1..Len(s)
      BY <1>3, <1>4, <2>2
    <3> DEFINE n == f.slots[Len(s)].off + f.slots[Len(s)].len
    <3>2. EndOf(g) = n
      BY <1>3, <1>4, <2>2, <3>1 DEF EndOf
    <3>3. n <= EndOf(f) /\ n \in Nat
      <4>1. Len(s) \in 1..Len(f.slots)
        BY <1>2, <1>4, <3>1
      <4> QED BY <1>5, <3>1, <4>1, FileFields
    <3> HIDE DEF n
    <3> QED BY <1>1, <1>2, <1>3, <3>2, <3>3
  <2> QED BY <2>1, <2>2
<1>7. FileOK(g)
  BY <1>2, <1>3, <1>4, <1>5, <1>6 DEF FileOK
<1> QED BY <1>3, <1>4, <1>5, <1>7

\* What a power loss leaves of a file: some of its slots, no fewer than were
\* synced, with the contents they had; a bad header only on a file that was new.
LEMMA SurvivorFacts ==
    ASSUME NEW d \in TurnFile, FileOK(d), NEW f \in TurnFile, FileOK(f), BackedBy(d, f),
           NEW g \in Survivors(d, f)
    PROVE  /\ g \in TurnFile /\ FileOK(g)
           /\ Len(d.slots) <= Len(g.slots) /\ Len(g.slots) <= Len(f.slots)
           /\ \A t \in 1..Len(g.slots) : g.slots[t] = f.slots[t] /\ BytesOf(g, t) = BytesOf(f, t)
           /\ g.head # "ok" /\ g.head # "absent" => f.head # "absent" /\ d.head # "ok"
<1>1. CASE d.head = "ok"
  <2>1. PICK s \in {d.slots, f.slots}, b \in SurvivingBodies(d, f) :
              g = [head |-> "ok", slots |-> s, body |-> b]
    BY <1>1 DEF Survivors
  <2> QED BY <2>1, PartOfFile
<1>2. CASE d.head # "ok" /\ \E b \in SurvivingBodies(d, f) : g = [head |-> "ok", slots |-> d.slots, body |-> b]
  <2>1. PICK b \in SurvivingBodies(d, f) : g = [head |-> "ok", slots |-> d.slots, body |-> b]
    BY <1>2
  <2> QED BY <2>1, PartOfFile
<1>3. CASE d.head # "ok" /\ g \in Unborn(d, f)
  <2>1. f.slots = <<>> /\ d.slots = <<>>
    BY <1>3 DEF BackedBy, FileOK
  <2>2. g.slots = <<>> /\ g.body = <<>> /\ g \in TurnFile /\ g.head # "ok"
        /\ (g.head # "absent" => f.head # "absent")
    <3>1. PICK h \in {d.head} \cup (IF f.head = "absent" THEN {} ELSE {"empty"})
                             \cup (IF f.head \in {"torn", "ok"} THEN {"torn"} ELSE {}) :
              g = [NoFile EXCEPT !.head = h]
      BY <1>3 DEF Unborn
    <3>2. h \in Heads /\ h # "ok" /\ (h # "absent" => f.head # "absent")
      BY <1>3, <3>1, FileFields DEF Heads, BackedBy
    <3>3. g = [head |-> h, slots |-> <<>>, body |-> <<>>]
      BY <3>1 DEF NoFile
    <3>4. <<>> \in Seq(Slot) /\ <<>> \in Seq(Cells)
      OBVIOUS
    <3> QED BY <3>2, <3>3, <3>4 DEF TurnFile
  <2>3. Len(<<>>) = 0 /\ SlotsPerFile \in Nat
    BY FilesAssumption
  <2>4. FileOK(g)
    BY <2>2, <2>3 DEF FileOK, EndOf
  <2> QED BY <1>3, <2>1, <2>2, <2>3, <2>4
<1>4. CASE d.head # "ok" /\ g = f /\ f.head # "ok"
  <2>1. f.slots = <<>> /\ d.slots = <<>>
    BY <1>4 DEF BackedBy, FileOK
  <2> QED BY <1>4, <2>1
<1>5. \/ d.head = "ok"
      \/ d.head # "ok" /\ \E b \in SurvivingBodies(d, f) : g = [head |-> "ok", slots |-> d.slots, body |-> b]
      \/ d.head # "ok" /\ g \in Unborn(d, f)
      \/ d.head # "ok" /\ g = f /\ f.head # "ok"
  BY DEF Survivors
<1> QED BY <1>1, <1>2, <1>3, <1>4, <1>5

-----------------------------------------------------------------------------
(* The invariant is inductive *)

LEMMA InvFacts ==
    ASSUME FilesInv
    PROVE  /\ file \in [FileNos -> TurnFile] /\ disk \in [FileNos -> TurnFile]
           /\ Fits(file) /\ Fits(disk)
           /\ Latest(file) \in Nat
           /\ todo \in Seq(Contents) /\ cur \in Nat
           /\ \A k \in FileNos : FileOK(file[k]) /\ FileOK(disk[k]) /\ BackedBy(disk[k], file[k])
<1>1. /\ file \in [FileNos -> TurnFile] /\ disk \in [FileNos -> TurnFile]
      /\ todo \in Seq(Contents) /\ cur \in Nat
  BY DEF FilesInv, TypeOK
<1>2. \A k \in FileNos : FileOK(file[k]) /\ FileOK(disk[k]) /\ BackedBy(disk[k], file[k])
  BY DEF FilesInv, FilesOK
<1>3. Fits(file) /\ Fits(disk)
  BY <1>2 DEF Fits, FileOK
<1> QED BY <1>1, <1>2, <1>3, LatestFacts

\* While a turn is written, its file is one of the session's.
LEMMA WritingFacts ==
    ASSUME FilesInv, pc \notin {"idle", "delete"}
    PROVE  /\ cur \in Nat \ {0} /\ cur <= MaxTurn
           /\ FileOf(cur) \in FileNos /\ SlotOf(cur) \in 1..SlotsPerFile
           /\ file[FileOf(cur)] \in TurnFile /\ disk[FileOf(cur)] \in TurnFile
           /\ FileOK(file[FileOf(cur)]) /\ FileOK(disk[FileOf(cur)])
           /\ BackedBy(disk[FileOf(cur)], file[FileOf(cur)])
           /\ pc \in BeforeSlot => todo # <<>> /\ Head(todo) \in Contents
<1>1. cur \in 1..MaxTurn
  BY DEF FilesInv, CallOK
<1>2. cur \in Nat \ {0} /\ cur <= MaxTurn
  BY <1>1, FilesAssumption
<1>3. FileOf(cur) \in FileNos /\ SlotOf(cur) \in 1..SlotsPerFile
  BY <1>1, <1>2, FileNumber, Position
<1>4. pc \in BeforeSlot => todo # <<>> /\ Head(todo) \in Contents
  <2> SUFFICES ASSUME pc \in BeforeSlot PROVE todo # <<>> /\ Head(todo) \in Contents
    OBVIOUS
  <2>1. todo # <<>>
    BY DEF FilesInv, CallOK
  <2> QED BY <2>1, InvFacts, HeadTailProperties
<1> QED BY <1>2, <1>3, <1>4, InvFacts

\* Where the next turn goes: behind all others, in the first free slot.
LEMMA NextIsFree ==
    ASSUME FilesInv, NEW n \in Nat, n = Latest(file) + 1, n <= MaxTurn
    PROVE  /\ FileOf(n) \in FileNos
           /\ SlotOf(n) = Len(file[FileOf(n)].slots) + 1
           /\ \A j \in FileNos : j > FileOf(n) => file[j].slots = <<>>
           /\ \A k \in FileNos : Young(k) => k >= FileOf(n)
<1> DEFINE L == Latest(file)
<1>1. /\ file \in [FileNos -> TurnFile] /\ Fits(file) /\ L \in Nat /\ n = L + 1 /\ n \in 1..MaxTurn
      /\ SlotsPerFile \in Nat \ {0} /\ FileNos \subseteq Nat
  BY InvFacts, FilesAssumption, FileNosFacts
<1>2. FileOf(n) \in FileNos
  BY <1>1, FileNumber
<1>3. PICK k \in FileNos : L = LatestIn(k, file[k])
  BY <1>1, LatestFacts
<1>4. \A j \in FileNos :
         /\ Len(file[j].slots) \in 0..SlotsPerFile /\ j \in Nat /\ j * SlotsPerFile \in Nat
         /\ (file[j].slots = <<>>) <=> (Len(file[j].slots) = 0)
         /\ file[j].slots = <<>> => LatestIn(j, file[j]) = 0
         /\ file[j].slots # <<>> => LatestIn(j, file[j]) = j * SlotsPerFile + Len(file[j].slots)
         /\ LatestIn(j, file[j]) <= L
  BY <1>1, LatestInFacts, LatestFacts
<1> HIDE DEF L
<1>5. /\ SlotOf(n) = Len(file[FileOf(n)].slots) + 1
      /\ \A j \in FileNos : j > FileOf(n) => file[j].slots = <<>>
  <2>1. CASE L = 0
    <3>1. \A j \in FileNos : file[j].slots = <<>>
      BY <1>4, <2>1
    <3>2. n \in Nat \ {0} /\ n = 0 * SlotsPerFile + 1 /\ 1 \in 1..SlotsPerFile
      BY <1>1, <2>1
    <3>3. FileOf(n) = 0 /\ SlotOf(n) = 1
      BY <3>2, PositionUnique
    <3> QED BY <1>2, <1>4, <3>1, <3>3
  <2>2. CASE L # 0
    <3>1. file[k].slots # <<>> /\ L = k * SlotsPerFile + Len(file[k].slots)
          /\ Len(file[k].slots) \in 1..SlotsPerFile
      BY <1>3, <1>4, <2>2
    <3>2. FileOf(L) = k /\ SlotOf(L) = Len(file[k].slots) /\ L \in Nat \ {0}
      BY <1>1, <1>4, <2>2, <3>1, PositionUnique
    <3>3. \A j \in FileNos : j > k => file[j].slots = <<>>
      <4> SUFFICES ASSUME NEW j \in FileNos, j > k, file[j].slots # <<>> PROVE FALSE
        OBVIOUS
      <4>1. k * SlotsPerFile + SlotsPerFile <= j * SlotsPerFile
        BY <1>4, Multiples
      <4>2. j * SlotsPerFile + Len(file[j].slots) <= L /\ Len(file[j].slots) >= 1
        BY <1>4
      <4> DEFINE a == k * SlotsPerFile
                 b == j * SlotsPerFile
      <4>3. a \in Nat /\ b \in Nat /\ a + SlotsPerFile <= b /\ L = a + Len(file[k].slots)
            /\ b + Len(file[j].slots) <= L
        BY <1>4, <3>1, <4>1, <4>2
      <4>4. Len(file[j].slots) \in 0..SlotsPerFile /\ Len(file[j].slots) # 0
        BY <1>4
      <4>5. Len(file[k].slots) \in 1..SlotsPerFile
        BY <3>1
      <4> HIDE DEF a, b
      <4> QED BY <1>1, <4>3, <4>4, <4>5
    <3>4. \/ FileOf(n) = k /\ SlotOf(n) = Len(file[k].slots) + 1
          \/ FileOf(n) = k + 1 /\ SlotOf(n) = 1
      BY <1>1, <3>2, NextPosition
    <3>5. CASE FileOf(n) = k /\ SlotOf(n) = Len(file[k].slots) + 1
      BY <3>3, <3>5
    <3>6. CASE FileOf(n) = k + 1 /\ SlotOf(n) = 1
      <4>1. \A j \in FileNos : j > FileOf(n) => j > k
        BY <1>4, <3>6
      <4>2. file[FileOf(n)].slots = <<>> /\ Len(file[FileOf(n)].slots) = 0
        BY <1>2, <1>4, <3>3, <3>6
      <4> QED BY <3>3, <3>6, <4>1, <4>2
    <3> QED BY <3>4, <3>5, <3>6
  <2> QED BY <2>1, <2>2
<1>6. \A y \in FileNos : Young(y) => y >= FileOf(n)
  <2> SUFFICES ASSUME NEW y \in FileNos, Young(y) PROVE y >= FileOf(n)
    OBVIOUS
  <2> SUFFICES ASSUME y < FileOf(n) PROVE FALSE
    <3>1. y \in Nat /\ FileOf(n) \in Nat
      BY <1>1, <1>2
    <3> QED BY <3>1
  <2>1. \A j \in FileNos : y <= j => file[j].slots = <<>>
    BY DEF FilesInv, FilesOK
  <2>2. L <= y * SlotsPerFile
    BY <1>1, <2>1, LatestBound DEF L
  <2>3. n = FileOf(n) * SlotsPerFile + SlotOf(n) /\ SlotOf(n) \in 1..SlotsPerFile /\ n \in Nat \ {0}
    BY <1>1, Position
  <2>4. y * SlotsPerFile + SlotsPerFile <= FileOf(n) * SlotsPerFile /\ FileOf(n) * SlotsPerFile \in Nat
        /\ y * SlotsPerFile \in Nat
    BY <1>1, <1>2, Multiples
  <2> QED BY <1>1, <2>2, <2>3, <2>4
<1> QED BY <1>2, <1>5, <1>6

LEMMA InitInv == Init => FilesInv
<1> SUFFICES ASSUME Init PROVE FilesInv
  OBVIOUS
<1>1. <<>> \in Seq(Slot) /\ <<>> \in Seq(Cells) /\ <<>> \in Seq(Contents) /\ Len(<<>>) = 0
      /\ SlotsPerFile \in Nat /\ 0 \in Nat
  BY FilesAssumption
<1>2. NoFile \in TurnFile /\ NoFile.head = "absent" /\ NoFile.slots = <<>> /\ NoFile.body = <<>>
  BY <1>1 DEF NoFile, TurnFile, Heads
<1>3. file = [k \in FileNos |-> NoFile] /\ disk = [k \in FileNos |-> NoFile]
  BY DEF Init
<1>4. TypeOK
  BY <1>1, <1>2, <1>3 DEF TypeOK, Init
<1>5. EndOf(NoFile) = 0 /\ FileOK(NoFile) /\ BackedBy(NoFile, NoFile)
  BY <1>1, <1>2 DEF EndOf, FileOK, BackedBy
<1>6. FilesOK
  BY <1>2, <1>3, <1>5 DEF FilesOK, Young
<1>7. CallOK
  BY DEF Init, CallOK, BeforeSlot
<1> QED BY <1>4, <1>6, <1>7 DEF FilesInv

LEMMA BackedKept ==
    ASSUME NEW d \in TurnFile, NEW f \in TurnFile, NEW g \in TurnFile, BackedBy(d, f),
           g.slots = f.slots, EndOf(g) = EndOf(f),
           \A i \in 1..EndOf(f) : g.body[i] = f.body[i],
           g.head = "absent" => d.head = "absent", d.head = "ok" => g.head = "ok"
    PROVE  BackedBy(d, g)
BY DEF BackedBy

LEMMA HeadSet ==
    ASSUME NEW f \in TurnFile, FileOK(f), NEW h \in Heads, h = "ok" \/ f.head # "ok", NEW g,
           g = [f EXCEPT !.head = h]
    PROVE  /\ g \in TurnFile /\ FileOK(g) /\ g.head = h /\ g.slots = f.slots /\ g.body = f.body
           /\ EndOf(g) = EndOf(f)
           /\ \A s \in 1..Len(f.slots) : BytesOf(g, s) = BytesOf(f, s)
<1>1. g \in TurnFile /\ g.head = h /\ g.slots = f.slots /\ g.body = f.body
  BY DEF TurnFile
<1>2. g.head # "ok" => g.slots = <<>> /\ g.body = <<>>
  BY <1>1 DEF FileOK
<1>3. EndOf(f) <= Len(g.body) /\ \A i \in 1..EndOf(f) : g.body[i] = f.body[i]
  BY <1>1 DEF FileOK
<1> QED BY <1>1, <1>2, <1>3, SlotsKept

\* A file changes, its slots and the bytes they point to do not.
FileTouched(c, g) ==
    /\ c \in FileNos /\ g \in TurnFile /\ FileOK(g) /\ BackedBy(disk[c], g)
    /\ g.slots = file[c].slots
    /\ \A s \in 1..Len(g.slots) : BytesOf(g, s) = BytesOf(file[c], s)
    /\ g.head # "absent" /\ disk[c].head # "ok" =>
          \A j \in FileNos : c <= j => file[j].slots = <<>>
    /\ file' = [file EXCEPT ![c] = g]
    /\ UNCHANGED disk

LEMMA TouchKeeps ==
    ASSUME FilesInv, NEW c, NEW g, FileTouched(c, g)
    PROVE  /\ file' \in [FileNos -> TurnFile] /\ disk' \in [FileNos -> TurnFile]
           /\ FilesOK' /\ Latest(file') = Latest(file)
           /\ \A k \in FileNos : file'[k].slots = file[k].slots
           /\ file'[c] = g
           /\ \A k \in FileNos : Young(k)' => Young(k) \/ k = c
<1>1. /\ file \in [FileNos -> TurnFile] /\ disk \in [FileNos -> TurnFile]
      /\ \A k \in FileNos : FileOK(file[k]) /\ FileOK(disk[k]) /\ BackedBy(disk[k], file[k])
  BY InvFacts
<1>2. /\ c \in FileNos /\ g \in TurnFile /\ FileOK(g) /\ BackedBy(disk[c], g)
      /\ g.slots = file[c].slots /\ file' = [file EXCEPT ![c] = g] /\ disk' = disk
      /\ g.head # "absent" /\ disk[c].head # "ok" => \A j \in FileNos : c <= j => file[j].slots = <<>>
  BY DEF FileTouched
<1>3. /\ file' \in [FileNos -> TurnFile] /\ disk' \in [FileNos -> TurnFile]
      /\ file'[c] = g /\ \A k \in FileNos : k # c => file'[k] = file[k]
  BY <1>1, <1>2
<1>4. \A k \in FileNos : file'[k].slots = file[k].slots
  BY <1>2, <1>3
<1>5. Latest(file') = Latest(file)
  BY <1>1, <1>3, <1>4, LatestSame
<1>6. \A k \in FileNos : Young(k)' => Young(k) \/ k = c
  BY <1>2, <1>3 DEF Young
<1>7. \A k \in FileNos : FileOK(file'[k]) /\ FileOK(disk'[k]) /\ BackedBy(disk'[k], file'[k])
  BY <1>1, <1>2, <1>3
<1>8. ASSUME NEW k \in FileNos, NEW j \in FileNos, Young(k)', k <= j
      PROVE  file'[j].slots = <<>>
  <2>1. CASE k = c
    <3>1. g.head # "absent" /\ disk[c].head # "ok"
      BY <1>2, <1>3, <1>8, <2>1 DEF Young
    <3> QED BY <1>2, <1>4, <1>8, <2>1, <3>1
  <2>2. CASE Young(k)
    BY <1>4, <1>8, <2>2 DEF FilesInv, FilesOK
  <2> QED BY <1>6, <1>8, <2>1, <2>2
<1>9. FilesOK'
  BY <1>7, <1>8 DEF FilesOK
<1> QED BY <1>3, <1>4, <1>5, <1>6, <1>9

LEMMA SameFiles ==
    ASSUME FilesInv, UNCHANGED <<file, disk>>
    PROVE  FilesOK' /\ Latest(file') = Latest(file) /\ \A k \in FileNos : Young(k)' <=> Young(k)
<1>1. file' = file /\ disk' = disk
  OBVIOUS
<1>2. \A k \in FileNos : Young(k)' <=> Young(k)
  BY <1>1 DEF Young
<1>3. FilesOK'
  BY <1>1, <1>2 DEF FilesInv, FilesOK
<1> QED BY <1>1, <1>2, <1>3

\* A call that has ended leaves nothing to keep.
LEMMA IdleCall ==
    ASSUME pc' \in {"idle", "delete"}, cur' = 0, todo' = <<>>
    PROVE  CallOK'
BY DEF CallOK, BeforeSlot

LEMMA WriteTurnsStep ==
    ASSUME FilesInv, NEW contents \in Batches, WriteTurns(contents)
    PROVE  FilesInv'
<1>1. PICK n \in 1..MaxBatch : contents \in [1..n -> Contents]
  BY DEF Batches
<1>2. contents \in Seq(Contents) /\ Len(contents) = n /\ n \in Nat \ {0} /\ contents # <<>>
  BY <1>1, FilesAssumption
<1>3. /\ file' = file /\ disk' = disk /\ cur' = Latest(file) + 1 /\ pc' = "open" /\ todo' = contents
      /\ faults' = faults /\ crashes' = crashes /\ Latest(file) + Len(contents) <= MaxTurn
  BY DEF WriteTurns
<1> DEFINE m == Latest(file) + 1
<1>4. m \in Nat /\ m \in 1..MaxTurn /\ m + Len(contents) <= MaxTurn + 1 /\ Latest(file) = m - 1
  <2>1. Latest(file) \in Nat /\ MaxTurn \in Nat
    BY InvFacts, FilesAssumption
  <2> QED BY <1>2, <1>3, <2>1
<1>5. TypeOK'
  BY <1>2, <1>3, <1>4 DEF TypeOK, FilesInv
<1>6. /\ SlotOf(m) = Len(file[FileOf(m)].slots) + 1
      /\ \A j \in FileNos : j > FileOf(m) => file[j].slots = <<>>
      /\ \A k \in FileNos : Young(k) => k >= FileOf(m)
  BY <1>4, NextIsFree
<1> HIDE DEF m
<1>7. FilesOK' /\ \A k \in FileNos : Young(k)' <=> Young(k)
  BY <1>3, SameFiles
<1>8. CallOK'
  <2>1. cur' = m /\ Latest(file') = cur' - 1
    BY <1>3, <1>4 DEF m
  <2> QED BY <1>2, <1>3, <1>4, <1>6, <1>7, <2>1 DEF CallOK
<1> QED BY <1>5, <1>7, <1>8 DEF FilesInv

\* What the writer of a turn does to its file.
LEMMA WriterTouches ==
    ASSUME FilesInv, pc \notin {"idle", "delete"}, NEW g \in TurnFile, FileOK(g),
           g.slots = file[FileOf(cur)].slots, EndOf(g) = EndOf(file[FileOf(cur)]),
           \A i \in 1..EndOf(g) : g.body[i] = file[FileOf(cur)].body[i],
           \A s \in 1..Len(g.slots) : BytesOf(g, s) = BytesOf(file[FileOf(cur)], s),
           g.head # "absent", file[FileOf(cur)].head = "ok" => g.head = "ok",
           file' = [file EXCEPT ![FileOf(cur)] = g], UNCHANGED disk
    PROVE  FileTouched(FileOf(cur), g)
<1> DEFINE c == FileOf(cur)
<1>1. /\ c \in FileNos /\ file[c] \in TurnFile /\ disk[c] \in TurnFile
      /\ BackedBy(disk[c], file[c])
  BY WritingFacts
<1>2. disk[c].head = "ok" => g.head = "ok"
  BY <1>1 DEF BackedBy
<1>3. BackedBy(disk[c], g)
  BY <1>1, <1>2, BackedKept
<1>4. disk[c].head # "ok" => \A j \in FileNos : c <= j => file[j].slots = <<>>
  <2>1. disk[c].head # "ok" => file[c].slots = <<>>
    BY <1>1 DEF BackedBy
  <2>2. \A j \in FileNos : j > c => file[j].slots = <<>>
    BY DEF FilesInv, CallOK
  <2>3. \A j \in FileNos : c <= j => j = c \/ j > c
    <3>1. c \in Nat /\ \A j \in FileNos : j \in Nat
      BY <1>1, FileNosFacts
    <3> HIDE DEF c
    <3> QED BY <3>1
  <2> HIDE DEF c
  <2> QED BY <2>1, <2>2, <2>3
<1> QED BY <1>1, <1>3, <1>4 DEF FileTouched

\* The file OpenFile or InitHeader leaves.
WithHead(h) == [file[FileOf(cur)] EXCEPT !.head = h]

LEMMA HeadTouches ==
    ASSUME FilesInv, pc \notin {"idle", "delete"},
           NEW h \in Heads, h # "absent", h = "ok" \/ file[FileOf(cur)].head # "ok",
           file' = [file EXCEPT ![FileOf(cur)].head = h], UNCHANGED disk
    PROVE  FileTouched(FileOf(cur), WithHead(h)) /\ WithHead(h).head = h
<1> DEFINE c == FileOf(cur)
           g == WithHead(h)
<1>1. /\ c \in FileNos /\ file[c] \in TurnFile /\ FileOK(file[c]) /\ file \in [FileNos -> TurnFile]
  BY WritingFacts, InvFacts
<1>2. /\ g \in TurnFile /\ FileOK(g) /\ g.head = h /\ g.slots = file[c].slots /\ g.body = file[c].body
      /\ EndOf(g) = EndOf(file[c]) /\ \A s \in 1..Len(g.slots) : BytesOf(g, s) = BytesOf(file[c], s)
  BY <1>1, HeadSet DEF WithHead
<1>3. file' = [file EXCEPT ![c] = g]
  BY <1>1 DEF WithHead
<1> HIDE DEF g
<1>4. FileTouched(c, g)
  BY <1>2, <1>3, WriterTouches
<1> QED BY <1>2, <1>4 DEF g

\* The file WriteBody leaves, when n bytes have been written.
WithBody(n) == [file[FileOf(cur)] EXCEPT !.body = BodyWith(file[FileOf(cur)], n)]

LEMMA BodyTouches ==
    ASSUME FilesInv, pc = "body", NEW n \in 0..Len(Head(todo)),
           file' = [file EXCEPT ![FileOf(cur)].body = BodyWith(file[FileOf(cur)], n)], UNCHANGED disk
    PROVE  /\ FileTouched(FileOf(cur), WithBody(n)) /\ WithBody(n).head = "ok"
           /\ Len(WithBody(n).body) = EndOf(WithBody(n)) + n
           /\ \A i \in 1..n : WithBody(n).body[EndOf(WithBody(n)) + i] = Head(todo)[i]
<1> DEFINE c == FileOf(cur)
           f == file[c]
           g == WithBody(n)
           b == SubSeq(Head(todo), 1, n)
<1>1. /\ c \in FileNos /\ f \in TurnFile /\ FileOK(f) /\ file \in [FileNos -> TurnFile]
      /\ Head(todo) \in Contents
  BY WritingFacts, InvFacts DEF BeforeSlot
<1>2. f.head = "ok"
  BY DEF FilesInv, CallOK
<1>3. Head(todo) \in Seq(Cells) /\ n \in Nat /\ n <= Len(Head(todo)) /\ Len(Head(todo)) \in Nat
      /\ \A i \in 1..n : Head(todo)[i] \in Cells
  <2>1. Head(todo) \in Seq(Bytes) /\ Len(Head(todo)) \in Nat
    BY <1>1, FilesAssumption
  <2>2. Head(todo) \in Seq(Cells)
    BY <2>1 DEF Cells
  <2> QED BY <2>1, <2>2
<1>4. b \in Seq(Cells) /\ Len(b) = n /\ \A i \in 1..n : b[i] = Head(todo)[i]
  <2>1. /\ b \in Seq(Cells) /\ Len(b) = IF 1 <= n THEN n - 1 + 1 ELSE 0
        /\ \A i \in 1..(n - 1 + 1) : b[i] = Head(todo)[1 + i - 1]
    BY <1>3, SubSeqProperties
  <2>2. \A i \in 1..n : 1 + i - 1 = i
    BY <1>3
  <2> QED BY <1>3, <2>1, <2>2
<1>5. g = Rewritten(f, b)
  BY DEF Rewritten, WithBody, BodyWith
<1>6. file' = [file EXCEPT ![c] = g]
  BY <1>1 DEF WithBody
<1> HIDE DEF b, g, f
<1>7. /\ g \in TurnFile /\ FileOK(g) /\ g.head = "ok" /\ g.slots = f.slots
      /\ EndOf(g) = EndOf(f) /\ Len(g.body) = EndOf(f) + Len(b)
      /\ \A i \in 1..EndOf(f) : g.body[i] = f.body[i]
      /\ \A i \in 1..Len(b) : g.body[EndOf(f) + i] = b[i]
      /\ \A s \in 1..Len(f.slots) : BytesOf(g, s) = BytesOf(f, s)
  <2>1. f \in TurnFile /\ FileOK(f) /\ f.head = "ok" /\ b \in Seq(Cells) /\ g = Rewritten(f, b)
    BY <1>1, <1>2, <1>4, <1>5, Zenon
  <2> QED BY <2>1, BodyReplaced, SMTT(30)
<1>8. FileTouched(c, g)
  BY <1>6, <1>7, WriterTouches DEF f
<1> QED BY <1>4, <1>7, <1>8 DEF g

\* The parts of the invariant on the call that any touch of the writer keeps.
LEMMA CallKept ==
    ASSUME FilesInv, pc \in BeforeSlot, pc' \in BeforeSlot, NEW g, FileTouched(FileOf(cur), g),
           UNCHANGED <<cur, todo>>,
           pc' = "header" => g.head # "absent",
           pc' \in {"body", "syncBody", "slot"} => g.head = "ok",
           pc' \in {"syncBody", "slot"} =>
               /\ Len(g.body) = EndOf(g) + Len(Head(todo))
               /\ \A i \in 1..Len(Head(todo)) : g.body[EndOf(g) + i] = Head(todo)[i],
           pc' # "slot"
    PROVE  CallOK'
<1>1. /\ \A k \in FileNos : file'[k].slots = file[k].slots
      /\ file'[FileOf(cur)] = g /\ Latest(file') = Latest(file)
      /\ \A k \in FileNos : Young(k)' => Young(k) \/ k = FileOf(cur)
  BY TouchKeeps
<1>2. pc \notin {"idle", "delete"} /\ FileOf(cur) \in FileNos
  BY WritingFacts DEF BeforeSlot
<1>3. /\ cur \in 1..MaxTurn
      /\ \A j \in FileNos : j > FileOf(cur) => file[j].slots = <<>>
      /\ \A k \in FileNos : Young(k) => k >= FileOf(cur)
      /\ todo # <<>> /\ cur + Len(todo) <= MaxTurn + 1
      /\ SlotOf(cur) = Len(file[FileOf(cur)].slots) + 1
      /\ Latest(file) = cur - 1
  BY <1>2 DEF FilesInv, CallOK
<1>4. cur' = cur /\ todo' = todo
  OBVIOUS
<1>5. pc' \notin {"idle", "delete", "syncSlot"}
  BY DEF BeforeSlot
<1>6. \A k \in FileNos : Young(k)' => k >= FileOf(cur')
  BY <1>1, <1>2, <1>3, <1>4, FileNosFacts
<1>7. /\ cur' \in 1..MaxTurn
      /\ \A j \in FileNos : j > FileOf(cur') => file'[j].slots = <<>>
      /\ todo' # <<>> /\ cur' + Len(todo') <= MaxTurn + 1
      /\ SlotOf(cur') = Len(file'[FileOf(cur')].slots) + 1
      /\ Latest(file') = cur' - 1
      /\ file'[FileOf(cur')] = g
  BY <1>1, <1>2, <1>3, <1>4
<1>8. pc' \in {"syncBody", "slot"} => BodyWritten(file[FileOf(cur)])'
  BY <1>4, <1>7 DEF BodyWritten
<1> QED BY <1>5, <1>6, <1>7, <1>8 DEF CallOK

LEMMA OpenFileStep ==
    ASSUME FilesInv, OpenFile
    PROVE  FilesInv' /\ \E g : FileTouched(FileOf(cur), g)
<1> DEFINE h == IF file[FileOf(cur)].head = "absent" THEN "empty" ELSE file[FileOf(cur)].head
<1>1. /\ pc = "open" /\ pc' = "header" /\ UNCHANGED <<disk, cur, todo, faults, crashes>>
      /\ file' = [file EXCEPT ![FileOf(cur)].head = IF @ = "absent" THEN "empty" ELSE @]
  BY DEF OpenFile
<1>2. FileOf(cur) \in FileNos /\ file[FileOf(cur)] \in TurnFile /\ file \in [FileNos -> TurnFile]
  BY <1>1, WritingFacts, InvFacts
<1>3. h \in Heads /\ h # "absent" /\ (h = "ok" \/ file[FileOf(cur)].head # "ok")
  BY <1>2, FileFields DEF Heads
<1>4. file' = [file EXCEPT ![FileOf(cur)].head = h]
  BY <1>1, <1>2
<1> HIDE DEF h
<1>5. FileTouched(FileOf(cur), WithHead(h)) /\ WithHead(h).head = h
  BY <1>1, <1>3, <1>4, HeadTouches
<1>6. FilesOK' /\ file' \in [FileNos -> TurnFile] /\ disk' \in [FileNos -> TurnFile]
  BY <1>5, TouchKeeps
<1>7. CallOK'
  BY <1>1, <1>3, <1>5, CallKept DEF BeforeSlot
<1>8. TypeOK'
  BY <1>1, <1>6 DEF FilesInv, TypeOK
<1> QED BY <1>5, <1>6, <1>7, <1>8 DEF FilesInv

LEMMA InitHeaderStep ==
    ASSUME FilesInv, InitHeader
    PROVE  FilesInv' /\ \E g : FileTouched(FileOf(cur), g)
<1>1. /\ pc = "header" /\ pc' = "body" /\ UNCHANGED <<disk, cur, todo, faults, crashes>>
      /\ file' = [file EXCEPT ![FileOf(cur)].head = "ok"]
  BY DEF InitHeader
<1>2. "ok" \in Heads
  BY DEF Heads
<1>3. FileTouched(FileOf(cur), WithHead("ok")) /\ WithHead("ok").head = "ok"
  BY <1>1, <1>2, HeadTouches
<1>4. FilesOK' /\ file' \in [FileNos -> TurnFile] /\ disk' \in [FileNos -> TurnFile]
  BY <1>3, TouchKeeps
<1>5. CallOK'
  BY <1>1, <1>3, CallKept DEF BeforeSlot
<1>6. TypeOK'
  BY <1>1, <1>4 DEF FilesInv, TypeOK
<1> QED BY <1>3, <1>4, <1>5, <1>6 DEF FilesInv

LEMMA WriteBodyStep ==
    ASSUME FilesInv, WriteBody
    PROVE  FilesInv' /\ \E g : FileTouched(FileOf(cur), g)
<1> DEFINE n == Len(Head(todo))
<1>1. /\ pc = "body" /\ pc' = "syncBody" /\ UNCHANGED <<disk, cur, todo, faults, crashes>>
      /\ file' = [file EXCEPT ![FileOf(cur)].body = BodyWith(file[FileOf(cur)], n)]
  BY DEF WriteBody
<1>2. n \in 0..Len(Head(todo))
  <2>1. Head(todo) \in Contents
    BY <1>1, WritingFacts DEF BeforeSlot
  <2> QED BY <2>1, FilesAssumption
<1> DEFINE g == WithBody(n)
<1>3. /\ FileTouched(FileOf(cur), g) /\ g.head = "ok"
      /\ Len(g.body) = EndOf(g) + n
      /\ \A i \in 1..n : g.body[EndOf(g) + i] = Head(todo)[i]
  BY <1>1, <1>2, BodyTouches
<1> HIDE DEF g
<1>4. FilesOK' /\ file' \in [FileNos -> TurnFile] /\ disk' \in [FileNos -> TurnFile]
  BY <1>3, TouchKeeps
<1>5. CallOK'
  BY <1>1, <1>3, CallKept DEF BeforeSlot
<1>6. TypeOK'
  BY <1>1, <1>4 DEF FilesInv, TypeOK
<1> QED BY <1>3, <1>4, <1>5, <1>6 DEF FilesInv

\* A failing operation touches the file of the turn, or nothing.
LEMMA FailsStep ==
    ASSUME FilesInv, Fails
    PROVE  FilesInv' /\ (file' = file \/ \E g : FileTouched(FileOf(cur), g))
<1>1. /\ pc # "idle" /\ faults' = faults + 1 /\ file' \in Partial
      /\ pc' = "idle" /\ cur' = 0 /\ todo' = <<>> /\ disk' = disk /\ crashes' = crashes
  BY DEF Fails
<1>2. file' = file \/ \E g : FileTouched(FileOf(cur), g)
  <2>1. CASE pc = "header" /\ file[FileOf(cur)].head = "empty"
    <3>1. PICK h \in {"empty", "torn"} : file' = [file EXCEPT ![FileOf(cur)].head = h]
      BY <1>1, <2>1 DEF Partial
    <3>2. h \in Heads /\ h # "absent" /\ file[FileOf(cur)].head # "ok"
      BY <2>1 DEF Heads
    <3> QED BY <1>1, <2>1, <3>1, <3>2, HeadTouches
  <2>2. CASE pc = "body"
    <3>1. PICK n \in 0..(Len(Head(todo)) - 1) :
              file' = [file EXCEPT ![FileOf(cur)].body = BodyWith(file[FileOf(cur)], n)]
      BY <1>1, <2>2 DEF Partial
    <3>2. Head(todo) \in Contents
      BY <2>2, WritingFacts DEF BeforeSlot
    <3>3. n \in 0..Len(Head(todo))
      BY <3>2, FilesAssumption
    <3> QED BY <1>1, <2>2, <3>1, <3>3, BodyTouches
  <2>3. CASE ~ (pc = "header" /\ file[FileOf(cur)].head = "empty") /\ pc # "body"
    BY <1>1, <2>3 DEF Partial
  <2> QED BY <2>1, <2>2, <2>3
<1>3. FilesOK' /\ file' \in [FileNos -> TurnFile] /\ disk' \in [FileNos -> TurnFile]
  <2>1. CASE file' = file
    BY <1>1, <2>1, SameFiles, InvFacts
  <2>2. CASE \E g : FileTouched(FileOf(cur), g)
    BY <2>2, TouchKeeps
  <2> QED BY <1>2, <2>1, <2>2
<1>4. CallOK'
  BY <1>1, IdleCall
<1>5. TypeOK'
  <2>1. faults' \in Nat /\ todo' \in Seq(Contents)
    BY <1>1 DEF FilesInv, TypeOK
  <2> QED BY <1>1, <1>3, <2>1 DEF FilesInv, TypeOK
<1> QED BY <1>2, <1>3, <1>4, <1>5 DEF FilesInv

\* After a sync the synced state of the file is the file.
LEMMA SyncKeeps ==
    ASSUME FilesInv, pc \in {"syncBody", "syncSlot"}, Synced, file' = file
    PROVE  /\ disk' \in [FileNos -> TurnFile] /\ FilesOK'
           /\ disk'[FileOf(cur)] = file[FileOf(cur)]
           /\ \A k \in FileNos : k # FileOf(cur) => disk'[k] = disk[k]
           /\ \A k \in FileNos : Young(k)' => Young(k) /\ k # FileOf(cur)
<1> DEFINE c == FileOf(cur)
<1>1. /\ c \in FileNos /\ file[c] \in TurnFile /\ FileOK(file[c])
      /\ file \in [FileNos -> TurnFile] /\ disk \in [FileNos -> TurnFile]
      /\ \A k \in FileNos : FileOK(file[k]) /\ FileOK(disk[k]) /\ BackedBy(disk[k], file[k])
  BY WritingFacts, InvFacts
<1>2. file[c].head = "ok"
  BY DEF FilesInv, CallOK
<1>3. /\ disk' \in [FileNos -> TurnFile] /\ disk'[c] = file[c]
      /\ \A k \in FileNos : k # c => disk'[k] = disk[k]
  BY <1>1 DEF Synced
<1>4. \A k \in FileNos : Young(k)' => Young(k) /\ k # c
  BY <1>2, <1>3 DEF Young
<1>5. BackedBy(file[c], file[c])
  <2>1. EndOf(file[c]) <= Len(file[c].body) /\ Len(file[c].slots) <= Len(file[c].slots)
    BY <1>1, FileFields DEF FileOK
  <2> QED BY <1>2, <2>1 DEF BackedBy
<1>6. \A k \in FileNos : FileOK(file'[k]) /\ FileOK(disk'[k]) /\ BackedBy(disk'[k], file'[k])
  BY <1>1, <1>3, <1>5
<1>7. \A k, j \in FileNos : Young(k)' /\ k <= j => file'[j].slots = <<>>
  BY <1>4 DEF FilesInv, FilesOK
<1>8. FilesOK'
  BY <1>6, <1>7 DEF FilesOK
<1> QED BY <1>3, <1>4, <1>8

LEMMA SyncBodyStep ==
    ASSUME FilesInv, SyncBody
    PROVE  FilesInv'
<1>1. /\ pc = "syncBody" /\ pc' = "slot" /\ Synced
      /\ file' = file /\ cur' = cur /\ todo' = todo /\ faults' = faults /\ crashes' = crashes
  BY DEF SyncBody
<1>2. /\ disk' \in [FileNos -> TurnFile] /\ FilesOK' /\ disk'[FileOf(cur)] = file[FileOf(cur)]
      /\ \A k \in FileNos : Young(k)' => Young(k)
  BY <1>1, SyncKeeps
<1>3. TypeOK'
  BY <1>1, <1>2 DEF FilesInv, TypeOK
<1>4. CallOK'
  <2>1. /\ cur \in 1..MaxTurn
        /\ \A j \in FileNos : j > FileOf(cur) => file[j].slots = <<>>
        /\ \A k \in FileNos : Young(k) => k >= FileOf(cur)
        /\ todo # <<>> /\ cur + Len(todo) <= MaxTurn + 1
        /\ SlotOf(cur) = Len(file[FileOf(cur)].slots) + 1
        /\ Latest(file) = cur - 1
        /\ file[FileOf(cur)].head = "ok"
        /\ BodyWritten(file[FileOf(cur)])
    BY <1>1 DEF FilesInv, CallOK, BeforeSlot
  <2>2. BodyWritten(file[FileOf(cur)])'
    BY <1>1, <2>1 DEF BodyWritten
  <2>3. \A k \in FileNos : Young(k)' => k >= FileOf(cur)
    BY <1>2, <2>1
  <2> QED BY <1>1, <1>2, <2>1, <2>2, <2>3 DEF CallOK, BeforeSlot
<1> QED BY <1>2, <1>3, <1>4 DEF FilesInv

LEMMA SyncSlotStep ==
    ASSUME FilesInv, SyncSlot
    PROVE  FilesInv'
<1>1. /\ pc = "syncSlot" /\ Synced
      /\ file' = file /\ todo' = todo /\ faults' = faults /\ crashes' = crashes
      /\ \/ todo = <<>> /\ pc' = "idle" /\ cur' = 0
         \/ todo # <<>> /\ pc' = "open" /\ cur' = cur + 1
  BY DEF SyncSlot
<1>2. /\ disk' \in [FileNos -> TurnFile] /\ FilesOK' /\ disk'[FileOf(cur)] = file[FileOf(cur)]
      /\ \A k \in FileNos : Young(k)' => Young(k) /\ k # FileOf(cur)
  BY <1>1, SyncKeeps
<1>3. /\ cur \in Nat \ {0} /\ todo \in Seq(Contents) /\ FileOf(cur) \in FileNos
      /\ file[FileOf(cur)] \in TurnFile /\ file \in [FileNos -> TurnFile]
  BY <1>1, WritingFacts, InvFacts
<1>4. TypeOK'
  BY <1>1, <1>2, <1>3 DEF FilesInv, TypeOK
<1>5. CallOK'
  <2>1. CASE todo = <<>>
    BY <1>1, <2>1, IdleCall
  <2>2. CASE todo # <<>>
    <3>1. /\ \A j \in FileNos : j > FileOf(cur) => file[j].slots = <<>>
          /\ \A k \in FileNos : Young(k) => k >= FileOf(cur)
          /\ cur + Len(todo) <= MaxTurn
          /\ SlotOf(cur) = Len(file[FileOf(cur)].slots)
          /\ Latest(file) = cur
      BY <1>1 DEF FilesInv, CallOK
    <3>2. Len(todo) \in Nat \ {0} /\ cur + 1 \in 1..MaxTurn /\ (cur + 1) + Len(todo) <= MaxTurn + 1
          /\ Latest(file) = (cur + 1) - 1
      BY <1>3, <2>2, <3>1, FilesAssumption
    <3>3. FileOf(cur + 1) \in FileNos /\ FileNos \subseteq Nat
      BY <3>2, FileNumber, FileNosFacts
    <3>4. \/ FileOf(cur + 1) = FileOf(cur) /\ SlotOf(cur + 1) = SlotOf(cur) + 1
          \/ FileOf(cur + 1) = FileOf(cur) + 1 /\ SlotOf(cur + 1) = 1
      BY <1>3, NextPosition
    <3>5. SlotOf(cur + 1) = Len(file[FileOf(cur + 1)].slots) + 1
      <4>1. CASE FileOf(cur + 1) = FileOf(cur) /\ SlotOf(cur + 1) = SlotOf(cur) + 1
        BY <3>1, <4>1
      <4>2. CASE FileOf(cur + 1) = FileOf(cur) + 1 /\ SlotOf(cur + 1) = 1
        <5>1. FileOf(cur + 1) > FileOf(cur)
          <6>1. FileOf(cur) \in Nat
            BY <1>3, <3>3
          <6> QED BY <4>2, <6>1
        <5>2. file[FileOf(cur + 1)].slots = <<>>
          BY <3>1, <3>3, <5>1
        <5> QED BY <4>2, <5>2
      <4> QED BY <3>4, <4>1, <4>2
    <3>6. \A j \in FileNos : j > FileOf(cur + 1) => j > FileOf(cur)
      BY <1>3, <3>3, <3>4
    <3>7. \A k \in FileNos : Young(k)' => k >= FileOf(cur + 1)
      <4> SUFFICES ASSUME NEW k \in FileNos, Young(k)' PROVE k >= FileOf(cur + 1)
        OBVIOUS
      <4>1. k >= FileOf(cur) /\ k # FileOf(cur)
        BY <1>2, <3>1
      <4>2. k \in Nat /\ FileOf(cur) \in Nat /\ FileOf(cur + 1) \in Nat
        BY <1>3, <3>3
      <4> QED BY <3>4, <4>1, <4>2
    <3>8. pc' = "open" /\ cur' = cur + 1 /\ todo' = todo /\ file' = file
      BY <1>1, <2>2
    <3> QED BY <2>2, <3>1, <3>2, <3>5, <3>6, <3>7, <3>8 DEF CallOK
  <2> QED BY <2>1, <2>2
<1> QED BY <1>2, <1>4, <1>5 DEF FilesInv

LEMMA WriteSlotStep ==
    ASSUME FilesInv, WriteSlot
    PROVE  /\ FilesInv'
           /\ Latest(file') = Latest(file) + 1
           /\ \A k \in FileNos : k # FileOf(cur) => file'[k] = file[k]
           /\ file'[FileOf(cur)].head = "ok"
           /\ Len(file'[FileOf(cur)].slots) = SlotOf(cur)
           /\ \A s \in 1..Len(file[FileOf(cur)].slots) :
                  BytesOf(file'[FileOf(cur)], s) = BytesOf(file[FileOf(cur)], s)
           /\ BytesOf(file'[FileOf(cur)], SlotOf(cur)) = Head(todo)
<1> DEFINE c == FileOf(cur)
           f == file[c]
           g == Extended(f, Head(todo))
<1>1. /\ pc = "slot" /\ pc' = "syncSlot" /\ todo' = Tail(todo)
      /\ disk' = disk /\ cur' = cur /\ faults' = faults /\ crashes' = crashes
      /\ file' = [file EXCEPT ![FileOf(cur)].slots =
                      Append(@, [off |-> EndOf(file[FileOf(cur)]), len |-> Len(Head(todo))])]
  BY DEF WriteSlot
<1>2. /\ cur \in Nat \ {0} /\ cur <= MaxTurn /\ c \in FileNos /\ SlotOf(cur) \in 1..SlotsPerFile
      /\ f \in TurnFile /\ FileOK(f) /\ Head(todo) \in Contents /\ todo # <<>>
      /\ cur = c * SlotsPerFile + SlotOf(cur)
  BY <1>1, WritingFacts, Position DEF BeforeSlot
<1>3. /\ file \in [FileNos -> TurnFile] /\ disk \in [FileNos -> TurnFile] /\ Fits(file)
      /\ todo \in Seq(Contents) /\ SlotsPerFile \in Nat \ {0} /\ MaxTurn \in Nat
      /\ \A k \in FileNos : FileOK(file[k]) /\ FileOK(disk[k]) /\ BackedBy(disk[k], file[k])
  BY InvFacts, FilesAssumption
<1>4. /\ f.head = "ok" /\ BodyWritten(f) /\ disk[c] = f
      /\ SlotOf(cur) = Len(f.slots) + 1 /\ Latest(file) = cur - 1
      /\ cur + Len(todo) <= MaxTurn + 1
      /\ \A j \in FileNos : j > c => file[j].slots = <<>>
      /\ \A k \in FileNos : Young(k) => k >= c
  BY <1>1 DEF FilesInv, CallOK, BeforeSlot
<1>5. Len(f.slots) < SlotsPerFile /\ Len(f.slots) \in Nat
  BY <1>2, <1>3, <1>4, FileFields
<1>6. file' = [file EXCEPT ![c] = g]
  BY <1>1, <1>2, <1>3 DEF Extended
<1> HIDE DEF f, g, c
<1>7. /\ g \in TurnFile /\ FileOK(g) /\ g.head = "ok" /\ g.body = f.body
      /\ Len(g.slots) = Len(f.slots) + 1 /\ EndOf(g) = Len(f.body)
      /\ \A s \in 1..Len(f.slots) : g.slots[s] = f.slots[s] /\ BytesOf(g, s) = BytesOf(f, s)
      /\ BytesOf(g, Len(f.slots) + 1) = Head(todo)
  <2>1. Len(f.body) = EndOf(f) + Len(Head(todo))
        /\ \A i \in 1..Len(Head(todo)) : f.body[EndOf(f) + i] = Head(todo)[i]
    BY <1>4 DEF BodyWritten
  <2>2. g = Extended(f, Head(todo))
    BY DEF g
  <2> QED BY <1>2, <1>4, <1>5, <2>1, <2>2, SlotAppended, SMTT(30)
<1>8. /\ file' \in [FileNos -> TurnFile] /\ file'[c] = g
      /\ \A k \in FileNos : k # c => file'[k] = file[k]
  BY <1>2, <1>3, <1>6, <1>7
<1>9. Latest(file') = cur
  <2>1. Fits(file')
    BY <1>3, <1>7, <1>8 DEF Fits, FileOK
  <2>2. c \in Nat /\ g.slots # <<>> /\ Len(g.slots) = SlotOf(cur)
    BY <1>2, <1>4, <1>5, <1>7, FileNosFacts
  <2>3. LatestIn(c, file'[c]) = cur
    BY <1>2, <1>8, <2>2 DEF LatestIn
  <2>4. ASSUME NEW k \in FileNos
        PROVE  LatestIn(k, file'[k]) <= cur
    <3>1. CASE k = c
      BY <1>2, <2>3, <3>1
    <3>2. CASE k # c
      <4>1. LatestIn(k, file'[k]) = LatestIn(k, file[k])
        BY <1>8, <3>2
      <4>2. LatestIn(k, file[k]) <= Latest(file) /\ LatestIn(k, file[k]) \in Nat
        BY <1>3, LatestFacts, LatestInFacts
      <4> QED BY <1>2, <1>4, <4>1, <4>2
    <3> QED BY <3>1, <3>2
  <2> QED BY <1>2, <1>8, <2>1, <2>3, <2>4, LatestIs
<1>10. \A k \in FileNos : Young(k)' <=> Young(k)
  BY <1>1, <1>4, <1>7, <1>8 DEF Young
<1>11. \A k \in FileNos : Young(k) => k > c
  <2>1. ~ Young(c)
    BY <1>4 DEF Young, f
  <2>2. c \in Nat /\ FileNos \subseteq Nat
    BY <1>2, FileNosFacts
  <2> QED BY <1>4, <2>1, <2>2
<1>12. FilesOK'
  <2>1. BackedBy(disk[c], g)
    <3>1. Len(f.body) \in Nat /\ Len(f.slots) <= Len(g.slots)
      BY <1>2, <1>5, <1>7, FileFields
    <3> QED BY <1>4, <1>7, <3>1 DEF BackedBy
  <2>2. \A k \in FileNos : FileOK(file'[k]) /\ FileOK(disk'[k]) /\ BackedBy(disk'[k], file'[k])
    BY <1>1, <1>3, <1>7, <1>8, <2>1
  <2>3. ASSUME NEW k \in FileNos, NEW j \in FileNos, Young(k)', k <= j
        PROVE  file'[j].slots = <<>>
    <3>1. j > c
      <4>1. k > c
        BY <1>10, <1>11, <2>3
      <4>2. c \in Nat /\ k \in Nat /\ j \in Nat
        BY <1>2, FileNosFacts
      <4> QED BY <2>3, <4>1, <4>2
    <3>2. j # c
      BY <1>2, <3>1, FileNosFacts
    <3> QED BY <1>4, <1>8, <3>1, <3>2
  <2> QED BY <2>2, <2>3 DEF FilesOK
<1>13. todo' \in Seq(Contents) /\ cur + Len(todo') <= MaxTurn
  <2>1. Tail(todo) \in Seq(Contents) /\ Len(Tail(todo)) = Len(todo) - 1 /\ Len(todo) \in Nat
    BY <1>2, <1>3, HeadTailProperties
  <2> QED BY <1>1, <1>2, <1>3, <1>4, <2>1
<1>14. TypeOK'
  BY <1>1, <1>8, <1>13 DEF FilesInv, TypeOK
<1>15. CallOK'
  <2>1. \A j \in FileNos : j > c => file'[j].slots = <<>>
    <3>1. \A j \in FileNos : j > c => j # c
      BY <1>2, FileNosFacts
    <3> QED BY <1>4, <1>8, <3>1
  <2>2. SlotOf(cur) = Len(file'[c].slots) /\ file'[c].head = "ok" /\ cur \in 1..MaxTurn
    BY <1>2, <1>3, <1>4, <1>7, <1>8
  <2>3. \A k \in FileNos : Young(k)' => k >= c
    BY <1>4, <1>10
  <2>4. c = FileOf(cur') /\ cur' = cur /\ pc' = "syncSlot"
    BY <1>1 DEF c
  <2> QED BY <1>9, <1>13, <2>1, <2>2, <2>3, <2>4 DEF CallOK, BeforeSlot
<1>16. FilesInv'
  BY <1>12, <1>14, <1>15 DEF FilesInv
<1>17. Latest(file') = Latest(file) + 1
  BY <1>2, <1>4, <1>9
<1>18. /\ \A k \in FileNos : k # c => file'[k] = file[k]
       /\ file'[c].head = "ok" /\ Len(file'[c].slots) = SlotOf(cur)
       /\ \A s \in 1..Len(f.slots) : BytesOf(file'[c], s) = BytesOf(f, s)
       /\ BytesOf(file'[c], SlotOf(cur)) = Head(todo)
  BY <1>4, <1>7, <1>8
<1> QED BY <1>16, <1>17, <1>18 DEF c, f

LEMMA RemoveFileStep ==
    ASSUME FilesInv, NEW k \in FileNos, RemoveFile(k)
    PROVE  FilesInv' /\ file'[k] = NoFile /\ disk'[k] = NoFile
           /\ \A j \in FileNos : j # k => file'[j] = file[j] /\ disk'[j] = disk[j]
<1>1. /\ pc = "delete" /\ pc' = pc /\ cur' = cur /\ todo' = todo /\ faults' = faults /\ crashes' = crashes
      /\ file' = [file EXCEPT ![k] = NoFile] /\ disk' = [disk EXCEPT ![k] = NoFile]
  BY DEF RemoveFile
<1>2. /\ file \in [FileNos -> TurnFile] /\ disk \in [FileNos -> TurnFile]
      /\ \A j \in FileNos : FileOK(file[j]) /\ FileOK(disk[j]) /\ BackedBy(disk[j], file[j])
  BY InvFacts
<1>3. <<>> \in Seq(Slot) /\ <<>> \in Seq(Cells) /\ Len(<<>>) = 0 /\ SlotsPerFile \in Nat
  BY FilesAssumption
<1>4. NoFile \in TurnFile /\ NoFile.head = "absent" /\ NoFile.slots = <<>> /\ NoFile.body = <<>>
  BY <1>3 DEF NoFile, TurnFile, Heads
<1>5. EndOf(NoFile) = 0 /\ FileOK(NoFile) /\ BackedBy(NoFile, NoFile)
  BY <1>3, <1>4 DEF EndOf, FileOK, BackedBy
<1>6. /\ file' \in [FileNos -> TurnFile] /\ disk' \in [FileNos -> TurnFile]
      /\ file'[k] = NoFile /\ disk'[k] = NoFile
      /\ \A j \in FileNos : j # k => file'[j] = file[j] /\ disk'[j] = disk[j]
  BY <1>1, <1>2, <1>4
<1>7. \A j \in FileNos : FileOK(file'[j]) /\ FileOK(disk'[j]) /\ BackedBy(disk'[j], file'[j])
  BY <1>2, <1>5, <1>6
<1>8. ASSUME NEW y \in FileNos, NEW j \in FileNos, Young(y)', y <= j
      PROVE  file'[j].slots = <<>>
  <2>1. y # k /\ Young(y)
    BY <1>4, <1>6, <1>8 DEF Young
  <2>2. file[j].slots = <<>>
    BY <1>8, <2>1 DEF FilesInv, FilesOK
  <2> QED BY <1>4, <1>6, <2>2
<1>9. FilesOK'
  BY <1>7, <1>8 DEF FilesOK
<1>10. CallOK'
  BY <1>1, IdleCall DEF FilesInv, CallOK
<1>11. TypeOK'
  BY <1>1, <1>6 DEF FilesInv, TypeOK
<1> QED BY <1>6, <1>9, <1>10, <1>11 DEF FilesInv

LEMMA PowerLossStep ==
    ASSUME FilesInv, PowerLoss
    PROVE  /\ FilesInv' /\ disk' = file'
           /\ \A k \in FileNos : file'[k] \in Survivors(disk[k], file[k])
<1>1. /\ crashes' = crashes + 1 /\ disk' = file' /\ pc' = "idle" /\ cur' = 0 /\ todo' = <<>>
      /\ faults' = faults
      /\ file' \in [FileNos -> UNION {Survivors(disk[k], file[k]) : k \in FileNos}]
      /\ \A k \in FileNos : file'[k] \in Survivors(disk[k], file[k])
  BY DEF PowerLoss
<1>2. /\ file \in [FileNos -> TurnFile] /\ disk \in [FileNos -> TurnFile]
      /\ \A j \in FileNos : FileOK(file[j]) /\ FileOK(disk[j]) /\ BackedBy(disk[j], file[j])
  BY InvFacts
<1>3. ASSUME NEW k \in FileNos
      PROVE  /\ file'[k] \in TurnFile /\ FileOK(file'[k])
             /\ Len(file'[k].slots) <= Len(file[k].slots)
             /\ Young(k)' => Young(k)
  <2>1. file[k] \in TurnFile /\ disk[k] \in TurnFile /\ file'[k] \in Survivors(disk[k], file[k])
    BY <1>1, <1>2
  <2>2. /\ file'[k] \in TurnFile /\ FileOK(file'[k])
        /\ Len(file'[k].slots) <= Len(file[k].slots)
        /\ file'[k].head # "ok" /\ file'[k].head # "absent" => file[k].head # "absent" /\ disk[k].head # "ok"
    BY <1>2, <2>1, SurvivorFacts
  <2> QED BY <1>1, <2>2 DEF Young
<1>4. file' \in [FileNos -> TurnFile]
  BY <1>1, <1>3
<1>5. ASSUME NEW k \in FileNos
      PROVE  BackedBy(file'[k], file'[k])
  <2>1. file'[k] \in TurnFile /\ FileOK(file'[k]) /\ Len(file'[k].slots) \in Nat
    BY <1>3, FileFields
  <2> QED BY <2>1 DEF FileOK, BackedBy
<1>6. ASSUME NEW k \in FileNos, NEW j \in FileNos, Young(k)', k <= j
      PROVE  file'[j].slots = <<>>
  <2>1. file[j].slots = <<>>
    BY <1>3, <1>6 DEF FilesInv, FilesOK
  <2>2. file'[j] \in TurnFile /\ Len(file'[j].slots) <= 0
    BY <1>3, <2>1
  <2>3. Len(file'[j].slots) \in Nat /\ ((file'[j].slots = <<>>) <=> (Len(file'[j].slots) = 0))
    BY <2>2, FileFields
  <2> QED BY <2>2, <2>3
<1>7. FilesOK'
  BY <1>1, <1>3, <1>5, <1>6 DEF FilesOK
<1>8. CallOK'
  BY <1>1, IdleCall
<1>9. TypeOK'
  <2>1. crashes' \in Nat /\ todo' \in Seq(Contents)
    BY <1>1 DEF FilesInv, TypeOK
  <2> QED BY <1>1, <1>4, <2>1 DEF FilesInv, TypeOK
<1> QED BY <1>1, <1>7, <1>8, <1>9 DEF FilesInv

LEMMA NextInv == FilesInv /\ [Next]_vars => FilesInv'
<1> SUFFICES ASSUME FilesInv, [Next]_vars PROVE FilesInv'
  OBVIOUS
<1>1. CASE \E contents \in Batches : WriteTurns(contents)
  BY <1>1, WriteTurnsStep
<1>2. CASE OpenFile
  BY <1>2, OpenFileStep
<1>3. CASE InitHeader
  BY <1>3, InitHeaderStep
<1>4. CASE WriteBody
  BY <1>4, WriteBodyStep
<1>5. CASE SyncBody
  BY <1>5, SyncBodyStep
<1>6. CASE WriteSlot
  BY <1>6, WriteSlotStep
<1>7. CASE SyncSlot
  BY <1>7, SyncSlotStep
<1>8. CASE Fails
  BY <1>8, FailsStep
<1>9. CASE DeleteTurns \/ DeleteEnds
  <2>1. /\ file' = file /\ disk' = disk /\ cur' = cur /\ todo' = todo /\ faults' = faults
        /\ crashes' = crashes /\ pc \in {"idle", "delete"} /\ pc' \in {"idle", "delete"}
    BY <1>9 DEF DeleteTurns, DeleteEnds
  <2>2. FilesOK' /\ TypeOK'
    BY <2>1, SameFiles DEF FilesInv, TypeOK
  <2>3. CallOK'
    BY <2>1, IdleCall DEF FilesInv, CallOK
  <2> QED BY <2>2, <2>3 DEF FilesInv
<1>10. CASE \E k \in FileNos : RemoveFile(k)
  BY <1>10, RemoveFileStep
<1>11. CASE Killed
  <2>1. /\ file' = file /\ disk' = disk /\ faults' = faults /\ crashes' = crashes + 1
        /\ pc' = "idle" /\ cur' = 0 /\ todo' = <<>>
    BY <1>11 DEF Killed
  <2>2. FilesOK' /\ CallOK'
    BY <2>1, SameFiles, IdleCall
  <2>3. crashes' \in Nat /\ todo' \in Seq(Contents)
    BY <2>1 DEF FilesInv, TypeOK
  <2>4. TypeOK'
    BY <2>1, <2>3 DEF FilesInv, TypeOK
  <2> QED BY <2>2, <2>4 DEF FilesInv
<1>12. CASE PowerLoss
  BY <1>12, PowerLossStep
<1>13. CASE UNCHANGED vars
  <2>1. /\ file' = file /\ disk' = disk /\ cur' = cur /\ todo' = todo /\ faults' = faults
        /\ crashes' = crashes /\ pc' = pc
    BY <1>13 DEF vars
  <2>2. FilesOK' /\ TypeOK' /\ \A k \in FileNos : Young(k)' <=> Young(k)
    BY <2>1, SameFiles DEF FilesInv, TypeOK
  <2>3. CallOK'
    BY <2>1, <2>2 DEF FilesInv, CallOK, BodyWritten
  <2> QED BY <2>2, <2>3 DEF FilesInv
<1> QED BY <1>1, <1>2, <1>3, <1>4, <1>5, <1>6, <1>7, <1>8, <1>9, <1>10, <1>11, <1>12, <1>13 DEF Next

LEMMA FilesInvAlways == Spec => []FilesInv
BY InitInv, NextInv, PTL DEF Spec

-----------------------------------------------------------------------------
(* Theorems *)

\* Every variable keeps its type through failing operations, kills and power
\* losses (fileSessionTurnStore).
THEOREM TypeCorrect == Spec => []TypeOK
<1>1. FilesInv => TypeOK
  BY DEF FilesInv
<1> QED BY <1>1, FilesInvAlways, PTL

\* writeTurn never answers "turn slot is not next writable slot" for a batch that
\* WriteTurns has accepted.
THEOREM NextSlotIsFreeAlways == Spec => []NextSlotIsFree
<1>1. FilesInv => NextSlotIsFree
  BY DEF FilesInv, CallOK, NextSlotIsFree, BeforeSlot
<1> QED BY <1>1, FilesInvAlways, PTL

\* A file whose header is bad was being created: it is the last one.
LEMMA BadIsNew ==
    ASSUME FilesInv, NEW k \in FileNos, ScanFails(file[k])
    PROVE  /\ file[k].head \in {"empty", "torn"} /\ file[k].slots = <<>>
           /\ Latest(file) <= k * SlotsPerFile
<1>1. file[k] \in TurnFile /\ FileOK(file[k]) /\ BackedBy(disk[k], file[k])
      /\ file \in [FileNos -> TurnFile] /\ Fits(file)
  BY InvFacts
<1>2. \A s \in 1..Len(file[k].slots) : SlotInside(file[k], s)
  <2> SUFFICES ASSUME NEW s \in 1..Len(file[k].slots) PROVE SlotInside(file[k], s)
    OBVIOUS
  <2> DEFINE n == file[k].slots[s].off + file[k].slots[s].len
  <2>1. n \in Nat /\ n <= EndOf(file[k]) /\ EndOf(file[k]) <= Len(file[k].body)
        /\ EndOf(file[k]) \in Nat /\ Len(file[k].body) \in Nat
    BY <1>1, FileFields DEF FileOK
  <2> HIDE DEF n
  <2>2. n <= Len(file[k].body)
    BY <2>1
  <2> QED BY <2>2 DEF SlotInside, n
<1>3. file[k].head \in {"empty", "torn"}
  BY <1>2 DEF ScanFails
<1>4. Young(k) /\ file[k].slots = <<>>
  BY <1>1, <1>3 DEF Young, BackedBy, FileOK
<1>5. \A j \in FileNos : k <= j => file[j].slots = <<>>
  BY <1>4 DEF FilesInv, FilesOK
<1>6. Latest(file) <= k * SlotsPerFile
  BY <1>1, <1>5, LatestBound
<1> QED BY <1>3, <1>4, <1>6

\* A file that makes every later WriteTurns fail (latestTurnIndexInFile) holds no
\* turn, and no turn follows it.
THEOREM OnlyNewFilesBlockAlways == Spec => []OnlyNewFilesBlock
<1>1. FilesInv => OnlyNewFilesBlock
  BY BadIsNew DEF OnlyNewFilesBlock
<1> QED BY <1>1, FilesInvAlways, PTL

-----------------------------------------------------------------------------
(* What a read returns *)

\* The slot of turn i is used.
Present(fs, i) == SlotOf(i) <= Len(fs[FileOf(i)].slots)

Readable(fs) ==
    \A k \in FileNos : /\ FileOK(fs[k])
                       /\ fs[k].head \in {"empty", "torn"} => Latest(fs) <= k * SlotsPerFile

ReadableFiles == file \in [FileNos -> TurnFile] /\ Readable(file)

LEMMA ReadableNow == FilesInv => ReadableFiles
<1> SUFFICES ASSUME FilesInv PROVE ReadableFiles
  OBVIOUS
<1>1. file \in [FileNos -> TurnFile] /\ \A k \in FileNos : FileOK(file[k])
  BY InvFacts
<1>2. \A k \in FileNos : file[k].head \in {"empty", "torn"} => Latest(file) <= k * SlotsPerFile
  BY BadIsNew DEF ScanFails
<1> QED BY <1>1, <1>2 DEF ReadableFiles, Readable

LEMMA ReadableNext == FilesInv' => file' \in [FileNos -> TurnFile] /\ Readable(file')
<1>1. FilesInv' => ReadableFiles'
  BY ReadableNow, PTL
<1> QED BY <1>1 DEF ReadableFiles, Readable

\* A turn up to the last one reads as the bytes of its slot, a content, or as a
\* gap when it has none.
LEMMA ReadFacts ==
    ASSUME NEW fs \in [FileNos -> TurnFile], Readable(fs), NEW i \in 1..Latest(fs)
    PROVE  /\ i \in Nat \ {0} /\ FileOf(i) \in FileNos /\ SlotOf(i) \in 1..SlotsPerFile
           /\ Present(fs, i) =>
                 /\ ReadTurn(fs, i) = BytesOf(fs[FileOf(i)], SlotOf(i))
                 /\ ReadTurn(fs, i) \in Contents
           /\ ~ Present(fs, i) => ReadTurn(fs, i) = Gap
<1> DEFINE c == FileOf(i)
           s == SlotOf(i)
           f == fs[c]
<1>1. Fits(fs) /\ \A k \in FileNos : FileOK(fs[k])
  BY DEF Readable, Fits, FileOK
<1>2. Latest(fs) \in Nat /\ i \in Nat \ {0} /\ i <= Latest(fs)
  BY <1>1, LatestFacts
<1>3. c \in Nat /\ s \in 1..SlotsPerFile /\ i = c * SlotsPerFile + s
      /\ SlotsPerFile \in Nat \ {0}
  BY <1>2, Position, FilesAssumption
<1>4. PICK k \in FileNos : Latest(fs) = LatestIn(k, fs[k])
  BY <1>1, LatestFacts
<1>5. k \in Nat /\ LatestIn(k, fs[k]) \in 0..(k * SlotsPerFile + SlotsPerFile)
      /\ k * SlotsPerFile \in Nat
  BY <1>1, LatestInFacts
<1> HIDE DEF c, s
<1>6. ~ (k < c)
  <2> SUFFICES ASSUME k < c PROVE FALSE
    OBVIOUS
  <2>1. k * SlotsPerFile + SlotsPerFile <= c * SlotsPerFile /\ c * SlotsPerFile \in Nat
    BY <1>3, <1>5, Multiples
  <2> DEFINE a == k * SlotsPerFile
             b == c * SlotsPerFile
  <2>2. a \in Nat /\ b \in Nat /\ a + SlotsPerFile <= b /\ i = b + s /\ i <= a + SlotsPerFile
    BY <1>2, <1>3, <1>4, <1>5, <2>1
  <2> HIDE DEF a, b
  <2> QED BY <1>3, <2>2
<1>7. c \in FileNos
  BY <1>3, <1>5, <1>6, FileNosFacts
<1>8. f \in TurnFile /\ FileOK(f) /\ f.head \in Heads
  BY <1>1, <1>7, FileFields
<1>9. f.head \notin {"empty", "torn"}
  <2> SUFFICES ASSUME f.head \in {"empty", "torn"} PROVE FALSE
    OBVIOUS
  <2>1. Latest(fs) <= c * SlotsPerFile /\ c * SlotsPerFile \in Nat
    BY <1>3, <1>7, SMT DEF Readable
  <2> DEFINE b == c * SlotsPerFile
  <2>2. b \in Nat /\ Latest(fs) <= b /\ i = b + s
    BY <1>3, <2>1
  <2> HIDE DEF b
  <2> QED BY <1>2, <1>3, <2>2
<1>10. ASSUME Present(fs, i)
       PROVE  ReadTurn(fs, i) = BytesOf(f, s) /\ BytesOf(f, s) \in Contents
  <2>1. s \in 1..Len(f.slots) /\ ~ (s > Len(f.slots))
    BY <1>3, <1>8, <1>10, FileFields DEF Present, s, c
  <2>2. f.head = "ok"
    <3>1. f.slots # <<>>
      BY <1>8, <2>1, FileFields
    <3> QED BY <1>8, <3>1 DEF FileOK
  <2>3. SlotInside(f, s) /\ BytesOf(f, s) \in Contents
    <3> DEFINE n == f.slots[s].off + f.slots[s].len
    <3>1. n \in Nat /\ n <= EndOf(f) /\ EndOf(f) <= Len(f.body)
          /\ EndOf(f) \in Nat /\ Len(f.body) \in Nat /\ BytesOf(f, s) \in Contents
      <4>1. /\ f.slots[s].off \in Nat /\ f.slots[s].len \in Nat
            /\ EndOf(f) \in Nat /\ Len(f.body) \in Nat
        BY <1>8, <2>1, FileFields
      <4>2. n <= EndOf(f) /\ EndOf(f) <= Len(f.body) /\ BytesOf(f, s) \in Contents
        BY <1>8, <2>1 DEF FileOK
      <4> QED BY <4>1, <4>2, SumNat
    <3> HIDE DEF n
    <3>2. n <= Len(f.body)
      BY <3>1
    <3> QED BY <3>1, <3>2 DEF SlotInside, n
  <2>4. ReadTurn(fs, i) = BytesOf(f, s)
    BY <2>1, <2>2, <2>3 DEF ReadTurn, BytesOf, s, c
  <2> QED BY <2>3, <2>4
<1>11. ASSUME ~ Present(fs, i)
       PROVE  ReadTurn(fs, i) = Gap
  <2>1. s > Len(f.slots)
    <3>1. Len(f.slots) \in Nat /\ s \in Nat
      BY <1>3, <1>8, FileFields
    <3> QED BY <1>11, <3>1 DEF Present, s, c
  <2>2. f.head = "absent" \/ f.head = "ok"
    BY <1>8, <1>9 DEF Heads
  <2> QED BY <2>1, <2>2 DEF ReadTurn, s, c
<1> QED BY <1>2, <1>3, <1>7, <1>10, <1>11 DEF c, s

\* ReadTurns never returns an error, whatever failed or crashed before: a turn is
\* there, or it is a gap.
THEOREM ReadsNeverFailAlways == Spec => []ReadsNeverFail
<1>1. FilesInv => ReadsNeverFail
  <2> SUFFICES ASSUME FilesInv, NEW i \in 1..Latest(file)
               PROVE  ReadTurn(file, i) # Unreadable
    BY DEF ReadsNeverFail
  <2>1. file \in [FileNos -> TurnFile] /\ Readable(file)
    BY ReadableNow DEF ReadableFiles
  <2>2. ReadTurn(file, i) \in Contents \/ ReadTurn(file, i) = Gap
    BY <2>1, ReadFacts
  <2> QED BY <2>2, FilesAssumption
<1> QED BY <1>1, FilesInvAlways, PTL
-----------------------------------------------------------------------------
(***************************************************************************)
(* The turn files implement the log of TurnLog: every step of TurnFiles is *)
(* a step of the log a reader sees, or changes nothing in it.              *)
(***************************************************************************)

(* The log of a set of files *)

LogOf(fs) == [i \in 1..Latest(fs) |-> ReadTurn(fs, i)]
SyncedOf(fs, ds) == {i \in 1..Latest(fs) : Present(ds, i)}

LEMMA LogFacts ==
    ASSUME NEW fs \in [FileNos -> TurnFile], Readable(fs)
    PROVE  /\ LogOf(fs) \in Seq(Contents \cup {Gap})
           /\ Latest(fs) \in Nat /\ Len(LogOf(fs)) = Latest(fs)
           /\ \A i \in 1..Latest(fs) : LogOf(fs)[i] = ReadTurn(fs, i)
           /\ \A i \in 1..Latest(fs) : (LogOf(fs)[i] # Gap) <=> Present(fs, i)
<1>1. Latest(fs) \in Nat
  BY LatestFacts DEF Readable, Fits, FileOK
<1>2. \A i \in 1..Latest(fs) : ReadTurn(fs, i) \in Contents \cup {Gap}
  BY ReadFacts
<1>3. LogOf(fs) \in [1..Latest(fs) -> Contents \cup {Gap}]
  BY <1>2 DEF LogOf
<1>4. LogOf(fs) \in Seq(Contents \cup {Gap}) /\ Len(LogOf(fs)) = Latest(fs)
  BY <1>1, <1>3
<1>5. \A i \in 1..Latest(fs) : LogOf(fs)[i] = ReadTurn(fs, i)
  BY DEF LogOf
<1>6. \A i \in 1..Latest(fs) : (LogOf(fs)[i] # Gap) <=> Present(fs, i)
  BY <1>5, ReadFacts, FilesAssumption
<1> QED BY <1>1, <1>4, <1>5, <1>6

LEMMA LatestMono ==
    ASSUME NEW fs \in [FileNos -> TurnFile], Fits(fs), NEW gs \in [FileNos -> TurnFile], Fits(gs),
           \A k \in FileNos : Len(gs[k].slots) <= Len(fs[k].slots)
    PROVE  Latest(gs) <= Latest(fs)
<1>1. Latest(fs) \in Nat /\ \A k \in FileNos : LatestIn(k, fs[k]) <= Latest(fs)
  BY LatestFacts
<1>2. PICK k \in FileNos : Latest(gs) = LatestIn(k, gs[k])
  BY LatestFacts
<1> DEFINE a == k * SlotsPerFile
           m == Len(fs[k].slots)
           n == Len(gs[k].slots)
<1>3. /\ a \in Nat /\ m \in Nat /\ n \in Nat /\ n <= m
      /\ n = 0 => LatestIn(k, gs[k]) = 0
      /\ n # 0 => LatestIn(k, gs[k]) = a + n
      /\ m # 0 => LatestIn(k, fs[k]) = a + m
  BY LatestInFacts
<1> HIDE DEF a, m, n
<1>4. LatestIn(k, fs[k]) <= Latest(fs)
  BY <1>1
<1>5. CASE n = 0
  BY <1>1, <1>2, <1>3, <1>5
<1>6. CASE n # 0
  BY <1>1, <1>2, <1>3, <1>4, <1>6
<1> QED BY <1>5, <1>6

\* Files that keep some of the slots of others, with their contents.
Keeps(gs, fs) ==
    \A k \in FileNos : /\ Len(gs[k].slots) <= Len(fs[k].slots)
                       /\ \A s \in 1..Len(gs[k].slots) : BytesOf(gs[k], s) = BytesOf(fs[k], s)

LEMMA KeptTurns ==
    ASSUME NEW fs \in [FileNos -> TurnFile], Readable(fs), NEW gs \in [FileNos -> TurnFile], Readable(gs),
           Keeps(gs, fs)
    PROVE  /\ Latest(gs) <= Latest(fs)
           /\ \A i \in 1..Latest(gs) :
                 i \in 1..Latest(fs) /\ (Present(gs, i) => ReadTurn(gs, i) = ReadTurn(fs, i))
<1>1. Fits(fs) /\ Fits(gs)
  BY DEF Readable, Fits, FileOK
<1>2. Latest(gs) <= Latest(fs) /\ Latest(gs) \in Nat /\ Latest(fs) \in Nat
  BY <1>1, LatestMono, LatestFacts DEF Keeps
<1>3. \A i \in 1..Latest(gs) : i \in 1..Latest(fs)
  BY <1>2
<1>4. ASSUME NEW i \in 1..Latest(gs), Present(gs, i)
      PROVE  ReadTurn(gs, i) = ReadTurn(fs, i)
  <2>1. /\ FileOf(i) \in FileNos /\ SlotOf(i) \in 1..SlotsPerFile
        /\ ReadTurn(gs, i) = BytesOf(gs[FileOf(i)], SlotOf(i))
    BY <1>4, ReadFacts
  <2> DEFINE c == FileOf(i)
             s == SlotOf(i)
  <2>2. /\ Len(gs[c].slots) \in Nat /\ Len(fs[c].slots) \in Nat
        /\ Len(gs[c].slots) <= Len(fs[c].slots) /\ s \in Nat \ {0} /\ s <= Len(gs[c].slots)
    BY <1>4, <2>1, FileFields, FilesAssumption DEF Keeps, Present
  <2>3. s \in 1..Len(gs[c].slots) /\ s <= Len(fs[c].slots)
    <3> HIDE DEF s, c
    <3> QED BY <2>2
  <2>4. BytesOf(gs[c], s) = BytesOf(fs[c], s)
    BY <2>1, <2>3 DEF Keeps
  <2>5. Present(fs, i)
    BY <2>3 DEF Present
  <2>6. ReadTurn(fs, i) = BytesOf(fs[c], s)
    BY <1>3, <2>5, ReadFacts
  <2> QED BY <2>1, <2>4, <2>6
<1> QED BY <1>2, <1>3, <1>4

\* The same slots with the same contents are the same log.
LEMMA SameLog ==
    ASSUME NEW fs \in [FileNos -> TurnFile], Readable(fs), NEW gs \in [FileNos -> TurnFile], Readable(gs),
           \A k \in FileNos : gs[k].slots = fs[k].slots, Keeps(gs, fs)
    PROVE  LogOf(gs) = LogOf(fs) /\ Latest(gs) = Latest(fs)
<1>1. Latest(gs) = Latest(fs)
  BY LatestSame
<1>2. ASSUME NEW i \in 1..Latest(gs)
      PROVE  ReadTurn(gs, i) = ReadTurn(fs, i)
  <2>1. i \in 1..Latest(fs) /\ (Present(gs, i) => ReadTurn(gs, i) = ReadTurn(fs, i))
    BY KeptTurns
  <2>2. FileOf(i) \in FileNos /\ (~ Present(gs, i) => ReadTurn(gs, i) = Gap)
    BY ReadFacts
  <2>3. Present(gs, i) <=> Present(fs, i)
    BY <2>2 DEF Present
  <2>4. ~ Present(fs, i) => ReadTurn(fs, i) = Gap
    BY <2>1, ReadFacts
  <2> QED BY <2>1, <2>2, <2>3, <2>4
<1> QED BY <1>1, <1>2 DEF LogOf

\* The parts of the log that are lost when slots are.
LEMMA ReducedLog ==
    ASSUME NEW fs \in [FileNos -> TurnFile], Readable(fs), NEW gs \in [FileNos -> TurnFile], Readable(gs),
           Keeps(gs, fs), NEW lost, lost = {i \in 1..Latest(fs) : ~ Present(gs, i)}
    PROVE  LogOf(gs) = [i \in 1..Latest(gs) |-> IF i \in lost THEN Gap ELSE LogOf(fs)[i]]
<1>1. ASSUME NEW i \in 1..Latest(gs)
      PROVE  ReadTurn(gs, i) = IF i \in lost THEN Gap ELSE LogOf(fs)[i]
  <2>1. i \in 1..Latest(fs) /\ (Present(gs, i) => ReadTurn(gs, i) = ReadTurn(fs, i))
    BY KeptTurns
  <2>2. ~ Present(gs, i) => ReadTurn(gs, i) = Gap
    BY ReadFacts
  <2>3. LogOf(fs)[i] = ReadTurn(fs, i)
    BY <2>1, LogFacts
  <2>4. i \in lost <=> ~ Present(gs, i)
    BY <2>1
  <2> QED BY <2>1, <2>2, <2>3, <2>4
<1> QED BY <1>1 DEF LogOf

-----------------------------------------------------------------------------
(* The refinement mapping *)

\* LogNow and SyncedNow are the log of the files, now and after the step.
LEMMA LogIs ==
    /\ LogNow = LogOf(file) /\ LogNow' = LogOf(file')
    /\ SyncedNow = SyncedOf(file, disk) /\ SyncedNow' = SyncedOf(file', disk')
<1>1. LogNow = LogOf(file) /\ LogNow' = LogOf(file')
  BY DEF LogNow, LogOf
<1>2. SyncedNow = SyncedOf(file, disk) /\ SyncedNow' = SyncedOf(file', disk')
  BY DEF SyncedNow, SyncedOf, Present
<1> QED BY <1>1, <1>2

\* The files before and after a step, and the logs they hold.
LEMMA BothLogs ==
    ASSUME FilesInv, FilesInv'
    PROVE  /\ file \in [FileNos -> TurnFile] /\ Readable(file) /\ Fits(file)
           /\ file' \in [FileNos -> TurnFile] /\ Readable(file') /\ Fits(file')
           /\ Latest(file) \in Nat /\ Latest(file') \in Nat
           /\ LogNow \in Seq(Contents \cup {Gap}) /\ Len(LogNow) = Latest(file)
           /\ LogNow' \in Seq(Contents \cup {Gap}) /\ Len(LogNow') = Latest(file')
<1>1. /\ file \in [FileNos -> TurnFile] /\ Readable(file)
      /\ file' \in [FileNos -> TurnFile] /\ Readable(file')
  BY ReadableNow, ReadableNext DEF ReadableFiles
<1>2. Fits(file) /\ Fits(file')
  BY <1>1 DEF Readable, Fits, FileOK
<1>3. Latest(file) \in Nat /\ LogOf(file) \in Seq(Contents \cup {Gap}) /\ Len(LogOf(file)) = Latest(file)
  BY <1>1, LogFacts
<1>4. /\ Latest(file') \in Nat /\ LogOf(file') \in Seq(Contents \cup {Gap})
      /\ Len(LogOf(file')) = Latest(file')
  BY <1>1, LogFacts
<1> QED BY <1>1, <1>2, <1>3, <1>4, LogIs

\* Steps that change no slot and no byte behind one leave the log as it is.
LEMMA LogKept ==
    ASSUME FilesInv, FilesInv', \A k \in FileNos : file'[k].slots = file[k].slots, Keeps(file', file),
           \A k \in FileNos : Len(disk'[k].slots) = Len(disk[k].slots)
    PROVE  LogNow' = LogNow /\ SyncedNow' = SyncedNow
<1>1. LogOf(file') = LogOf(file) /\ Latest(file') = Latest(file)
  BY BothLogs, SameLog
<1>2. \A i \in 1..Latest(file) : FileOf(i) \in FileNos
  BY BothLogs, ReadFacts
<1>3. \A i \in 1..Latest(file) : Present(disk', i) <=> Present(disk, i)
  BY <1>2 DEF Present
<1>4. SyncedOf(file', disk') = SyncedOf(file, disk)
  BY <1>1, <1>3 DEF SyncedOf
<1> QED BY <1>1, <1>4, LogIs

LEMMA TouchedLog ==
    ASSUME FilesInv, FilesInv', NEW c, NEW g, FileTouched(c, g)
    PROVE  LogNow' = LogNow /\ SyncedNow' = SyncedNow
<1>1. /\ c \in FileNos /\ file'[c] = g /\ \A k \in FileNos : file'[k].slots = file[k].slots
      /\ disk' = disk
  BY TouchKeeps DEF FileTouched
<1>2. \A k \in FileNos : k # c => file'[k] = file[k]
  BY DEF FileTouched
<1>3. \A k \in FileNos : file[k].slots \in Seq(Slot) /\ Len(file[k].slots) \in Nat
  BY BothLogs, FileFields
<1>4. \A k \in FileNos : \A s \in 1..Len(file'[k].slots) : BytesOf(file'[k], s) = BytesOf(file[k], s)
  BY <1>1, <1>2 DEF FileTouched
<1>5. Keeps(file', file)
  BY <1>1, <1>3, <1>4 DEF Keeps
<1> QED BY <1>1, <1>5, LogKept

LEMMA SameFilesLog ==
    ASSUME FilesInv, FilesInv', file' = file, disk' = disk
    PROVE  LogNow' = LogNow /\ SyncedNow' = SyncedNow
BY LogIs

-----------------------------------------------------------------------------
(* Every step is a step of the log, or leaves it as it is *)

\* An empty directory holds an empty log.
LEMMA LogInit == Init => Log!Init
<1> SUFFICES ASSUME Init PROVE Log!Init
  OBVIOUS
<1>1. FilesInv
  BY InitInv
<1>2. file \in [FileNos -> TurnFile] /\ Fits(file) /\ ReadableFiles
  BY <1>1, InvFacts, ReadableNow
<1>3. \A k \in FileNos : LatestIn(k, file[k]) = 0
  BY DEF Init, NoFile, LatestIn
<1>4. \E k \in FileNos : LatestIn(k, file[k]) = 0
  BY <1>3, FileNosFacts
<1>5. Latest(file) = 0
  BY <1>2, <1>3, <1>4, LatestIs
<1>6. LogOf(file) \in Seq(Contents \cup {Gap}) /\ Len(LogOf(file)) = 0
  BY <1>2, <1>5, LogFacts DEF ReadableFiles
<1>7. LogNow = <<>>
  BY <1>6, LogIs
<1>8. SyncedNow = {}
  BY <1>5 DEF SyncedNow
<1>9. todo = <<>>
  BY DEF Init
<1> QED BY <1>7, <1>8, <1>9 DEF Log!Init

LEMMA WriteTurnsLog ==
    ASSUME FilesInv, FilesInv', NEW contents \in Batches, WriteTurns(contents)
    PROVE  Log!Submit
<1>1. file' = file /\ disk' = disk /\ pc = "idle" /\ todo' = contents
  BY DEF WriteTurns
<1>2. LogNow' = LogNow /\ SyncedNow' = SyncedNow
  BY <1>1, SameFilesLog
<1>3. todo = <<>>
  BY <1>1 DEF FilesInv, CallOK
<1>4. PICK n \in 1..MaxBatch : contents \in [1..n -> Contents]
  BY DEF Batches
<1>5. contents \in Seq(Contents) /\ Len(contents) = n /\ contents # <<>>
  BY <1>4, FilesAssumption
<1> QED BY <1>1, <1>2, <1>3, <1>5 DEF Log!Submit

\* The steps that prepare a slot.
LEMMA PrepareLog ==
    ASSUME FilesInv, FilesInv', OpenFile \/ InitHeader \/ WriteBody
    PROVE  UNCHANGED <<LogNow, SyncedNow, todo>>
<1>1. \E g : FileTouched(FileOf(cur), g)
  BY OpenFileStep, InitHeaderStep, WriteBodyStep
<1>2. LogNow' = LogNow /\ SyncedNow' = SyncedNow
  BY <1>1, TouchedLog
<1>3. todo' = todo
  BY DEF OpenFile, InitHeader, WriteBody
<1> QED BY <1>2, <1>3

\* A failing operation and the end of the process abandon the call.
LEMMA AbandonLog ==
    ASSUME FilesInv, FilesInv', Fails \/ Killed
    PROVE  Log!Abandon
<1>1. todo' = <<>> /\ disk' = disk
  BY DEF Fails, Killed
<1>2. file' = file \/ \E g : FileTouched(FileOf(cur), g)
  BY FailsStep DEF Killed
<1>3. LogNow' = LogNow /\ SyncedNow' = SyncedNow
  BY <1>1, <1>2, TouchedLog, SameFilesLog
<1> QED BY <1>1, <1>3 DEF Log!Abandon

LEMMA DeleteLog ==
    ASSUME FilesInv, FilesInv', DeleteTurns \/ DeleteEnds \/ UNCHANGED vars
    PROVE  UNCHANGED <<LogNow, SyncedNow, todo>>
<1>1. file' = file /\ disk' = disk /\ todo' = todo
  BY DEF DeleteTurns, DeleteEnds, vars
<1> QED BY <1>1, SameFilesLog

\* A sync loses nothing of what was synced.
LEMMA SyncedGrows ==
    ASSUME FilesInv, FilesInv', file' = file, NEW c \in FileNos, disk'[c] = file[c],
           \A k \in FileNos : k # c => disk'[k] = disk[k]
    PROVE  LogNow' = LogNow /\ SyncedNow \subseteq SyncedNow' /\ SyncedNow' \subseteq 1..Len(LogNow)
<1>1. LogNow' = LogNow
  BY LogIs
<1>2. Len(LogNow) = Latest(file)
  BY BothLogs
<1>3. SyncedNow' \subseteq 1..Len(LogNow)
  BY <1>2, LogIs DEF SyncedOf
<1>4. ASSUME NEW i \in 1..Latest(file), Present(disk, i)
      PROVE  Present(disk', i)
  <2>1. FileOf(i) \in FileNos /\ SlotOf(i) \in 1..SlotsPerFile
    BY BothLogs, ReadFacts
  <2>2. CASE FileOf(i) # c
    BY <1>4, <2>1, <2>2 DEF Present
  <2>3. CASE FileOf(i) = c
    <3>1. Len(disk[c].slots) <= Len(file[c].slots)
      BY InvFacts DEF BackedBy
    <3>2. Len(disk[c].slots) \in Nat /\ Len(file[c].slots) \in Nat
      BY InvFacts, FileFields
    <3>3. SlotOf(i) <= Len(disk[c].slots) /\ SlotOf(i) \in Nat
      BY <1>4, <2>1, <2>3, FilesAssumption DEF Present
    <3>4. SlotOf(i) <= Len(file[c].slots)
      BY <3>1, <3>2, <3>3
    <3> QED BY <2>3, <3>4 DEF Present
  <2> QED BY <2>2, <2>3
<1>5. SyncedNow \subseteq SyncedNow'
  BY <1>4, LogIs DEF SyncedOf
<1> QED BY <1>1, <1>3, <1>5

\* The last turn is synced: it is the one the slot was written for.
LEMMA SyncSlotLog ==
    ASSUME FilesInv, FilesInv', SyncSlot
    PROVE  Log!Sync
<1> DEFINE c == FileOf(cur)
<1>1. file' = file /\ todo' = todo /\ pc = "syncSlot" /\ Synced
  BY DEF SyncSlot
<1>2. c \in FileNos /\ cur \in Nat \ {0}
  BY <1>1, WritingFacts
<1>3. disk'[c] = file[c] /\ \A k \in FileNos : k # c => disk'[k] = disk[k]
  BY <1>1, SyncKeeps
<1>4. LogNow' = LogNow /\ SyncedNow \subseteq SyncedNow' /\ SyncedNow' \subseteq 1..Len(LogNow)
  BY <1>1, <1>2, <1>3, SyncedGrows
<1>5. Latest(file) = cur /\ SlotOf(cur) = Len(file[c].slots)
  BY <1>1 DEF FilesInv, CallOK
<1>6. Len(LogNow) = cur /\ LogNow # <<>>
  BY <1>2, <1>5, BothLogs
<1>7. Present(disk', cur) /\ cur \in 1..Latest(file')
  BY <1>1, <1>2, <1>3, <1>5, BothLogs DEF Present
<1>8. Len(LogNow) \in SyncedNow'
  BY <1>6, <1>7, LogIs DEF SyncedOf
<1> QED BY <1>1, <1>4, <1>6, <1>8 DEF Log!Sync

\* The sync of a body also syncs the slot before it, when an earlier sync failed.
LEMMA SyncBodyLog ==
    ASSUME FilesInv, FilesInv', SyncBody
    PROVE  Log!Sync \/ UNCHANGED <<LogNow, SyncedNow, todo>>
<1> DEFINE c == FileOf(cur)
<1>1. file' = file /\ todo' = todo /\ pc = "syncBody" /\ Synced
  BY DEF SyncBody
<1>2. c \in FileNos /\ cur \in Nat \ {0} /\ SlotOf(cur) \in 1..SlotsPerFile
  BY <1>1, WritingFacts
<1>3. disk'[c] = file[c] /\ \A k \in FileNos : k # c => disk'[k] = disk[k]
  BY <1>1, SyncKeeps
<1>4. LogNow' = LogNow /\ SyncedNow \subseteq SyncedNow' /\ SyncedNow' \subseteq 1..Len(LogNow)
  BY <1>1, <1>2, <1>3, SyncedGrows
<1>5. Latest(file) = cur - 1 /\ SlotOf(cur) = Len(file[c].slots) + 1
  BY <1>1 DEF FilesInv, CallOK, BeforeSlot
<1>6. /\ Len(disk[c].slots) \in Nat /\ Len(file[c].slots) \in Nat
      /\ Len(disk[c].slots) <= Len(file[c].slots)
  BY <1>2, InvFacts, FileFields DEF BackedBy
<1>7. CASE Len(disk[c].slots) = Len(file[c].slots)
  <2>1. \A k \in FileNos : Len(disk'[k].slots) = Len(disk[k].slots)
    BY <1>3, <1>7
  <2>2. \A k \in FileNos : Len(file[k].slots) \in Nat
    BY InvFacts, FileFields
  <2>3. Keeps(file', file) /\ \A k \in FileNos : file'[k].slots = file[k].slots
    BY <1>1, <2>2 DEF Keeps
  <2> QED BY <1>1, <2>1, <2>3, LogKept
<1>8. CASE Len(disk[c].slots) # Len(file[c].slots)
  <2>1. SlotOf(cur) > 1 /\ SlotOf(cur) \in Nat
    BY <1>2, <1>5, <1>6, <1>8, FilesAssumption
  <2>2. cur # 1
    BY <2>1, Position, PositionUnique, FilesAssumption DEF SlotOf
  <2>3. cur - 1 \in Nat \ {0} /\ (cur - 1) + 1 = cur
    BY <1>2, <2>2
  <2>4. FileOf(cur - 1) = c /\ SlotOf(cur) = SlotOf(cur - 1) + 1
    <3> DEFINE p == cur - 1
    <3>1. p \in Nat \ {0} /\ p + 1 = cur
      BY <2>3
    <3> HIDE DEF p
    <3>2. \/ FileOf(p + 1) = FileOf(p) /\ SlotOf(p + 1) = SlotOf(p) + 1
          \/ SlotOf(p + 1) = 1
      BY <3>1, NextPosition
    <3>3. FileOf(p) = c /\ SlotOf(cur) = SlotOf(p) + 1
      BY <2>1, <3>1, <3>2
    <3> QED BY <3>3 DEF p
  <2>5. SlotOf(cur - 1) \in Nat
    <3>1. \A p \in Nat \ {0} : SlotOf(p) \in 1..SlotsPerFile
      BY Position
    <3> QED BY <2>3, <3>1, FilesAssumption
  <2>6. SlotOf(cur - 1) <= Len(disk'[c].slots)
    BY <1>3, <1>5, <1>6, <2>4, <2>5
  <2>7. Present(disk', cur - 1) /\ cur - 1 \in 1..Latest(file')
    BY <1>1, <1>5, <2>3, <2>4, <2>6, BothLogs DEF Present
  <2>8. Len(LogNow) = cur - 1 /\ LogNow # <<>>
    BY <1>5, <2>3, BothLogs
  <2>9. Len(LogNow) \in SyncedNow'
    BY <2>7, <2>8, LogIs DEF SyncedOf
  <2> QED BY <1>1, <1>4, <2>8, <2>9 DEF Log!Sync
<1> QED BY <1>7, <1>8

\* The slot that is written appends the first content of the batch.
LEMMA WriteSlotLog ==
    ASSUME FilesInv, FilesInv', WriteSlot
    PROVE  Log!AppendNext
<1> DEFINE c == FileOf(cur)
           n == Latest(file)
<1>1. pc = "slot" /\ disk' = disk /\ todo' = Tail(todo)
  BY DEF WriteSlot
<1>2. /\ c \in FileNos /\ cur \in Nat \ {0} /\ SlotOf(cur) \in 1..SlotsPerFile
      /\ todo # <<>> /\ Head(todo) \in Contents
  BY <1>1, WritingFacts DEF BeforeSlot
<1>3. n = cur - 1 /\ SlotOf(cur) = Len(file[c].slots) + 1 /\ disk[c] = file[c]
  BY <1>1 DEF FilesInv, CallOK, BeforeSlot
<1>4. /\ Latest(file') = n + 1
      /\ \A k \in FileNos : k # c => file'[k] = file[k]
      /\ Len(file'[c].slots) = SlotOf(cur)
      /\ \A s \in 1..Len(file[c].slots) : BytesOf(file'[c], s) = BytesOf(file[c], s)
      /\ BytesOf(file'[c], SlotOf(cur)) = Head(todo)
  BY WriteSlotStep
<1>5. n \in Nat /\ n + 1 = cur /\ \A k \in FileNos : Len(file[k].slots) \in Nat
  BY <1>2, <1>3, InvFacts, FileFields
<1>6. Keeps(file, file')
  <2> SUFFICES ASSUME NEW k \in FileNos
               PROVE  /\ Len(file[k].slots) <= Len(file'[k].slots)
                      /\ \A s \in 1..Len(file[k].slots) : BytesOf(file[k], s) = BytesOf(file'[k], s)
    BY DEF Keeps
  <2>1. Len(file[k].slots) \in Nat
    BY <1>5
  <2> QED BY <1>3, <1>4, <2>1
<1>7. ASSUME NEW i \in 1..n
      PROVE  ReadTurn(file', i) = ReadTurn(file, i)
  <2>1. i \in 1..Latest(file') /\ (Present(file, i) => ReadTurn(file, i) = ReadTurn(file', i))
    BY <1>6, BothLogs, KeptTurns
  <2>2. /\ i \in Nat \ {0} /\ FileOf(i) \in FileNos /\ SlotOf(i) \in 1..SlotsPerFile
        /\ ~ Present(file, i) => ReadTurn(file, i) = Gap
    BY BothLogs, ReadFacts
  <2>3. ~ Present(file', i) => ReadTurn(file', i) = Gap
    BY <2>1, BothLogs, ReadFacts
  <2>4. i # cur
    BY <1>5
  <2>5. ~ (FileOf(i) = c /\ SlotOf(i) = SlotOf(cur))
    BY <1>2, <2>2, <2>4, Position
  <2>6. ASSUME Present(file', i) PROVE Present(file, i)
    <3>1. CASE FileOf(i) # c
      BY <1>4, <2>2, <2>6, <3>1 DEF Present
    <3>2. CASE FileOf(i) = c
      <4>1. SlotOf(i) \in Nat /\ SlotOf(cur) \in Nat /\ Len(file[c].slots) \in Nat
        BY <1>2, <1>5, <2>2, FilesAssumption
      <4>2. SlotOf(i) <= SlotOf(cur) /\ SlotOf(i) # SlotOf(cur)
        BY <1>4, <2>5, <2>6, <3>2 DEF Present
      <4>3. SlotOf(i) <= Len(file[c].slots)
        BY <1>3, <4>1, <4>2
      <4> QED BY <3>2, <4>3 DEF Present
    <3> QED BY <3>1, <3>2
  <2> QED BY <2>1, <2>2, <2>3, <2>6
<1>8. ReadTurn(file', cur) = Head(todo)
  <2>1. cur \in 1..Latest(file')
    BY <1>4, <1>5
  <2>2. SlotOf(cur) \in Nat
    BY <1>2, FilesAssumption
  <2>3. Present(file', cur)
    BY <1>4, <2>2 DEF Present
  <2> QED BY <1>4, <2>1, <2>3, BothLogs, ReadFacts
<1>9. LogNow' = Append(LogNow, Head(todo))
  <2> DEFINE S == Contents \cup {Gap}
             l == LogOf(file)
             m == LogOf(file')
             a == Append(l, Head(todo))
  <2>1. l \in Seq(S) /\ Len(l) = n /\ m \in Seq(S) /\ Len(m) = n + 1
    BY <1>4, BothLogs, LogIs
  <2>2. Head(todo) \in S
    BY <1>2
  <2>3. \A i \in 1..n : m[i] = l[i]
    BY <1>4, <1>5, <1>7 DEF LogOf
  <2>4. m[n + 1] = Head(todo)
    BY <1>4, <1>5, <1>8 DEF LogOf
  <2> HIDE DEF S, l, m
  <2>5. a \in Seq(S) /\ Len(a) = n + 1 /\ (\A i \in 1..n : a[i] = l[i]) /\ a[n + 1] = Head(todo)
    BY <2>1, <2>2, AppendProperties
  <2> HIDE DEF a
  <2>6. \A i \in 1..(n + 1) : m[i] = a[i]
    BY <1>5, <2>3, <2>4, <2>5
  <2>7. m = a
    BY <2>1, <2>5, <2>6, SeqEqual
  <2> QED BY <2>7, LogIs DEF l, m, a
<1>10. SyncedNow' = SyncedNow
  <2>1. Len(file[c].slots) \in Nat /\ SlotOf(cur) \in Nat
    BY <1>2, <1>5, FilesAssumption
  <2>2. ~ Present(disk, cur)
    BY <1>3, <2>1 DEF Present
  <2>3. \A i \in 1..(n + 1) : i # cur => i \in 1..n
    BY <1>5
  <2>4. \A i \in 1..n : i \in 1..(n + 1)
    BY <1>5
  <2>5. SyncedOf(file', disk') = SyncedOf(file, disk)
    BY <1>1, <1>4, <2>2, <2>3, <2>4 DEF SyncedOf
  <2> QED BY <2>5, LogIs
<1> QED BY <1>1, <1>2, <1>9, <1>10 DEF Log!AppendNext

\* The log of files that kept only some of their slots is a part of the log before.
LEMMA LogReduced ==
    ASSUME FilesInv, FilesInv', Keeps(file', file), NEW kept,
           \A i \in kept : i \in 1..Latest(file) => Present(file', i)
    PROVE  LogNow' \in Log!Reduced(kept)
<1> DEFINE lost == {i \in 1..Latest(file) : ~ Present(file', i)}
           n == Latest(file')
<1>1. n <= Latest(file) /\ n \in Nat /\ Latest(file) \in Nat /\ Len(LogNow) = Latest(file)
  BY BothLogs, KeptTurns
<1>2. n \in 0..Len(LogNow)
  BY <1>1
<1>3. lost \in SUBSET ((1..Len(LogNow)) \ kept)
  BY <1>1
<1>4. LogOf(file') = [i \in 1..n |-> IF i \in lost THEN Gap ELSE LogOf(file)[i]]
  <2>1. /\ file \in [FileNos -> TurnFile] /\ Readable(file)
        /\ file' \in [FileNos -> TurnFile] /\ Readable(file')
    BY BothLogs
  <2>2. \A l : l = lost => LogOf(file') = [i \in 1..n |-> IF i \in l THEN Gap ELSE LogOf(file)[i]]
    BY <2>1, ReducedLog, ZenonT(30)
  <2> QED BY <2>2
<1>5. LogNow' = [i \in 1..n |-> IF i \in lost THEN Gap ELSE LogNow[i]]
  BY <1>4, LogIs
<1> HIDE DEF lost, n
<1>6. ASSUME NEW m \in 0..Len(LogNow), NEW l \in SUBSET ((1..Len(LogNow)) \ kept), NEW g,
             g = [i \in 1..m |-> IF i \in l THEN Gap ELSE LogNow[i]]
      PROVE  g \in Log!Reduced(kept)
  BY <1>6, SMTT(30) DEF Log!Reduced
<1> QED BY <1>2, <1>3, <1>5, <1>6

\* What a reader gets from the files after the step.
LEMMA NextLogFacts ==
    ASSUME FilesInv, FilesInv'
    PROVE  \A i \in 1..Latest(file') : (LogNow'[i] # Gap) <=> Present(file', i)
BY BothLogs, LogFacts, LogIs

\* Each file a delete removes takes its turns out of the log.
LEMMA RemoveFileLog ==
    ASSUME FilesInv, FilesInv', NEW k \in FileNos, RemoveFile(k)
    PROVE  Log!Erase
<1>1. pc = "delete" /\ todo' = todo
  BY DEF RemoveFile
<1>2. todo = <<>>
  BY <1>1 DEF FilesInv, CallOK
<1>3. /\ file'[k] = NoFile /\ disk'[k] = NoFile
      /\ \A j \in FileNos : j # k => file'[j] = file[j] /\ disk'[j] = disk[j]
  BY RemoveFileStep
<1>4. /\ Len(NoFile.slots) = 0
      /\ \A j \in FileNos : Len(file[j].slots) \in Nat /\ Len(disk[j].slots) \in Nat
                            /\ Len(disk[j].slots) <= Len(file[j].slots)
  BY InvFacts, FileFields DEF NoFile, BackedBy
<1>5. Keeps(file', file)
  <2> SUFFICES ASSUME NEW j \in FileNos
               PROVE  /\ Len(file'[j].slots) <= Len(file[j].slots)
                      /\ \A s \in 1..Len(file'[j].slots) : BytesOf(file'[j], s) = BytesOf(file[j], s)
    BY DEF Keeps
  <2>1. CASE j = k
    BY <1>3, <1>4, <2>1
  <2>2. CASE j # k
    BY <1>3, <1>4, <2>2
  <2> QED BY <2>1, <2>2
<1>6. LogNow' \in Log!Reduced({})
  BY <1>5, LogReduced
<1>7. ASSUME NEW i \in 1..Latest(file')
      PROVE  Present(disk', i) <=> Present(disk, i) /\ Present(file', i)
  <2>1. FileOf(i) \in FileNos /\ SlotOf(i) \in 1..SlotsPerFile
    BY BothLogs, ReadFacts
  <2>2. SlotOf(i) \in Nat \ {0}
    BY <2>1, FilesAssumption
  <2>3. CASE FileOf(i) = k
    BY <1>3, <1>4, <2>2, <2>3 DEF Present
  <2>4. CASE FileOf(i) # k
    <3> DEFINE s == SlotOf(i)
               d == Len(disk[FileOf(i)].slots)
               f == Len(file[FileOf(i)].slots)
    <3>1. s \in Nat /\ d \in Nat /\ f \in Nat /\ d <= f
      BY <1>4, <2>1, <2>2
    <3>2. Present(disk', i) <=> s <= d
      BY <1>3, <2>1, <2>4 DEF Present
    <3>3. Present(disk, i) <=> s <= d
      BY DEF Present
    <3>4. Present(file', i) <=> s <= f
      BY <1>3, <2>1, <2>4 DEF Present
    <3> HIDE DEF s, d, f
    <3> QED BY <3>1, <3>2, <3>3, <3>4
  <2> QED BY <2>3, <2>4
<1>8. Latest(file') <= Latest(file) /\ Latest(file') \in Nat /\ Latest(file) \in Nat
      /\ Len(LogNow') = Latest(file')
  BY <1>5, BothLogs, KeptTurns
<1>9. SyncedNow' = {i \in SyncedNow : i <= Len(LogNow') /\ LogNow'[i] # Gap}
  <2>1. ASSUME NEW i PROVE i \in SyncedNow' <=> i \in SyncedNow /\ i <= Len(LogNow') /\ LogNow'[i] # Gap
    <3>1. i \in SyncedNow' <=> i \in 1..Latest(file') /\ Present(disk', i)
      BY LogIs DEF SyncedOf
    <3>2. i \in SyncedNow <=> i \in 1..Latest(file) /\ Present(disk, i)
      BY LogIs DEF SyncedOf
    <3>3. i \in 1..Latest(file') <=> i \in 1..Latest(file) /\ i <= Len(LogNow')
      BY <1>8
    <3>4. i \in 1..Latest(file') => ((LogNow'[i] # Gap) <=> Present(file', i))
      BY NextLogFacts
    <3> QED BY <1>7, <3>1, <3>2, <3>3, <3>4
  <2> QED BY <2>1
<1> QED BY <1>1, <1>2, <1>6, <1>9 DEF Log!Erase

\* A power loss takes no turn that was synced.
LEMMA PowerLossLog ==
    ASSUME FilesInv, FilesInv', PowerLoss
    PROVE  Log!Lose
<1>1. todo' = <<>>
  BY DEF PowerLoss
<1>2. disk' = file' /\ \A k \in FileNos : file'[k] \in Survivors(disk[k], file[k])
  BY PowerLossStep
<1>3. ASSUME NEW k \in FileNos
      PROVE  /\ Len(disk[k].slots) <= Len(file'[k].slots) /\ Len(file'[k].slots) <= Len(file[k].slots)
             /\ \A s \in 1..Len(file'[k].slots) : BytesOf(file'[k], s) = BytesOf(file[k], s)
  <2>1. /\ disk[k] \in TurnFile /\ FileOK(disk[k]) /\ file[k] \in TurnFile /\ FileOK(file[k])
        /\ BackedBy(disk[k], file[k])
    BY InvFacts
  <2> QED BY <1>2, <2>1, SurvivorFacts
<1>4. Keeps(file', file)
  BY <1>3 DEF Keeps
<1>5. ASSUME NEW i \in SyncedNow
      PROVE  Present(file', i) /\ i \in 1..Latest(file')
  <2>1. i \in 1..Latest(file) /\ Present(disk, i)
    BY LogIs DEF SyncedOf
  <2>2. i \in Nat \ {0} /\ FileOf(i) \in FileNos /\ SlotOf(i) \in 1..SlotsPerFile
    BY <2>1, BothLogs, ReadFacts
  <2> DEFINE s == SlotOf(i)
             d == Len(disk[FileOf(i)].slots)
             g == Len(file'[FileOf(i)].slots)
  <2>3. s \in Nat /\ d \in Nat /\ g \in Nat /\ s <= d /\ d <= g
    BY <1>3, <2>1, <2>2, InvFacts, BothLogs, FileFields, FilesAssumption DEF Present
  <2>4. s <= g
    <3> HIDE DEF s, d, g
    <3> QED BY <2>3
  <2>5. i <= Latest(file') /\ Latest(file') \in Nat
    BY <2>2, <2>4, BothLogs, UsedIsOld
  <2> QED BY <2>2, <2>4, <2>5 DEF Present
<1>6. LogNow' \in Log!Reduced(SyncedNow)
  BY <1>4, <1>5, LogReduced
<1>7. Len(LogNow') = Latest(file')
  BY BothLogs
<1>8. SyncedNow \subseteq 1..Len(LogNow')
  BY <1>5, <1>7
<1>9. SyncedNow' = {i \in 1..Len(LogNow') : LogNow'[i] # Gap}
  BY <1>2, <1>7, NextLogFacts, LogIs DEF SyncedOf
<1> QED BY <1>1, <1>6, <1>8, <1>9 DEF Log!Lose

-----------------------------------------------------------------------------

LEMMA LogStep == FilesInv /\ FilesInv' /\ [Next]_vars => [Log!Next]_(Log!vars)
<1> SUFFICES ASSUME FilesInv, FilesInv', [Next]_vars
             PROVE  Log!Next \/ UNCHANGED Log!vars
  OBVIOUS
<1>1. CASE \E contents \in Batches : WriteTurns(contents)
  BY <1>1, WriteTurnsLog DEF Log!Next
<1>2. CASE OpenFile \/ InitHeader \/ WriteBody
  BY <1>2, PrepareLog DEF Log!vars
<1>3. CASE SyncBody
  BY <1>3, SyncBodyLog DEF Log!vars, Log!Next
<1>4. CASE WriteSlot
  BY <1>4, WriteSlotLog DEF Log!Next
<1>5. CASE SyncSlot
  BY <1>5, SyncSlotLog DEF Log!Next
<1>6. CASE Fails \/ Killed
  BY <1>6, AbandonLog DEF Log!Next
<1>7. CASE DeleteTurns \/ DeleteEnds \/ UNCHANGED vars
  BY <1>7, DeleteLog DEF Log!vars
<1>8. CASE \E k \in FileNos : RemoveFile(k)
  BY <1>8, RemoveFileLog DEF Log!Next
<1>9. CASE PowerLoss
  BY <1>9, PowerLossLog DEF Log!Next
<1> QED BY <1>1, <1>2, <1>3, <1>4, <1>5, <1>6, <1>7, <1>8, <1>9 DEF Next

\* The turn files implement the log: whatever fails and whenever the process or the
\* machine stops, turns are appended in the order and with the bytes WriteTurns was
\* given, a turn that was synced goes only in a delete, and a missing one reads as a
\* gap, for every number of slots per file and every set of contents.
THEOREM FilesImplementLog == Spec => ImplementsLog
<1>1. Init => Log!Init
  BY LogInit
<1>2. Spec => []FilesInv
  BY FilesInvAlways
<1>3. FilesInv /\ FilesInv' /\ [Next]_vars => [Log!Next]_(Log!vars)
  BY LogStep
<1> QED BY <1>1, <1>2, <1>3, PTL DEF Spec, ImplementsLog, Log!Spec
=============================================================================
