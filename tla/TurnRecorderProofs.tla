------------------------- MODULE TurnRecorderProofs -------------------------
(***************************************************************************)
(* What TurnRecorder guarantees for every value of its constants.          *)
(***************************************************************************)
EXTENDS TurnRecorder, WellFoundedInduction, SequenceTheorems, TLAPS

-----------------------------------------------------------------------------
(* The prompt state *)

\* Every turn but an open text at the end is finished; indices increase, and the
\* next index follows the last one.
WellFormed(s) ==
    /\ \A i \in 1..Len(s.turns) :
          /\ ~s.turns[i].fin => i = Len(s.turns) /\ s.turns[i].method \in TextMethods
          /\ s.turns[i].idx < s.next
    /\ \A i, j \in 1..Len(s.turns) : i < j => s.turns[i].idx < s.turns[j].idx
    /\ Len(s.turns) > 0 => s.turns[Len(s.turns)].idx + 1 = s.next
    /\ ~s.live => Len(s.turns) = 0

\* All turns of a state are finished.
AllFinished(s) == \A i \in 1..Len(s.turns) : s.turns[i].fin

\* A nonempty set of positions has a least element, the one FirstOf takes.
LEMMA FirstOfFacts ==
    ASSUME NEW S \in SUBSET Nat, S # {}
    PROVE  FirstOf(S) \in S /\ \A j \in S : FirstOf(S) <= j
<1> DEFINE Lt == {p \in Nat \X Nat : p[1] < p[2]}
<1>1. IsWellFoundedOn(Lt, Nat)
  BY NatLessThanWellFounded, Zenon DEF OpToRel
<1>2. PICK i \in S : \A j \in S : ~(<<j, i>> \in Lt)
  BY <1>1, WFMin, Zenon
<1>3. \A j \in S : i <= j
  <2> SUFFICES ASSUME NEW j \in S PROVE i <= j
    OBVIOUS
  <2>1. i \in Nat /\ j \in Nat
    OBVIOUS
  <2>2. ~(j < i)
    <3>1. <<j, i>> \in Nat \X Nat /\ <<j, i>>[1] = j /\ <<j, i>>[2] = i
      BY <2>1
    <3> QED BY <1>2, <3>1
  <2> QED BY <2>1, <2>2
<1> QED BY <1>3 DEF FirstOf

\* A nonempty set of positions of a sequence has a greatest element, the one
\* LastOf takes.
LEMMA LastOfFacts ==
    ASSUME NEW n \in Nat, NEW S \in SUBSET (1..n), S # {}
    PROVE  LastOf(S) \in S /\ \A j \in S : j <= LastOf(S)
<1> DEFINE R == {n - i : i \in S}
<1>1. R \in SUBSET Nat /\ R # {}
  <2>1. \A i \in S : i \in Nat /\ n - i \in Nat
    OBVIOUS
  <2> QED BY <2>1
<1>2. FirstOf(R) \in R /\ \A k \in R : FirstOf(R) <= k
  BY <1>1, FirstOfFacts
<1>3. PICK i \in S : FirstOf(R) = n - i
  BY <1>2
<1>4. \A j \in S : j <= i
  <2> SUFFICES ASSUME NEW j \in S PROVE j <= i
    OBVIOUS
  <2>1. n - j \in R /\ i \in Nat /\ j \in Nat
    OBVIOUS
  <2> HIDE DEF R
  <2>2. n - i <= n - j
    BY <1>2, <1>3, <2>1
  <2> QED BY <2>1, <2>2
<1> QED BY <1>4 DEF LastOf

\* A turn made by NewTurn has the type of a turn and is finished unless it is text.
LEMMA NewTurnType ==
    ASSUME NEW n \in Nat \ {0}, NEW m \in Methods, NEW k \in Tags
    PROVE  /\ NewTurn(n, m, k) \in Turn
           /\ NewTurn(n, m, k).idx = n
           /\ NewTurn(n, m, k).method = m
           /\ NewTurn(n, m, k).fin <=> m \notin TextMethods
BY DEF NewTurn, Turn

\* Sealing one turn changes its finished flag only.
LEMMA SealTurn ==
    ASSUME NEW t \in Turn
    PROVE  /\ [t EXCEPT !.fin = TRUE] \in Turn
           /\ [t EXCEPT !.fin = TRUE].idx = t.idx
           /\ [t EXCEPT !.fin = TRUE].method = t.method
           /\ [t EXCEPT !.fin = TRUE].fin
           /\ ContentOf([t EXCEPT !.fin = TRUE]) = ContentOf(t)
<1>1. [t EXCEPT !.fin = TRUE] \in Turn
  BY DEF Turn
<1>2. [t EXCEPT !.fin = TRUE].idx = t.idx /\ [t EXCEPT !.fin = TRUE].method = t.method
  BY DEF Turn
<1>3. [t EXCEPT !.fin = TRUE].fin
  BY DEF Turn
<1>4. ContentOf([t EXCEPT !.fin = TRUE]) = ContentOf(t)
  BY DEF Turn, ContentOf
<1> QED BY <1>1, <1>2, <1>3, <1>4

\* The last turn of a state, when it has one.
LEMMA LastTurn ==
    ASSUME NEW s \in PromptState
    PROVE  /\ s.turns \in Seq(Turn)
           /\ Len(s.turns) \in Nat
           /\ \A i \in 1..Len(s.turns) : s.turns[i] \in Turn
           /\ Len(s.turns) > 0 => Len(s.turns) \in 1..Len(s.turns)
           /\ s.next \in Nat \ {0} /\ s.live \in BOOLEAN
BY DEF PromptState

\* Sealing keeps every turn in its place and leaves no open text.
LEMMA SealedFacts ==
    ASSUME NEW s \in PromptState, WellFormed(s)
    PROVE  /\ Sealed(s) \in PromptState
           /\ Len(Sealed(s).turns) = Len(s.turns)
           /\ Sealed(s).next = s.next
           /\ Sealed(s).live = s.live
           /\ AllFinished(Sealed(s))
           /\ \A i \in 1..Len(s.turns) :
                 /\ Sealed(s).turns[i].idx = s.turns[i].idx
                 /\ Sealed(s).turns[i].method = s.turns[i].method
                 /\ s.turns[i].fin => Sealed(s).turns[i] = s.turns[i]
           /\ WellFormed(Sealed(s))
<1>0. /\ s.turns \in Seq(Turn) /\ Len(s.turns) \in Nat
      /\ \A i \in 1..Len(s.turns) : s.turns[i] \in Turn
      /\ Len(s.turns) > 0 => Len(s.turns) \in 1..Len(s.turns)
  BY LastTurn
<1>1. CASE HasOpenText(s)
  <2> DEFINE n == Len(s.turns)
             u == [s.turns[n] EXCEPT !.fin = TRUE]
             w == [s.turns EXCEPT ![n] = u]
  <2>1. n \in 1..Len(s.turns) /\ s.turns[n] \in Turn /\ ~s.turns[n].fin
    BY <1>0, <1>1 DEF HasOpenText
  <2>2. u \in Turn /\ u.idx = s.turns[n].idx /\ u.method = s.turns[n].method /\ u.fin
    BY <2>1, SealTurn
  <2> HIDE DEF u
  <2>3. w \in Seq(Turn) /\ Len(w) = n /\ w[n] = u /\ \A i \in 1..n : i # n => w[i] = s.turns[i]
    BY <1>0, <2>1, <2>2
  <2>4. Sealed(s) = [s EXCEPT !.turns = w]
    BY <1>1 DEF Sealed, u
  <2> HIDE DEF w
  <2>5. Sealed(s).turns = w /\ Sealed(s).next = s.next /\ Sealed(s).live = s.live /\ Sealed(s) \in PromptState
    BY <2>3, <2>4 DEF PromptState
  <2>6. \A i \in 1..Len(s.turns) : i # n => s.turns[i].fin
    BY <2>1 DEF WellFormed
  <2>7. \A i \in 1..Len(s.turns) : w[i].fin
    BY <2>2, <2>3, <2>6
  <2>8. \A i \in 1..Len(s.turns) : w[i].idx = s.turns[i].idx /\ w[i].method = s.turns[i].method
    BY <2>2, <2>3
  <2>9. \A i \in 1..Len(s.turns) : s.turns[i].fin => w[i] = s.turns[i]
    BY <2>1, <2>3
  <2>10. AllFinished(Sealed(s))
    BY <2>3, <2>5, <2>7 DEF AllFinished
  <2>11. WellFormed(Sealed(s))
    BY <2>3, <2>5, <2>7, <2>8 DEF WellFormed
  <2> QED BY <2>3, <2>5, <2>8, <2>9, <2>10, <2>11
<1>2. CASE ~HasOpenText(s)
  <2>1. Sealed(s) = s
    BY <1>2 DEF Sealed
  <2>2. AllFinished(s)
    BY <1>0, <1>2 DEF HasOpenText, WellFormed, AllFinished
  <2> QED BY <2>1, <2>2
<1> QED BY <1>1, <1>2

\* updateTurn with the next index appends the turn.
LEMMA UpdateTurnAppends ==
    ASSUME NEW s \in PromptState, WellFormed(s), AllFinished(s), s.live,
           NEW t \in Turn, t.idx = s.next, t.fin \/ t.method \in TextMethods
    PROVE  /\ UpdateTurn(s, t) \in PromptState
           /\ UpdateTurn(s, t).live
           /\ UpdateTurn(s, t).next = s.next + 1
           /\ Len(UpdateTurn(s, t).turns) = Len(s.turns) + 1
           /\ UpdateTurn(s, t).turns[Len(s.turns) + 1] = t
           /\ \A i \in 1..Len(s.turns) : UpdateTurn(s, t).turns[i] = s.turns[i]
           /\ WellFormed(UpdateTurn(s, t))
<1> DEFINE n == Len(s.turns)
           w == Append(s.turns, t)
<1>0. /\ s.turns \in Seq(Turn) /\ n \in Nat /\ s.next \in Nat \ {0}
      /\ \A i \in 1..n : s.turns[i] \in Turn
  BY LastTurn
<1>1. ~\E i \in 1..n : s.turns[i].idx = t.idx
  <2> SUFFICES ASSUME NEW i \in 1..n PROVE s.turns[i].idx # t.idx
    OBVIOUS
  <2>1. s.turns[i].idx < s.next /\ s.turns[i].idx \in Nat
    BY <1>0 DEF WellFormed, Turn
  <2> QED BY <1>0, <2>1
<1>2. MaxOf(s.next, t.idx + 1) = s.next + 1
  BY <1>0 DEF MaxOf
<1>3. UpdateTurn(s, t) = [s EXCEPT !.turns = w, !.next = s.next + 1]
  BY <1>1, <1>2 DEF UpdateTurn
<1>4. /\ w \in Seq(Turn) /\ Len(w) = n + 1 /\ w[n + 1] = t
      /\ \A i \in 1..n : w[i] = s.turns[i]
  BY <1>0
<1> HIDE DEF w
<1>5. /\ UpdateTurn(s, t) \in PromptState /\ UpdateTurn(s, t).turns = w
      /\ UpdateTurn(s, t).next = s.next + 1 /\ UpdateTurn(s, t).live = s.live
  <2> DEFINE m == s.next + 1
  <2>1. m \in Nat \ {0}
    BY <1>0
  <2> HIDE DEF m
  <2>2. UpdateTurn(s, t) = [s EXCEPT !.turns = w, !.next = m]
    BY <1>3 DEF m
  <2>3. UpdateTurn(s, t) \in PromptState
    BY <1>4, <2>1, <2>2 DEF PromptState
  <2>4. UpdateTurn(s, t).turns = w /\ UpdateTurn(s, t).next = m /\ UpdateTurn(s, t).live = s.live
    BY <2>2 DEF PromptState
  <2> QED BY <2>3, <2>4 DEF m
<1>6. \A i \in 1..n : w[i].fin /\ w[i].idx < s.next /\ w[i].idx \in Nat
  BY <1>0, <1>4 DEF AllFinished, WellFormed, Turn
<1>7. \A i \in 1..Len(w) : /\ ~w[i].fin => i = Len(w) /\ w[i].method \in TextMethods
                           /\ w[i].idx < s.next + 1
  <2> SUFFICES ASSUME NEW i \in 1..Len(w)
               PROVE  /\ ~w[i].fin => i = Len(w) /\ w[i].method \in TextMethods
                      /\ w[i].idx < s.next + 1
    OBVIOUS
  <2>1. CASE i \in 1..n
    BY <1>0, <1>6, <2>1
  <2>2. CASE i = n + 1
    BY <1>0, <1>4, <2>2
  <2> QED BY <1>0, <1>4, <2>1, <2>2
<1>8. \A i, j \in 1..Len(w) : i < j => w[i].idx < w[j].idx
  <2> SUFFICES ASSUME NEW i \in 1..Len(w), NEW j \in 1..Len(w), i < j
               PROVE  w[i].idx < w[j].idx
    OBVIOUS
  <2>1. i \in 1..n
    BY <1>0, <1>4
  <2>2. CASE j \in 1..n
    BY <1>4, <2>1, <2>2 DEF WellFormed
  <2>3. CASE j = n + 1
    BY <1>4, <1>6, <2>1, <2>3
  <2> QED BY <1>0, <1>4, <2>2, <2>3
<1>9. WellFormed(UpdateTurn(s, t))
  <2>1. w[Len(w)].idx + 1 = s.next + 1
    BY <1>0, <1>4
  <2> QED BY <1>5, <1>7, <1>8, <2>1 DEF WellFormed
<1> QED BY <1>4, <1>5, <1>9

\* updateTurn with the index of a turn of the state replaces that turn.
LEMMA UpdateTurnReplaces ==
    ASSUME NEW s \in PromptState, WellFormed(s),
           NEW k \in 1..Len(s.turns), NEW t \in Turn, t.idx = s.turns[k].idx,
           t.method = s.turns[k].method, t.fin = s.turns[k].fin
    PROVE  /\ UpdateTurn(s, t) \in PromptState
           /\ UpdateTurn(s, t).live = s.live
           /\ UpdateTurn(s, t).next = s.next
           /\ Len(UpdateTurn(s, t).turns) = Len(s.turns)
           /\ UpdateTurn(s, t).turns[k] = t
           /\ \A i \in 1..Len(s.turns) : i # k => UpdateTurn(s, t).turns[i] = s.turns[i]
           /\ WellFormed(UpdateTurn(s, t))
<1> DEFINE n == Len(s.turns)
           w == [i \in 1..n |-> IF s.turns[i].idx = t.idx THEN t ELSE s.turns[i]]
<1>0. /\ s.turns \in Seq(Turn) /\ n \in Nat /\ s.next \in Nat \ {0}
      /\ \A i \in 1..n : s.turns[i] \in Turn
  BY LastTurn
<1>1. \A i \in 1..n : s.turns[i].idx \in Nat /\ s.turns[i].idx < s.next
  BY <1>0 DEF WellFormed, Turn
<1>2. MaxOf(s.next, t.idx + 1) = s.next
  <2>1. t.idx \in Nat /\ t.idx < s.next
    BY <1>1
  <2> QED BY <1>0, <2>1 DEF MaxOf
<1>3. UpdateTurn(s, t) = [s EXCEPT !.turns = w, !.next = s.next]
  BY <1>2 DEF UpdateTurn
<1>4. \A i \in 1..n : i # k => s.turns[i].idx # t.idx
  <2> SUFFICES ASSUME NEW i \in 1..n, i # k PROVE s.turns[i].idx # s.turns[k].idx
    OBVIOUS
  <2>1. CASE i < k
    BY <1>1, <2>1 DEF WellFormed
  <2>2. CASE k < i
    BY <1>1, <2>2 DEF WellFormed
  <2> QED BY <1>0, <2>1, <2>2
<1>5. /\ w \in Seq(Turn) /\ Len(w) = n /\ w[k] = t
      /\ \A i \in 1..n : i # k => w[i] = s.turns[i]
  BY <1>0, <1>4
<1> HIDE DEF w
<1>6. /\ UpdateTurn(s, t) \in PromptState /\ UpdateTurn(s, t).turns = w
      /\ UpdateTurn(s, t).next = s.next /\ UpdateTurn(s, t).live = s.live
  BY <1>0, <1>3, <1>5 DEF PromptState
<1>7. \A i \in 1..n : /\ w[i].idx = s.turns[i].idx /\ w[i].method = s.turns[i].method
                      /\ w[i].fin = s.turns[i].fin
  BY <1>5
<1>8. WellFormed(UpdateTurn(s, t))
  BY <1>5, <1>6, <1>7 DEF WellFormed
<1> QED BY <1>5, <1>6, <1>8

\* Merging changes the revision only.
LEMMA MergedFacts ==
    ASSUME NEW t \in Turn
    PROVE  /\ Merged(t) \in Turn
           /\ Merged(t).idx = t.idx /\ Merged(t).method = t.method /\ Merged(t).fin = t.fin
<1>1. Merged(t) \in Turn
  BY DEF Merged, Turn
<1>2. Merged(t).idx = t.idx /\ Merged(t).method = t.method
  BY DEF Merged, Turn
<1>3. Merged(t).fin = t.fin
  BY DEF Merged, Turn
<1> QED BY <1>1, <1>2, <1>3

-----------------------------------------------------------------------------
(* What the subscribers hold *)

\* A view v of the published turns follows the state s: the only turn of v that
\* may be open is the last one of s, and the next index of s is above v.
Follows(v, s) ==
    \A t \in v : /\ ~t.fin => Len(s.turns) > 0 /\ t = s.turns[Len(s.turns)]
                 /\ t.idx < s.next

\* The effect of a list of events e on a view v: e is published in an order in
\* which no turn overtakes an open one.
InOrder(v, e) ==
    \A i \in 1..Len(e) :
        \A t \in ViewAfter(v, SubSeq(e, 1, i - 1)) : t.idx < e[i].idx => t.fin

\* What is in a view after some events was there before, or is one of them.
LEMMA ViewAfterFacts ==
    ASSUME NEW v, NEW e, NEW t \in ViewAfter(v, e)
    PROVE  \/ t \in v /\ \A i \in 1..Len(e) : e[i].idx # t.idx
           \/ \E i \in 1..Len(e) : t = e[i]
BY DEF ViewAfter

\* A view of turns stays one.
LEMMA ViewAfterType ==
    ASSUME NEW v \in SUBSET Turn, NEW e \in Seq(Turn)
    PROVE  ViewAfter(v, e) \in SUBSET Turn
<1> SUFFICES ASSUME NEW t \in ViewAfter(v, e) PROVE t \in Turn
  OBVIOUS
<1>1. CASE t \in v
  BY <1>1
<1>2. CASE \E i \in 1..Len(e) : t = e[i]
  BY <1>2
<1> QED BY <1>1, <1>2, ViewAfterFacts

\* Publishing nothing changes no view.
LEMMA ViewAfterNothing ==
    ASSUME NEW v
    PROVE  ViewAfter(v, << >>) = v
BY DEF ViewAfter

\* One event is in order when no smaller turn is open.
LEMMA OneInOrder ==
    ASSUME NEW v \in SUBSET Turn, NEW e \in Seq(Turn), Len(e) = 1,
           \A t \in v : t.idx < e[1].idx => t.fin
    PROVE  InOrder(v, e)
<1>1. SubSeq(e, 1, 1 - 1) = << >>
  OBVIOUS
<1>2. ViewAfter(v, SubSeq(e, 1, 1 - 1)) = v
  BY <1>1, ViewAfterNothing
<1>3. \A i \in 1..Len(e) : i = 1
  OBVIOUS
<1> QED BY <1>2, <1>3 DEF InOrder

\* Two events are in order when the first is finished and takes the place of
\* the only turn that may be open.
LEMMA TwoInOrder ==
    ASSUME NEW v \in SUBSET Turn, NEW e \in Seq(Turn), Len(e) = 2,
           \A t \in v : ~t.fin => t.idx = e[1].idx,
           e[1].fin
    PROVE  InOrder(v, e)
<1>1. SubSeq(e, 1, 1 - 1) = << >>
  OBVIOUS
<1>2. Len(SubSeq(e, 1, 2 - 1)) = 1 /\ SubSeq(e, 1, 2 - 1)[1] = e[1]
  OBVIOUS
<1>3. ViewAfter(v, SubSeq(e, 1, 1 - 1)) = v
  BY <1>1, ViewAfterNothing
<1>4. \A t \in ViewAfter(v, SubSeq(e, 1, 2 - 1)) : t.fin
  <2> DEFINE q == SubSeq(e, 1, 2 - 1)
  <2> SUFFICES ASSUME NEW t \in ViewAfter(v, q) PROVE t.fin
    OBVIOUS
  <2> HIDE DEF q
  <2>1. (t \in v /\ \A i \in 1..Len(q) : q[i].idx # t.idx) \/ \E i \in 1..Len(q) : t = q[i]
    BY ViewAfterFacts
  <2>2. (t \in v /\ e[1].idx # t.idx) \/ t = e[1]
    BY <1>2, <2>1 DEF q
  <2> QED BY <2>2
<1>5. \A t \in v : t.idx < e[1].idx => t.fin
  <2> SUFFICES ASSUME NEW t \in v, ~t.fin PROVE ~(t.idx < e[1].idx)
    OBVIOUS
  <2>1. t.idx = e[1].idx /\ t.idx \in Nat
    BY DEF Turn
  <2> QED BY <2>1
<1>6. \A i \in 1..Len(e) : i = 1 \/ i = 2
  OBVIOUS
<1> QED BY <1>3, <1>4, <1>5, <1>6 DEF InOrder

\* No event is in order.
LEMMA NoneInOrder ==
    ASSUME NEW v
    PROVE  InOrder(v, << >>)
BY DEF InOrder

\* What publishOpenTextTurnDone publishes.
LEMMA SealEventsFacts ==
    ASSUME NEW s \in PromptState, WellFormed(s)
    PROVE  /\ SealEvents(s) \in Seq(Turn)
           /\ ~HasOpenText(s) => SealEvents(s) = << >>
           /\ HasOpenText(s) => /\ Len(SealEvents(s)) = 1
                               /\ SealEvents(s)[1].fin
                               /\ SealEvents(s)[1].idx = s.turns[Len(s.turns)].idx
                               /\ SealEvents(s)[1].idx < s.next
<1>1. CASE HasOpenText(s)
  <2> DEFINE n == Len(s.turns)
             u == Sealed(s).turns[n]
  <2>1. n \in 1..Len(s.turns)
    BY <1>1, LastTurn DEF HasOpenText
  <2>2. u \in Turn /\ u.fin /\ u.idx = s.turns[n].idx
    <3>1. /\ Sealed(s) \in PromptState /\ Len(Sealed(s).turns) = n /\ AllFinished(Sealed(s))
          /\ u.idx = s.turns[n].idx
      BY <2>1, SealedFacts
    <3> QED BY <2>1, <3>1, LastTurn DEF AllFinished
  <2>3. s.turns[n].idx < s.next
    BY <2>1 DEF WellFormed
  <2>4. SealEvents(s) = <<u>>
    BY <1>1 DEF SealEvents
  <2> HIDE DEF u
  <2>5. <<u>> \in Seq(Turn) /\ Len(<<u>>) = 1 /\ <<u>>[1] = u
    BY <2>2
  <2> QED BY <1>1, <2>2, <2>3, <2>4, <2>5
<1>2. CASE ~HasOpenText(s)
  BY <1>2 DEF SealEvents
<1> QED BY <1>1, <1>2

\* A state that grew by one turn is followed by the view that took the seal of
\* the old state and, perhaps, the new turn.
LEMMA FollowsAppend ==
    ASSUME NEW s \in PromptState, WellFormed(s), NEW v \in SUBSET Turn, Follows(v, s),
           NEW r \in PromptState, NEW e \in Seq(Turn),
           r.next = s.next + 1, Len(r.turns) = Len(s.turns) + 1,
           r.turns[Len(s.turns) + 1].idx = s.next,
           \A i \in 1..Len(e) : \/ e[i] = r.turns[Len(s.turns) + 1]
                                \/ e[i].fin /\ e[i].idx < s.next,
           HasOpenText(s) => \E i \in 1..Len(e) : e[i].idx = s.turns[Len(s.turns)].idx
    PROVE  Follows(ViewAfter(v, e), r)
<1> SUFFICES ASSUME NEW t \in ViewAfter(v, e)
             PROVE  /\ ~t.fin => Len(r.turns) > 0 /\ t = r.turns[Len(r.turns)]
                    /\ t.idx < r.next
  BY DEF Follows
<1>0. /\ s.next \in Nat /\ Len(s.turns) \in Nat /\ t \in Turn /\ t.idx \in Nat
      /\ Len(s.turns) > 0 => Len(s.turns) \in 1..Len(s.turns)
  <2>1. t \in Turn
    BY ViewAfterType
  <2>2. t.idx \in Nat
    BY <2>1 DEF Turn
  <2> QED BY <2>1, <2>2, LastTurn
<1>1. CASE t \in v /\ \A i \in 1..Len(e) : e[i].idx # t.idx
  <2>1. t.idx < s.next /\ (~t.fin => Len(s.turns) > 0 /\ t = s.turns[Len(s.turns)])
    BY <1>1 DEF Follows
  <2>2. t.fin
    <3> SUFFICES ASSUME ~t.fin PROVE FALSE
      OBVIOUS
    <3>1. Len(s.turns) \in 1..Len(s.turns) /\ t = s.turns[Len(s.turns)]
      BY <1>0, <2>1
    <3>2. HasOpenText(s)
      BY <1>0, <2>1, <3>1 DEF HasOpenText, WellFormed
    <3> QED BY <1>1, <3>1, <3>2
  <2> QED BY <1>0, <2>1, <2>2
<1>2. CASE \E i \in 1..Len(e) : t = e[i]
  <2>1. \/ t = r.turns[Len(s.turns) + 1]
        \/ t.fin /\ t.idx < s.next
    BY <1>2
  <2> QED BY <1>0, <2>1
<1> QED BY <1>1, <1>2, ViewAfterFacts

\* Sealing the open text and appending a turn with the next index: the state,
\* and the two events in order.
LEMMA SealAndAppend ==
    ASSUME NEW s \in PromptState, WellFormed(s), s.live,
           NEW t \in Turn, t.idx = s.next, t.fin \/ t.method \in TextMethods
    PROVE  /\ UpdateTurn(Sealed(s), t) \in PromptState
           /\ WellFormed(UpdateTurn(Sealed(s), t))
           /\ UpdateTurn(Sealed(s), t).live
           /\ UpdateTurn(Sealed(s), t).next = s.next + 1
           /\ Len(UpdateTurn(Sealed(s), t).turns) = Len(s.turns) + 1
           /\ UpdateTurn(Sealed(s), t).turns[Len(s.turns) + 1] = t
           /\ SealEvents(s) \o <<t>> \in Seq(Turn)
           /\ \A v \in SUBSET Turn : Follows(v, s) =>
                 /\ Follows(ViewAfter(v, SealEvents(s)), UpdateTurn(Sealed(s), t))
                 /\ InOrder(v, SealEvents(s))
                 /\ Follows(ViewAfter(v, SealEvents(s) \o <<t>>), UpdateTurn(Sealed(s), t))
                 /\ InOrder(v, SealEvents(s) \o <<t>>)
<1> DEFINE z == Sealed(s)
           r == UpdateTurn(z, t)
           n == Len(s.turns)
           d == SealEvents(s)
           e == SealEvents(s) \o <<t>>
<1>1. z \in PromptState /\ WellFormed(z) /\ AllFinished(z) /\ z.live /\ z.next = s.next /\ Len(z.turns) = n
  BY SealedFacts
<1> HIDE DEF z
<1>2. /\ r \in PromptState /\ WellFormed(r) /\ r.live /\ r.next = s.next + 1
      /\ Len(r.turns) = n + 1 /\ r.turns[n + 1] = t
  BY <1>1, UpdateTurnAppends
<1> HIDE DEF r
<1>3. /\ d \in Seq(Turn)
      /\ ~HasOpenText(s) => d = << >>
      /\ HasOpenText(s) => /\ Len(d) = 1 /\ d[1].fin /\ d[1].idx = s.turns[n].idx
                          /\ d[1].idx < s.next
  BY SealEventsFacts
<1>4. /\ e \in Seq(Turn)
      /\ ~HasOpenText(s) => Len(e) = 1 /\ e[1] = t
      /\ HasOpenText(s) => Len(e) = 2 /\ e[1] = d[1] /\ e[2] = t
  <2>1. d \in Seq(Turn) /\ <<t>> \in Seq(Turn) /\ Len(<<t>>) = 1 /\ <<t>>[1] = t /\ e = d \o <<t>>
    BY <1>3
  <2> HIDE DEF d, e
  <2>2. CASE HasOpenText(s)
    <3>1. Len(d) = 1
      BY <1>3, <2>2
    <3> QED BY <2>1, <2>2, <3>1
  <2>3. CASE ~HasOpenText(s)
    <3>1. Len(d) = 0
      BY <1>3, <2>3
    <3> QED BY <2>1, <2>3, <3>1
  <2> QED BY <2>2, <2>3
<1> HIDE DEF d, e
<1>5. ASSUME NEW v \in SUBSET Turn, Follows(v, s)
      PROVE  /\ Follows(ViewAfter(v, d), r) /\ InOrder(v, d)
             /\ Follows(ViewAfter(v, e), r) /\ InOrder(v, e)
  <2>1. \A u \in v : ~u.fin => HasOpenText(s) /\ u = s.turns[n]
    <3> SUFFICES ASSUME NEW u \in v, ~u.fin PROVE HasOpenText(s) /\ u = s.turns[n]
      OBVIOUS
    <3>1. n > 0 /\ u = s.turns[n]
      BY <1>5 DEF Follows
    <3>2. n \in 1..n
      BY <3>1, LastTurn
    <3> QED BY <3>1, <3>2 DEF HasOpenText, WellFormed
  <2>2. /\ r \in PromptState /\ r.next = s.next + 1 /\ Len(r.turns) = Len(s.turns) + 1
        /\ r.turns[Len(s.turns) + 1] = t /\ r.turns[Len(s.turns) + 1].idx = s.next
    BY <1>2
  <2>3. CASE HasOpenText(s)
    <3>1. /\ Len(d) = 1 /\ d[1].fin /\ d[1].idx = s.turns[Len(s.turns)].idx /\ d[1].idx < s.next
          /\ d \in Seq(Turn)
      BY <1>3, <2>3
    <3>2. Len(e) = 2 /\ e[1] = d[1] /\ e[2] = t /\ e \in Seq(Turn)
      BY <1>4, <2>3
    <3>3. Follows(ViewAfter(v, d), r)
      <4>1. \A i \in 1..Len(d) : d[i].fin /\ d[i].idx < s.next
        BY <3>1
      <4>2. \E i \in 1..Len(d) : d[i].idx = s.turns[Len(s.turns)].idx
        BY <3>1
      <4> QED BY <1>5, <2>2, <3>1, <4>1, <4>2, FollowsAppend
    <3>4. Follows(ViewAfter(v, e), r)
      <4>1. \A i \in 1..Len(e) : e[i] = r.turns[Len(s.turns) + 1] \/ (e[i].fin /\ e[i].idx < s.next)
        BY <2>2, <3>1, <3>2
      <4>2. \E i \in 1..Len(e) : e[i].idx = s.turns[Len(s.turns)].idx
        BY <3>1, <3>2
      <4> QED BY <1>5, <2>2, <3>2, <4>1, <4>2, FollowsAppend
    <3>5. \A u \in v : ~u.fin => u.idx = d[1].idx
      BY <2>1, <3>1
    <3>6. \A u \in v : u.idx < d[1].idx => u.fin
      <4> SUFFICES ASSUME NEW u \in v, ~u.fin PROVE ~(u.idx < d[1].idx)
        OBVIOUS
      <4>1. u.idx = d[1].idx /\ u.idx \in Nat
        BY <3>5 DEF Turn
      <4> QED BY <4>1
    <3>7. InOrder(v, d)
      BY <3>1, <3>6, OneInOrder
    <3>8. InOrder(v, e)
      <4>1. e[1].fin /\ \A u \in v : ~u.fin => u.idx = e[1].idx
        BY <3>1, <3>2, <3>5
      <4> QED BY <3>2, <4>1, TwoInOrder
    <3> QED BY <3>3, <3>4, <3>7, <3>8
  <2>4. CASE ~HasOpenText(s)
    <3>1. d = << >>
      BY <1>3, <2>4
    <3>2. Len(d) = 0 /\ d \in Seq(Turn)
      BY <3>1
    <3>3. Len(e) = 1 /\ e[1] = t /\ e \in Seq(Turn)
      BY <1>4, <2>4
    <3>4. Follows(ViewAfter(v, d), r)
      <4>1. \A i \in 1..Len(d) : d[i].fin /\ d[i].idx < s.next
        BY <3>2
      <4> QED BY <1>5, <2>2, <2>4, <3>2, <4>1, FollowsAppend
    <3>5. Follows(ViewAfter(v, e), r)
      <4>1. \A i \in 1..Len(e) : e[i] = r.turns[Len(s.turns) + 1] \/ (e[i].fin /\ e[i].idx < s.next)
        BY <2>2, <3>3
      <4> QED BY <1>5, <2>2, <2>4, <3>3, <4>1, FollowsAppend
    <3>6. InOrder(v, d)
      BY <3>1, NoneInOrder
    <3>7. \A u \in v : u.fin
      BY <2>1, <2>4
    <3>8. InOrder(v, e)
      BY <3>3, <3>7, OneInOrder
    <3> QED BY <3>4, <3>5, <3>6, <3>8
  <2> QED BY <2>3, <2>4
<1> QED BY <1>2, <1>4, <1>5 DEF z, r, d, e

\* addMessageTurn keeps a state well formed, and publishes in order turns that
\* the new state follows.
LEMMA AddMessageTurnFacts ==
    ASSUME NEW s \in PromptState, WellFormed(s), s.live, NEW m \in Methods, NEW k \in Tags
    PROVE  /\ AddMessageTurn(s, m, k) \in PromptState
           /\ WellFormed(AddMessageTurn(s, m, k))
           /\ AddMessageTurn(s, m, k).live
           /\ Len(AddMessageTurn(s, m, k).turns) > 0
           /\ AddEvents(s, m, k) \in Seq(Turn)
           /\ \A v \in SUBSET Turn : Follows(v, s) =>
                 /\ Follows(ViewAfter(v, AddEvents(s, m, k)), AddMessageTurn(s, m, k))
                 /\ InOrder(v, AddEvents(s, m, k))
<1> DEFINE T == MergeTargets(s, m, k)
           r == AddMessageTurn(s, m, k)
           e == AddEvents(s, m, k)
<1>0. /\ s.turns \in Seq(Turn) /\ Len(s.turns) \in Nat /\ s.next \in Nat \ {0}
      /\ \A i \in 1..Len(s.turns) : s.turns[i] \in Turn
  BY LastTurn
<1>1. CASE T = {}
  <2> DEFINE t == NewTurn(s.next, m, k)
  <2>1. t \in Turn /\ t.idx = s.next /\ (t.fin \/ t.method \in TextMethods)
    BY <1>0, NewTurnType
  <2>2. r = UpdateTurn(Sealed(s), t) /\ e = SealEvents(s) \o <<t>>
    BY <1>1 DEF AddMessageTurn, AddEvents
  <2> HIDE DEF t, r, e
  <2>3. /\ r \in PromptState /\ WellFormed(r) /\ r.live /\ Len(r.turns) = Len(s.turns) + 1
        /\ e \in Seq(Turn)
        /\ \A v \in SUBSET Turn : Follows(v, s) => Follows(ViewAfter(v, e), r) /\ InOrder(v, e)
    BY <2>1, <2>2, SealAndAppend
  <2> QED BY <1>0, <2>3 DEF r, e
<1>2. CASE T # {}
  <2> DEFINE i == FirstOf(T)
             t == Merged(s.turns[i])
  <2>1. i \in 1..Len(s.turns) /\ s.turns[i].method = m /\ (m \in TextMethods => i = Len(s.turns))
    <3>1. T \in SUBSET Nat
      BY DEF MergeTargets
    <3>2. i \in T
      BY <1>2, <3>1, FirstOfFacts
    <3> QED BY <3>2 DEF MergeTargets, TextMethods
  <2>2. /\ t \in Turn /\ t.idx = s.turns[i].idx /\ t.method = s.turns[i].method
        /\ t.fin = s.turns[i].fin
    BY <1>0, <2>1, MergedFacts
  <2>3. r = UpdateTurn(s, t) /\ e = <<t>>
    BY <1>2 DEF AddMessageTurn, AddEvents
  <2> HIDE DEF i, t, r, e, T
  <2>4. /\ r \in PromptState /\ WellFormed(r) /\ r.live = s.live /\ r.next = s.next
        /\ Len(r.turns) = Len(s.turns) /\ r.turns[i] = t
        /\ \A j \in 1..Len(s.turns) : j # i => r.turns[j] = s.turns[j]
    <3>1. i \in 1..Len(s.turns)
      BY <2>1
    <3>2. /\ UpdateTurn(s, t) \in PromptState
          /\ UpdateTurn(s, t).live = s.live
          /\ UpdateTurn(s, t).next = s.next
          /\ Len(UpdateTurn(s, t).turns) = Len(s.turns)
          /\ UpdateTurn(s, t).turns[i] = t
          /\ \A j \in 1..Len(s.turns) : j # i => UpdateTurn(s, t).turns[j] = s.turns[j]
          /\ WellFormed(UpdateTurn(s, t))
      BY <2>2, <3>1, UpdateTurnReplaces, Zenon
    <3> QED BY <2>3, <3>2
  <2>5. e \in Seq(Turn) /\ Len(e) = 1 /\ e[1] = t
    BY <2>2, <2>3
  <2>6. ASSUME NEW v \in SUBSET Turn, Follows(v, s)
        PROVE  Follows(ViewAfter(v, e), r) /\ InOrder(v, e)
    <3>1. \A u \in v : u.idx < e[1].idx => u.fin
      <4> SUFFICES ASSUME NEW u \in v, ~u.fin PROVE ~(u.idx < e[1].idx)
        OBVIOUS
      <4>1. Len(s.turns) > 0 /\ u = s.turns[Len(s.turns)]
        BY <2>6 DEF Follows
      <4>2. i <= Len(s.turns) /\ Len(s.turns) \in 1..Len(s.turns) /\ i \in 1..Len(s.turns)
        BY <1>0, <2>1, <4>1
      <4>3. i = Len(s.turns) \/ s.turns[i].idx < u.idx
        BY <4>1, <4>2 DEF WellFormed
      <4>4. s.turns[i].idx \in Nat /\ u.idx \in Nat
        BY <1>0, <4>1, <4>2 DEF Turn
      <4> QED BY <2>2, <2>5, <4>1, <4>3, <4>4
    <3>2. InOrder(v, e)
      BY <2>5, <3>1, OneInOrder
    <3>3. Follows(ViewAfter(v, e), r)
      <4> SUFFICES ASSUME NEW u \in ViewAfter(v, e)
                   PROVE  /\ ~u.fin => Len(r.turns) > 0 /\ u = r.turns[Len(r.turns)]
                          /\ u.idx < r.next
        BY DEF Follows
      <4>1. (u \in v /\ \A j \in 1..Len(e) : e[j].idx # u.idx) \/ \E j \in 1..Len(e) : u = e[j]
        BY ViewAfterFacts
      <4>2. (u \in v /\ t.idx # u.idx) \/ u = t
        BY <2>5, <4>1
      <4>3. CASE u \in v /\ t.idx # u.idx
        <5>1. u.idx < s.next /\ (~u.fin => Len(s.turns) > 0 /\ u = s.turns[Len(s.turns)])
          BY <2>6, <4>3 DEF Follows
        <5>2. ~u.fin => Len(s.turns) \in 1..Len(s.turns) /\ Len(s.turns) # i
          BY <1>0, <2>2, <4>3, <5>1
        <5> QED BY <2>4, <5>1, <5>2
      <4>4. CASE u = t
        <5>1. s.turns[i].idx < s.next
          BY <2>1 DEF WellFormed
        <5>2. ~u.fin => i = Len(s.turns)
          BY <2>1, <2>2, <4>4 DEF WellFormed
        <5> QED BY <1>0, <2>1, <2>2, <2>4, <4>4, <5>1, <5>2
      <4> QED BY <4>2, <4>3, <4>4
    <3> QED BY <3>2, <3>3
  <2> QED BY <1>0, <2>1, <2>4, <2>5, <2>6 DEF r, e
<1> QED BY <1>1, <1>2

\* The state finishPromptStateLocked persists, and the seal it publishes.
Finished(s, reason) ==
    IF Terminal(s) THEN s ELSE UpdateTurn(Sealed(s), NewTurn(s.next, "done", reason))

\* finishPromptStateLocked ends in a well formed terminal state; its seal is in
\* order.
LEMMA FinishedFacts ==
    ASSUME NEW s \in PromptState, WellFormed(s), s.live, NEW reason \in StopReasons
    PROVE  /\ Finished(s, reason) \in PromptState
           /\ WellFormed(Finished(s, reason))
           /\ Len(Finished(s, reason).turns) > 0
           /\ Terminal(Finished(s, reason))
           /\ SealEvents(s) \in Seq(Turn)
           /\ \A v \in SUBSET Turn : Follows(v, s) =>
                 /\ Follows(ViewAfter(v, SealEvents(s)), Finished(s, reason))
                 /\ InOrder(v, SealEvents(s))
<1> DEFINE r == Finished(s, reason)
<1>0. Len(s.turns) \in Nat /\ s.next \in Nat \ {0}
  BY LastTurn
<1>1. CASE Terminal(s)
  <2>1. r = s
    BY <1>1 DEF Finished
  <2>2. ~HasOpenText(s) /\ Len(s.turns) > 0
    BY <1>1 DEF Terminal, HasOpenText, TextMethods
  <2>3. SealEvents(s) = << >> /\ SealEvents(s) \in Seq(Turn)
    BY <2>2 DEF SealEvents
  <2> QED BY <1>1, <2>1, <2>2, <2>3, ViewAfterNothing, NoneInOrder
<1>2. CASE ~Terminal(s)
  <2> DEFINE t == NewTurn(s.next, "done", reason)
  <2>1. t \in Turn /\ t.idx = s.next /\ t.fin /\ t.method = "done"
    <3>1. "done" \in Methods /\ reason \in Tags /\ "done" \notin TextMethods
      BY DEF Methods, Tags, TextMethods
    <3> QED BY <1>0, <3>1, NewTurnType
  <2>2. r = UpdateTurn(Sealed(s), t)
    BY <1>2 DEF Finished
  <2> HIDE DEF t, r
  <2>3. /\ r \in PromptState /\ WellFormed(r) /\ Len(r.turns) = Len(s.turns) + 1
        /\ r.turns[Len(s.turns) + 1] = t
        /\ \A v \in SUBSET Turn : Follows(v, s) =>
              Follows(ViewAfter(v, SealEvents(s)), r) /\ InOrder(v, SealEvents(s))
    BY <2>1, <2>2, SealAndAppend
  <2>4. Terminal(r) /\ Len(r.turns) > 0
    BY <1>0, <2>1, <2>3 DEF Terminal
  <2>5. SealEvents(s) \in Seq(Turn)
    BY SealEventsFacts
  <2> QED BY <2>3, <2>4, <2>5 DEF r
<1> QED BY <1>1, <1>2

-----------------------------------------------------------------------------
(* Types of the other operators *)

\* The row keeps its type under every update the code makes.
LEMMA RowTypes ==
    ASSUME NEW r \in Row, NEW n \in Nat
    PROVE  /\ [r EXCEPT !.latest = n] \in Row
           /\ [r EXCEPT !.latest = @ + 1] \in Row
           /\ [r EXCEPT !.latest = @ + 1].latest = r.latest + 1
           /\ [r EXCEPT !.read = n] \in Row
           /\ [r EXCEPT !.renamed = TRUE] \in Row
           /\ r.latest \in Nat /\ r.done \in Nat /\ r.read \in Nat
           /\ ReadCursor(r, n) \in Nat
           /\ NewRow \in Row
<1>1. r.latest \in Nat /\ r.done \in Nat /\ r.read \in Nat /\ NewRow \in Row
  BY DEF Row, NewRow
<1>2. [r EXCEPT !.latest = n] \in Row /\ [r EXCEPT !.read = n] \in Row
  BY DEF Row
<1>3. [r EXCEPT !.renamed = TRUE] \in Row
  BY DEF Row
<1>4. [r EXCEPT !.latest = @ + 1] \in Row /\ [r EXCEPT !.latest = @ + 1].latest = r.latest + 1
  BY DEF Row
<1>5. ReadCursor(r, n) \in Nat
  BY <1>1 DEF ReadCursor, MaxOf
<1> QED BY <1>1, <1>2, <1>3, <1>4, <1>5

\* What is left to persist is a sequence of turns.
LEMMA UnpersistedType ==
    ASSUME NEW s \in PromptState
    PROVE  Unpersisted(s) \in Seq(Turn)
<1> DEFINE F == {i \in 1..Len(s.turns) : s.turns[i].idx > row.latest}
<1>0. s.turns \in Seq(Turn) /\ Len(s.turns) \in Nat
  BY LastTurn
<1>1. CASE F = {}
  BY <1>1 DEF Unpersisted
<1>2. CASE F # {}
  <2>1. F \in SUBSET Nat
    OBVIOUS
  <2>2. FirstOf(F) \in F
    BY <1>2, <2>1, FirstOfFacts
  <2>3. FirstOf(F) \in 1..Len(s.turns)
    BY <2>2
  <2>4. Unpersisted(s) = SubSeq(s.turns, FirstOf(F), Len(s.turns))
    BY <1>2 DEF Unpersisted
  <2> HIDE DEF F
  <2> QED BY <1>0, <2>3, <2>4
<1> QED BY <1>1, <1>2

\* persistSessionStateTurnsLocked computes a row.
LEMMA ProjectedType ==
    ASSUME row \in Row, NEW w \in Seq(Turn), Len(w) > 0
    PROVE  Projected(w) \in Row
<1> DEFINE M == DoneTurns(w)
           n == w[Len(w)].idx
           base == [row EXCEPT !.latest = n]
<1>1. w[Len(w)] \in Turn
  OBVIOUS
<1>2. n \in Nat
  BY <1>1 DEF Turn
<1> HIDE DEF n
<1>3. base \in Row
  BY <1>2, RowTypes
<1>4. CASE M = {}
  BY <1>3, <1>4 DEF Projected, n
<1>5. CASE M # {}
  <2>1. M \in SUBSET (1..Len(w)) /\ Len(w) \in Nat
    BY DEF DoneTurns
  <2>2. LastOf(M) \in 1..Len(w)
    BY <1>5, <2>1, LastOfFacts
  <2>3. w[LastOf(M)] \in Turn
    BY <2>2
  <2> DEFINE d == w[LastOf(M)].idx
             k == w[LastOf(M)].tag # "failed"
  <2>4. d \in Nat /\ k \in BOOLEAN
    BY <2>3 DEF Turn
  <2>5. Projected(w) = [base EXCEPT !.done = d, !.ok = k]
    BY <1>5 DEF Projected, n
  <2> HIDE DEF d, k, base
  <2> QED BY <1>3, <2>4, <2>5 DEF Row
<1> QED BY <1>4, <1>5

\* ReadSessionTurns answers with a set of slots.
LEMMA ReadResultType ==
    ASSUME state \in PromptState, NEW r \in Row, NEW n \in Nat
    PROVE  ReadResult(r, n) \in SUBSET Slot
<1>0. /\ r.latest \in Nat /\ Len(state.turns) \in Nat
      /\ \A i \in 1..Len(state.turns) : state.turns[i] \in Turn
  BY LastTurn, RowTypes
<1>1. \A i \in (n + 1)..r.latest : [idx |-> i, fin |-> TRUE] \in Slot
  BY <1>0 DEF Slot
<1>2. \A i \in 1..Len(state.turns) :
         [idx |-> state.turns[i].idx, fin |-> state.turns[i].fin] \in Slot
  BY <1>0 DEF Slot, Turn
<1> QED BY <1>1, <1>2 DEF ReadResult

\* What the files hold up to latestPersistedTurnIndex are turns.
LEMMA PersistedType ==
    ASSUME files \in Seq(Contents), row \in Row
    PROVE  Persisted \in SUBSET Turn
<1>1. \A i \in 1..Len(files) :
         [idx |-> i, method |-> files[i].method, tag |-> files[i].tag,
          rev |-> files[i].rev, fin |-> TRUE] \in Turn
  <2> TAKE i \in 1..Len(files)
  <2>1. files[i] \in Contents /\ i \in Nat \ {0}
    OBVIOUS
  <2>2. files[i].method \in Methods /\ files[i].tag \in Tags /\ files[i].rev \in Nat
    BY <2>1 DEF Contents
  <2> QED BY <2>1, <2>2 DEF Turn
<1> QED BY <1>1 DEF Persisted

\* The unlocked calls keep their type.
LEMMA CallTypes ==
    ASSUME NEW f \in [Clients -> Call], NEW c \in Clients, NEW r \in Row, NEW n \in Nat,
           NEW g \in SUBSET Slot
    PROVE  /\ [f EXCEPT ![c] = NoCall] \in [Clients -> Call]
           /\ [f EXCEPT ![c] = [NoCall EXCEPT !.op = "mark", !.rec = r, !.arg = n]] \in [Clients -> Call]
           /\ [f EXCEPT ![c] = [NoCall EXCEPT !.op = "read", !.rec = r, !.arg = n]] \in [Clients -> Call]
           /\ [f EXCEPT ![c] = [NoCall EXCEPT !.op = "rename", !.rec = r]] \in [Clients -> Call]
           /\ [f EXCEPT ![c].op = "answered", ![c].got = g] \in [Clients -> Call]
           /\ f[c].rec \in Row /\ f[c].arg \in Nat
           /\ NoCall \in Call
<1>1. NoCall \in Call
  BY DEF NoCall, Call, NewRow, Row, Slot
<1>2. f[c] \in Call
  OBVIOUS
<1>3. [f[c] EXCEPT !.op = "answered", !.got = g] \in Call /\ f[c].rec \in Row /\ f[c].arg \in Nat
  BY <1>2 DEF Call
<1>4. [NoCall EXCEPT !.op = "mark", !.rec = r, !.arg = n] \in Call
  BY <1>1 DEF Call
<1>5. [NoCall EXCEPT !.op = "read", !.rec = r, !.arg = n] \in Call
  BY <1>1 DEF Call
<1>6. [NoCall EXCEPT !.op = "rename", !.rec = r] \in Call
  BY <1>1 DEF Call
<1>7. [f EXCEPT ![c].op = "answered", ![c].got = g]
        = [f EXCEPT ![c] = [f[c] EXCEPT !.op = "answered", !.got = g]]
  OBVIOUS
<1>8. \A x \in Call : [f EXCEPT ![c] = x] \in [Clients -> Call]
  OBVIOUS
<1> QED BY <1>1, <1>3, <1>4, <1>5, <1>6, <1>7, <1>8

-----------------------------------------------------------------------------
(* Type correctness *)

\* The handler that holds writeMu is always in the middle of something it can
\* do: a finish persists a state that ends in prompt_done, an operation belongs
\* to a compaction, and a compaction in progress is counted in activeOperations.
LockShape ==
    /\ (pc = "free") <=> (task.kind = "none")
    /\ task.publishDone => task.kind \in {"finish", "interrupt"}
    /\ task.kind \in {"finish", "interrupt"} => Terminal(state)
    /\ pc = "persistLoad" => task.kind \in {"finish", "interrupt"}
    /\ pc \in {"write", "save"} => task.kind \in {"finish", "interrupt", "operation"}
    /\ task.kind = "operation" =>
          pc \in {"write", "save"} /\ rec.latest > 0 /\ exec \in {"compactStart", "compact"}
    /\ exec = "compact" => activeOps > 0

StateShape == WellFormed(state)

CoreInv == TypeOK /\ LockShape /\ StateShape

\* Publishing turns keeps the types of what subscribers see.
LEMMA PublishType ==
    ASSUME view \in SUBSET Turn, NEW e \in Seq(Turn), Publish(e)
    PROVE  view' \in SUBSET Turn /\ out' \in Seq(Turn)
BY ViewAfterType DEF Publish

\* The type of a fresh state, and of none.
LEMMA FreshState ==
    ASSUME NEW n \in Nat
    PROVE  /\ newSessionPromptState(n) \in PromptState
           /\ WellFormed(newSessionPromptState(n))
           /\ newSessionPromptState(n).live
           /\ Len(newSessionPromptState(n).turns) = 0
           /\ newSessionPromptState(n).next = MaxOf(n, 1)
           /\ NoState \in PromptState /\ WellFormed(NoState) /\ Len(NoState.turns) = 0
<1>1. MaxOf(n, 1) \in Nat \ {0} /\ 1 \in Nat \ {0} /\ << >> \in Seq(Turn)
  BY DEF MaxOf
<1>2. newSessionPromptState(n) \in PromptState /\ NoState \in PromptState
  BY <1>1 DEF newSessionPromptState, NoState, PromptState
<1>3. /\ newSessionPromptState(n).live /\ Len(newSessionPromptState(n).turns) = 0
      /\ newSessionPromptState(n).next = MaxOf(n, 1) /\ Len(NoState.turns) = 0
  BY DEF newSessionPromptState, NoState
<1>4. WellFormed(newSessionPromptState(n)) /\ WellFormed(NoState)
  BY <1>3 DEF WellFormed
<1> QED BY <1>2, <1>3, <1>4

\* The initial states satisfy the core invariant.
LEMMA CoreInit ==
    ASSUME Init
    PROVE  CoreInv
<1>1. NewRow \in Row /\ NoTask \in Task /\ NoState \in PromptState /\ NoCall \in Call
      /\ WellFormed(NoState)
  BY FreshState DEF NewRow, Row, NoTask, Task, NoCall, Call, Slot
<1>2. TypeOK
  BY <1>1 DEF Init, TypeOK, Pcs
<1>3. LockShape
  BY DEF Init, LockShape, NoTask
<1>4. StateShape
  BY <1>1 DEF Init, StateShape
<1> QED BY <1>2, <1>3, <1>4 DEF CoreInv

\* The steps that change neither the prompt state nor what is published.
LEMMA CoreQuietStep ==
    ASSUME CoreInv,
           \/ PromptStartLost \/ SessionInfoUpdate \/ PromptFinishedIgnored
           \/ PersistLoad \/ PersistenceGap \/ WriteTurn \/ WriteRefused \/ PersistSave
           \/ UpsertLoad \/ UpsertSave \/ StoreFails \/ OperationStarted \/ OperationEnded
    PROVE  CoreInv'
<1>0. /\ TypeOK /\ LockShape /\ StateShape
      /\ NewRow \in Row /\ << >> \in Seq(Turn) /\ NoTask \in Task
      /\ NoTask.kind = "none" /\ NoTask.publishDone = FALSE
      /\ view \in SUBSET Turn
  BY RowTypes DEF CoreInv, TypeOK, NewRow, Row, NoTask, Task
<1>1. CASE PromptStartLost
  <2>1. TypeOK'
    BY <1>0, <1>1 DEF TypeOK, LockShape, Pcs, Task, PublishNothing, lockVars, budget, PromptStartLost
  <2>2. LockShape'
    BY <1>0, <1>1 DEF TypeOK, LockShape, Pcs, Task, PublishNothing, lockVars, budget, PromptStartLost
  <2>3. StateShape'
    BY <1>0, <1>1 DEF StateShape, PromptStartLost, lockVars, budget
  <2> QED BY <2>1, <2>2, <2>3 DEF CoreInv
<1>2. CASE SessionInfoUpdate
  <2>1. TypeOK'
    BY <1>0, <1>2 DEF TypeOK, LockShape, Pcs, Task, PublishNothing, lockVars, budget, SessionInfoUpdate, Take
  <2>2. LockShape'
    BY <1>0, <1>2 DEF TypeOK, LockShape, Pcs, Task, PublishNothing, lockVars, budget, SessionInfoUpdate, Take
  <2>3. StateShape'
    BY <1>0, <1>2 DEF StateShape, SessionInfoUpdate, lockVars, budget
  <2> QED BY <2>1, <2>2, <2>3 DEF CoreInv
<1>3. CASE PromptFinishedIgnored
  <2>1. TypeOK'
    BY <1>0, <1>3 DEF TypeOK, LockShape, Pcs, Task, PublishNothing, lockVars, budget, PromptFinishedIgnored
  <2>2. LockShape'
    BY <1>0, <1>3 DEF TypeOK, LockShape, Pcs, Task, PublishNothing, lockVars, budget, PromptFinishedIgnored
  <2>3. StateShape'
    BY <1>0, <1>3 DEF StateShape, PromptFinishedIgnored, lockVars, budget
  <2> QED BY <2>1, <2>2, <2>3 DEF CoreInv
<1>4. CASE PersistLoad
  <2>0. Unpersisted(state) \in Seq(Turn) /\ (Len(Unpersisted(state)) > 0 => Projected(Unpersisted(state)) \in Row)
    BY <1>0, UnpersistedType, ProjectedType DEF TypeOK
  <2>1. TypeOK'
    BY <1>0, <1>4, <2>0 DEF TypeOK, LockShape, Pcs, Task, PublishNothing, lockVars, budget, PersistLoad
  <2>2. LockShape'
    BY <1>0, <1>4 DEF TypeOK, LockShape, Pcs, Task, PublishNothing, lockVars, budget, PersistLoad
  <2>3. StateShape'
    BY <1>0, <1>4 DEF StateShape, PersistLoad, lockVars, budget
  <2> QED BY <2>1, <2>2, <2>3 DEF CoreInv
<1>5. CASE PersistenceGap
  <2>1. TypeOK'
    BY <1>0, <1>5 DEF TypeOK, LockShape, Pcs, Task, PublishNothing, lockVars, budget, PersistenceGap, Release, ExecAfter
  <2>2. LockShape'
    BY <1>0, <1>5 DEF TypeOK, LockShape, Pcs, Task, PublishNothing, lockVars, budget, PersistenceGap, Release, ExecAfter
  <2>3. StateShape'
    BY <1>0, <1>5 DEF StateShape, PersistenceGap, lockVars, budget
  <2> QED BY <2>1, <2>2, <2>3 DEF CoreInv
<1>6. CASE WriteTurn
  <2>0. Head(todo) \in Turn /\ Tail(todo) \in Seq(Turn) /\ ContentOf(Head(todo)) \in Contents
    <3>1. Head(todo) \in Turn /\ Tail(todo) \in Seq(Turn)
      BY <1>0, <1>6 DEF TypeOK, WriteTurn
    <3> QED BY <3>1 DEF ContentOf, Turn, Contents
  <2>1. TypeOK'
    BY <1>0, <1>6, <2>0 DEF TypeOK, LockShape, Pcs, Task, PublishNothing, lockVars, budget, WriteTurn
  <2>2. LockShape'
    BY <1>0, <1>6 DEF TypeOK, LockShape, Pcs, Task, PublishNothing, lockVars, budget, WriteTurn
  <2>3. StateShape'
    BY <1>0, <1>6 DEF StateShape, WriteTurn, lockVars, budget
  <2> QED BY <2>1, <2>2, <2>3 DEF CoreInv
<1>7. CASE WriteRefused
  <2>1. TypeOK'
    BY <1>0, <1>7 DEF TypeOK, LockShape, Pcs, Task, PublishNothing, lockVars, budget, WriteRefused, Release, ExecAfter
  <2>2. LockShape'
    BY <1>0, <1>7 DEF TypeOK, LockShape, Pcs, Task, PublishNothing, lockVars, budget, WriteRefused, Release, ExecAfter
  <2>3. StateShape'
    BY <1>0, <1>7 DEF StateShape, WriteRefused, lockVars, budget
  <2> QED BY <2>1, <2>2, <2>3 DEF CoreInv
<1>8. CASE PersistSave
  <2>1. TypeOK'
    BY <1>0, <1>8 DEF TypeOK, LockShape, Pcs, Task, PublishNothing, lockVars, budget, PersistSave
  <2>2. LockShape'
    BY <1>0, <1>8 DEF TypeOK, LockShape, Pcs, Task, PublishNothing, lockVars, budget, PersistSave
  <2>3. StateShape'
    BY <1>0, <1>8 DEF StateShape, PersistSave, lockVars, budget
  <2> QED BY <2>1, <2>2, <2>3 DEF CoreInv
<1>9. CASE UpsertLoad
  <2>1. TypeOK'
    BY <1>0, <1>9 DEF TypeOK, LockShape, Pcs, Task, PublishNothing, lockVars, budget, UpsertLoad
  <2>2. LockShape'
    BY <1>0, <1>9 DEF TypeOK, LockShape, Pcs, Task, PublishNothing, lockVars, budget, UpsertLoad
  <2>3. StateShape'
    BY <1>0, <1>9 DEF StateShape, UpsertLoad, lockVars, budget
  <2> QED BY <2>1, <2>2, <2>3 DEF CoreInv
<1>10. CASE UpsertSave
  <2>1. TypeOK'
    BY <1>0, <1>10 DEF TypeOK, LockShape, Pcs, Task, PublishNothing, lockVars, budget, UpsertSave, Release
  <2>2. LockShape'
    BY <1>0, <1>10 DEF TypeOK, LockShape, Pcs, Task, PublishNothing, lockVars, budget, UpsertSave, Release
  <2>3. StateShape'
    BY <1>0, <1>10 DEF StateShape, UpsertSave, lockVars, budget
  <2> QED BY <2>1, <2>2, <2>3 DEF CoreInv
<1>11. CASE StoreFails
  <2>1. TypeOK'
    BY <1>0, <1>11 DEF TypeOK, LockShape, Pcs, Task, PublishNothing, lockVars, budget, StoreFails, Release, ExecAfter, OpsAfter
  <2>2. LockShape'
    BY <1>0, <1>11 DEF TypeOK, LockShape, Pcs, Task, PublishNothing, lockVars, budget, StoreFails, Release, ExecAfter, OpsAfter
  <2>3. StateShape'
    BY <1>0, <1>11 DEF StateShape, StoreFails, lockVars, budget
  <2> QED BY <2>1, <2>2, <2>3 DEF CoreInv
<1>12. CASE OperationStarted
  <2>0. /\ [row EXCEPT !.latest = @ + 1] \in Row /\ [row EXCEPT !.latest = @ + 1].latest > 0
        /\ <<NewTurn(row.latest + 1, "operation", "started")>> \in Seq(Turn)
    <3>1. row.latest + 1 \in Nat \ {0} /\ [row EXCEPT !.latest = @ + 1] \in Row
      <4>1. row \in Row /\ 0 \in Nat
        BY <1>0 DEF TypeOK
      <4>2. row.latest \in Nat /\ [row EXCEPT !.latest = @ + 1] \in Row
        BY <4>1, RowTypes
      <4> QED BY <4>2
    <3>2. "operation" \in Methods /\ "started" \in Tags
      BY DEF Methods, Tags, OpStatuses
    <3>3. NewTurn(row.latest + 1, "operation", "started") \in Turn
      BY <3>1, <3>2, NewTurnType
    <3>4. [row EXCEPT !.latest = @ + 1].latest > 0
      <4>1. row \in Row /\ 0 \in Nat
        BY <1>0 DEF TypeOK
      <4>2. row.latest \in Nat /\ [row EXCEPT !.latest = @ + 1].latest = row.latest + 1
        BY <4>1, RowTypes
      <4> QED BY <4>2
    <3> QED BY <3>1, <3>3, <3>4
  <2>1. TypeOK'
    BY <1>0, <1>12, <2>0 DEF TypeOK, LockShape, Pcs, Task, PublishNothing, lockVars, budget, OperationStarted, Operation, Take
  <2>2. LockShape'
    BY <1>0, <1>12, <2>0 DEF TypeOK, LockShape, Pcs, Task, PublishNothing, lockVars, budget, OperationStarted, Operation, Take
  <2>3. StateShape'
    BY <1>0, <1>12 DEF StateShape, OperationStarted, Operation, lockVars, budget
  <2> QED BY <2>1, <2>2, <2>3 DEF CoreInv
<1>13. CASE OperationEnded
  <2>0. /\ [row EXCEPT !.latest = @ + 1] \in Row /\ [row EXCEPT !.latest = @ + 1].latest > 0
        /\ <<NewTurn(row.latest + 1, "operation", "completed")>> \in Seq(Turn)
    <3>1. row.latest + 1 \in Nat \ {0} /\ [row EXCEPT !.latest = @ + 1] \in Row
      <4>1. row \in Row /\ 0 \in Nat
        BY <1>0 DEF TypeOK
      <4>2. row.latest \in Nat /\ [row EXCEPT !.latest = @ + 1] \in Row
        BY <4>1, RowTypes
      <4> QED BY <4>2
    <3>2. "operation" \in Methods /\ "completed" \in Tags
      BY DEF Methods, Tags, OpStatuses
    <3>3. NewTurn(row.latest + 1, "operation", "completed") \in Turn
      BY <3>1, <3>2, NewTurnType
    <3>4. [row EXCEPT !.latest = @ + 1].latest > 0
      <4>1. row \in Row /\ 0 \in Nat
        BY <1>0 DEF TypeOK
      <4>2. row.latest \in Nat /\ [row EXCEPT !.latest = @ + 1].latest = row.latest + 1
        BY <4>1, RowTypes
      <4> QED BY <4>2
    <3> QED BY <3>1, <3>3, <3>4
  <2>1. TypeOK'
    BY <1>0, <1>13, <2>0 DEF TypeOK, LockShape, Pcs, Task, PublishNothing, lockVars, budget, OperationEnded, Operation, Take
  <2>2. LockShape'
    BY <1>0, <1>13, <2>0 DEF TypeOK, LockShape, Pcs, Task, PublishNothing, lockVars, budget, OperationEnded, Operation, Take
  <2>3. StateShape'
    BY <1>0, <1>13 DEF StateShape, OperationEnded, Operation, lockVars, budget
  <2> QED BY <2>1, <2>2, <2>3 DEF CoreInv
<1> QED BY <1>1, <1>2, <1>3, <1>4, <1>5, <1>6, <1>7, <1>8, <1>9, <1>10, <1>11, <1>12, <1>13

\* The calls that load and save the row without writeMu.
LEMMA CoreClientStep ==
    ASSUME CoreInv, NEW c \in Clients,
           \/ MarkReadLoad(c) \/ MarkReadSave(c) \/ RenameLoad(c) \/ RenameSave(c)
           \/ ReadLoad(c) \/ ReadLive(c)
    PROVE  CoreInv'
<1>0. /\ TypeOK /\ LockShape /\ StateShape
      /\ NewRow \in Row /\ << >> \in Seq(Turn) /\ NoTask \in Task
      /\ NoTask.kind = "none" /\ NoTask.publishDone = FALSE
      /\ view \in SUBSET Turn
  BY RowTypes DEF CoreInv, TypeOK, NewRow, Row, NoTask, Task
<1>14. CASE MarkReadLoad(c)
  <2>0. call' \in [Clients -> Call]
    <3>1. PICK t \in view : call' = [call EXCEPT ![c] = [NoCall EXCEPT !.op = "mark", !.rec = row, !.arg = t.idx]]
      BY <1>14 DEF MarkReadLoad
    <3>2. t.idx \in Nat /\ row \in Row /\ call \in [Clients -> Call] /\ {} \in SUBSET Slot
      BY <1>0 DEF TypeOK, Turn
    <3> QED BY <3>1, <3>2, CallTypes
  <2>1. TypeOK'
    BY <1>0, <1>14, <2>0 DEF TypeOK, LockShape, Pcs, Task, PublishNothing, lockVars, budget, MarkReadLoad
  <2>2. LockShape'
    BY <1>0, <1>14 DEF TypeOK, LockShape, Pcs, Task, PublishNothing, lockVars, budget, MarkReadLoad
  <2>3. StateShape'
    BY <1>0, <1>14 DEF StateShape, MarkReadLoad, lockVars, budget
  <2> QED BY <2>1, <2>2, <2>3 DEF CoreInv
<1>15. CASE MarkReadSave(c)
  <2>0. call' \in [Clients -> Call] /\ row' \in Row
    <3>1. call[c].rec \in Row /\ call[c].arg \in Nat /\ [call EXCEPT ![c] = NoCall] \in [Clients -> Call]
      BY <1>0, CallTypes, 0 \in Nat, {} \in SUBSET Slot DEF TypeOK
    <3>2. ReadCursor(call[c].rec, call[c].arg) \in Nat
      BY <3>1, RowTypes
    <3>3. [call[c].rec EXCEPT !.read = ReadCursor(call[c].rec, call[c].arg)] \in Row
      BY <3>1, <3>2, RowTypes
    <3> QED BY <1>0, <1>15, <3>1, <3>3 DEF MarkReadSave, TypeOK
  <2>1. TypeOK'
    BY <1>0, <1>15, <2>0 DEF TypeOK, LockShape, Pcs, Task, PublishNothing, lockVars, budget, MarkReadSave
  <2>2. LockShape'
    BY <1>0, <1>15 DEF TypeOK, LockShape, Pcs, Task, PublishNothing, lockVars, budget, MarkReadSave
  <2>3. StateShape'
    BY <1>0, <1>15 DEF StateShape, MarkReadSave, lockVars, budget
  <2> QED BY <2>1, <2>2, <2>3 DEF CoreInv
<1>16. CASE RenameLoad(c)
  <2>0. call' \in [Clients -> Call]
    <3>1. call' = [call EXCEPT ![c] = [NoCall EXCEPT !.op = "rename", !.rec = row]]
      BY <1>16 DEF RenameLoad
    <3>2. 0 \in Nat /\ row \in Row /\ call \in [Clients -> Call] /\ {} \in SUBSET Slot
      BY <1>0 DEF TypeOK
    <3> QED BY <3>1, <3>2, CallTypes
  <2>1. TypeOK'
    BY <1>0, <1>16, <2>0 DEF TypeOK, LockShape, Pcs, Task, PublishNothing, lockVars, budget, RenameLoad
  <2>2. LockShape'
    BY <1>0, <1>16 DEF TypeOK, LockShape, Pcs, Task, PublishNothing, lockVars, budget, RenameLoad
  <2>3. StateShape'
    BY <1>0, <1>16 DEF StateShape, RenameLoad, lockVars, budget
  <2> QED BY <2>1, <2>2, <2>3 DEF CoreInv
<1>17. CASE RenameSave(c)
  <2>0. call' \in [Clients -> Call] /\ row' \in Row
    <3>1. call[c].rec \in Row /\ [call EXCEPT ![c] = NoCall] \in [Clients -> Call]
      BY <1>0, CallTypes, 0 \in Nat, {} \in SUBSET Slot DEF TypeOK
    <3>2. [call[c].rec EXCEPT !.renamed = TRUE] \in Row
      BY <3>1, RowTypes, 0 \in Nat
    <3> QED BY <1>17, <3>1, <3>2 DEF RenameSave
  <2>1. TypeOK'
    BY <1>0, <1>17, <2>0 DEF TypeOK, LockShape, Pcs, Task, PublishNothing, lockVars, budget, RenameSave
  <2>2. LockShape'
    BY <1>0, <1>17 DEF TypeOK, LockShape, Pcs, Task, PublishNothing, lockVars, budget, RenameSave
  <2>3. StateShape'
    BY <1>0, <1>17 DEF StateShape, RenameSave, lockVars, budget
  <2> QED BY <2>1, <2>2, <2>3 DEF CoreInv
<1>18. CASE ReadLoad(c)
  <2>0. call' \in [Clients -> Call]
    <3>1. PICK after \in 0..row.latest :
             call' = [call EXCEPT ![c] = [NoCall EXCEPT !.op = "read", !.rec = row, !.arg = after]]
      BY <1>18 DEF ReadLoad
    <3>2. after \in Nat /\ row \in Row /\ call \in [Clients -> Call] /\ {} \in SUBSET Slot
      BY <1>0, RowTypes DEF TypeOK
    <3> QED BY <3>1, <3>2, CallTypes
  <2>1. TypeOK'
    BY <1>0, <1>18, <2>0 DEF TypeOK, LockShape, Pcs, Task, PublishNothing, lockVars, budget, ReadLoad
  <2>2. LockShape'
    BY <1>0, <1>18 DEF TypeOK, LockShape, Pcs, Task, PublishNothing, lockVars, budget, ReadLoad
  <2>3. StateShape'
    BY <1>0, <1>18 DEF StateShape, ReadLoad, lockVars, budget
  <2> QED BY <2>1, <2>2, <2>3 DEF CoreInv
<1>19. CASE ReadLive(c)
  <2>0. call' \in [Clients -> Call]
    <3>1. call[c].rec \in Row /\ call[c].arg \in Nat
      BY <1>0, CallTypes, 0 \in Nat, {} \in SUBSET Slot DEF TypeOK
    <3>2. ReadResult(call[c].rec, call[c].arg) \in SUBSET Slot
      BY <1>0, <3>1, ReadResultType DEF TypeOK
    <3>3. call \in [Clients -> Call]
      BY <1>0 DEF TypeOK
    <3> QED BY <1>0, <1>19, <3>2, <3>3, CallTypes, 0 \in Nat DEF ReadLive
  <2>1. TypeOK'
    BY <1>0, <1>19, <2>0 DEF TypeOK, LockShape, Pcs, Task, PublishNothing, lockVars, budget, ReadLive
  <2>2. LockShape'
    BY <1>0, <1>19 DEF TypeOK, LockShape, Pcs, Task, PublishNothing, lockVars, budget, ReadLive
  <2>3. StateShape'
    BY <1>0, <1>19 DEF StateShape, ReadLive, lockVars, budget
  <2> QED BY <2>1, <2>2, <2>3 DEF CoreInv
<1> QED BY <1>14, <1>15, <1>16, <1>17, <1>18, <1>19

\* The state in which a prompt starts.
LEMMA StartFacts ==
    ASSUME NEW n \in Nat
    PROVE  /\ AddMessageTurn(newSessionPromptState(n), "request", NoTag) \in PromptState
           /\ WellFormed(AddMessageTurn(newSessionPromptState(n), "request", NoTag))
           /\ Len(AddMessageTurn(newSessionPromptState(n), "request", NoTag).turns) > 0
           /\ AddEvents(newSessionPromptState(n), "request", NoTag) \in Seq(Turn)
<1>1. "request" \in Methods /\ NoTag \in Tags
  BY DEF Methods, Tags
<1> QED BY <1>1, FreshState, AddMessageTurnFacts

\* The last turn of a state that has one, as a sequence of events.
LEMMA DoneEventsType ==
    ASSUME state \in PromptState, task.publishDone => Len(state.turns) > 0
    PROVE  DoneEvents(state) \in Seq(Turn)
BY LastTurn DEF DoneEvents

\* The steps that change the prompt state or publish turns.
LEMMA CoreStateStep ==
    ASSUME CoreInv,
           \/ PromptStarted \/ PromptStartedInterrupting
           \/ \E mth \in AgentMethods, k \in Tags : UpdateMessage(mth, k)
           \/ ReplyAndEnd \/ ArtifactWriteFails
           \/ \E reason \in StopReasons : PromptFinished(reason)
           \/ FinishSave \/ InterruptSave \/ OperationSave \/ Crash
    PROVE  CoreInv'
<1>0. /\ TypeOK /\ LockShape /\ StateShape
      /\ state \in PromptState /\ WellFormed(state) /\ state.next \in Nat /\ row.latest \in Nat
      /\ NextSessionTurnIndex \in Nat
      /\ NewRow \in Row /\ << >> \in Seq(Turn) /\ NoTask \in Task
      /\ NoTask.kind = "none" /\ NoTask.publishDone = FALSE
      /\ view \in SUBSET Turn
  <2>1. TypeOK /\ LockShape /\ StateShape
    BY DEF CoreInv
  <2>2. state \in PromptState /\ row \in Row /\ nextIdx \in Nat /\ view \in SUBSET Turn
    BY <2>1 DEF TypeOK
  <2>3. WellFormed(state) /\ state.next \in Nat /\ row.latest \in Nat
    BY <2>1, <2>2, LastTurn DEF StateShape, Row
  <2>4. NextSessionTurnIndex \in Nat
    BY <2>2, <2>3 DEF NextSessionTurnIndex
  <2> QED BY <2>1, <2>2, <2>3, <2>4 DEF NewRow, Row, NoTask, Task
<1>1. CASE PromptStarted
  <2>1. PICK n \in Nat : StartRequest(n, << >>)
    BY <1>0, <1>1 DEF PromptStarted, MaxOf
  <2>2. state' \in PromptState /\ WellFormed(state') /\ Len(state'.turns) > 0
    BY <2>1, StartFacts DEF StartRequest
  <2>3. view' \in SUBSET Turn /\ out' \in Seq(Turn)
    <3>1. << >> \o AddEvents(newSessionPromptState(n), "request", NoTag) \in Seq(Turn)
      BY StartFacts
    <3>2. Publish(<< >> \o AddEvents(newSessionPromptState(n), "request", NoTag))
      BY <2>1 DEF StartRequest
    <3> QED BY <1>0, <3>1, <3>2, PublishType
  <2>4. /\ task' = [kind |-> "start", publishDone |-> FALSE] /\ pc' = "upsertLoad"
        /\ rec' = NewRow /\ todo' = << >>
    BY <2>1 DEF StartRequest, Take
  <2>8. TypeOK'
    BY <1>0, <1>1, <2>2, <2>3, <2>4 DEF TypeOK, LockShape, Pcs, Task, PromptStarted, lockVars, budget
  <2>9. LockShape'
    BY <1>0, <1>1, <2>2, <2>3, <2>4 DEF TypeOK, LockShape, Pcs, Task, PromptStarted, lockVars, budget
  <2> QED BY <2>2, <2>3, <2>4, <2>8, <2>9 DEF CoreInv, StateShape
<1>2. CASE PromptStartedInterrupting
  <2>1. /\ FinishPrompt(state, "interrupted", "interrupt") /\ "interrupted" \in StopReasons
        /\ state \in PromptState /\ WellFormed(state) /\ state.live
    BY <1>0, <1>2, LastTurn DEF PromptStartedInterrupting, StopReasons, WellFormed
  <2>2. state' \in PromptState /\ WellFormed(state') /\ Len(state'.turns) > 0 /\ Terminal(state')
    <3>1. state' = Finished(state, "interrupted")
      BY <2>1 DEF FinishPrompt, Finished, PromptStartedInterrupting
    <3> QED BY <2>1, <3>1, FinishedFacts
  <2>3. view' \in SUBSET Turn /\ out' \in Seq(Turn)
    <3>1. SealEvents(state) \in Seq(Turn)
      BY <2>1, SealEventsFacts
    <3>2. Publish(SealEvents(state))
      BY <2>1 DEF FinishPrompt, PromptStartedInterrupting
    <3> QED BY <1>0, <3>1, <3>2, PublishType
  <2>4. /\ task' = [kind |-> "interrupt", publishDone |-> ~Terminal(state)] /\ pc' = "persistLoad"
        /\ rec' = NewRow /\ todo' = << >>
    BY <2>1 DEF FinishPrompt, Take, PromptStartedInterrupting
  <2>5. (~Terminal(state)) \in BOOLEAN
    BY DEF Terminal
  <2>8. TypeOK'
    BY <1>0, <1>2, <2>2, <2>3, <2>4, <2>5 DEF TypeOK, LockShape, Pcs, Task, PromptStartedInterrupting, lockVars, budget
  <2>9. LockShape'
    BY <1>0, <1>2, <2>2, <2>3, <2>4, <2>5 DEF TypeOK, LockShape, Pcs, Task, PromptStartedInterrupting, lockVars, budget
  <2> QED BY <2>2, <2>3, <2>4, <2>5, <2>8, <2>9 DEF CoreInv, StateShape
<1>3. ASSUME NEW mth \in AgentMethods, NEW k \in Tags, UpdateMessage(mth, k)
      PROVE  CoreInv'
  <2>1. mth \in Methods /\ state.live
    BY <1>3 DEF UpdateMessage, Methods
  <2>2. state' \in PromptState /\ WellFormed(state') /\ Len(state'.turns) > 0
    BY <1>0, <1>3, <2>1, AddMessageTurnFacts DEF UpdateMessage
  <2>3. view' \in SUBSET Turn /\ out' \in Seq(Turn)
    BY <1>0, <1>3, <2>1, AddMessageTurnFacts, PublishType DEF UpdateMessage
  <2>8. TypeOK'
    BY <1>0, <1>3, <2>2, <2>3 DEF TypeOK, LockShape, Pcs, Task, UpdateMessage, lockVars, budget
  <2>9. LockShape'
    BY <1>0, <1>3, <2>2, <2>3 DEF TypeOK, LockShape, Pcs, Task, UpdateMessage, lockVars, budget
  <2> QED BY <2>2, <2>3, <2>8, <2>9 DEF CoreInv, StateShape
<1>4. CASE ReplyAndEnd
  <2>1. "system" \in Methods /\ NoTag \in Tags
    BY DEF Methods, AgentMethods, Tags
  <2>2. /\ state' \in PromptState /\ WellFormed(state')
        /\ view' \in SUBSET Turn /\ out' \in Seq(Turn)
    <3>1. CASE /\ state.live /\ state' = AddMessageTurn(state, "system", NoTag)
               /\ Publish(AddEvents(state, "system", NoTag))
      BY <1>0, <2>1, <3>1, AddMessageTurnFacts, PublishType
    <3>2. CASE PublishNothing /\ UNCHANGED state
      BY <1>0, <3>2 DEF PublishNothing
    <3> QED BY <1>4, <3>1, <3>2 DEF ReplyAndEnd
  <2>8. TypeOK'
    BY <1>0, <1>4, <2>2 DEF TypeOK, LockShape, Pcs, Task, ReplyAndEnd, lockVars, budget
  <2>9. LockShape'
    BY <1>0, <1>4, <2>2 DEF TypeOK, LockShape, Pcs, Task, ReplyAndEnd, lockVars, budget
  <2> QED BY <2>2, <2>8, <2>9 DEF CoreInv, StateShape
<1>5. CASE ArtifactWriteFails
  <2>1. EnsuredState \in PromptState /\ WellFormed(EnsuredState)
    BY <1>0, FreshState DEF EnsuredState
  <2>2. state' \in PromptState /\ WellFormed(state')
    BY <1>5, <2>1, SealedFacts DEF ArtifactWriteFails
  <2>3. view' \in SUBSET Turn /\ out' \in Seq(Turn)
    BY <1>0, <1>5, <2>1, SealEventsFacts, PublishType DEF ArtifactWriteFails
  <2>8. TypeOK'
    BY <1>0, <1>5, <2>2, <2>3 DEF TypeOK, LockShape, Pcs, Task, ArtifactWriteFails, lockVars, budget
  <2>9. LockShape'
    BY <1>0, <1>5, <2>2, <2>3 DEF TypeOK, LockShape, Pcs, Task, ArtifactWriteFails, lockVars, budget
  <2> QED BY <2>2, <2>3, <2>8, <2>9 DEF CoreInv, StateShape
<1>6. ASSUME NEW reason \in StopReasons, PromptFinished(reason)
      PROVE  CoreInv'
  <2> DEFINE z == EnsuredState
  <2>1. /\ FinishPrompt(z, reason, "finish")
        /\ z \in PromptState /\ WellFormed(z) /\ z.live
    BY <1>0, <1>6, FreshState DEF PromptFinished, EnsuredState
  <2> HIDE DEF z
  <2>2. state' \in PromptState /\ WellFormed(state') /\ Len(state'.turns) > 0 /\ Terminal(state')
    <3>1. state' = Finished(z, reason)
      BY <2>1 DEF FinishPrompt, Finished
    <3> QED BY <2>1, <3>1, FinishedFacts
  <2>3. view' \in SUBSET Turn /\ out' \in Seq(Turn)
    <3>1. SealEvents(z) \in Seq(Turn)
      BY <2>1, SealEventsFacts
    <3>2. Publish(SealEvents(z))
      BY <2>1 DEF FinishPrompt
    <3> QED BY <1>0, <3>1, <3>2, PublishType
  <2>4. /\ task' = [kind |-> "finish", publishDone |-> ~Terminal(z)] /\ pc' = "persistLoad"
        /\ rec' = NewRow /\ todo' = << >>
    BY <2>1 DEF FinishPrompt, Take
  <2>5. (~Terminal(z)) \in BOOLEAN
    BY DEF Terminal
  <2>8. TypeOK'
    BY <1>0, <1>6, <2>2, <2>3, <2>4, <2>5 DEF TypeOK, LockShape, Pcs, Task, PromptFinished, lockVars, budget
  <2>9. LockShape'
    BY <1>0, <1>6, <2>2, <2>3, <2>4, <2>5 DEF TypeOK, LockShape, Pcs, Task, PromptFinished, lockVars, budget
  <2> QED BY <2>2, <2>3, <2>4, <2>5, <2>8, <2>9 DEF CoreInv, StateShape
<1>7. CASE FinishSave
  <2>1. DoneEvents(state) \in Seq(Turn)
    BY <1>0, DoneEventsType DEF LockShape, Terminal
  <2>2. state' = NoState /\ state' \in PromptState /\ WellFormed(state')
    BY <1>7, FreshState, 0 \in Nat DEF FinishSave
  <2>3. view' \in SUBSET Turn /\ out' \in Seq(Turn)
    BY <1>0, <1>7, <2>1, PublishType DEF FinishSave
  <2>8. TypeOK'
    BY <1>0, <1>7, <2>2, <2>3 DEF TypeOK, LockShape, Pcs, Task, FinishSave, Release, ExecAfter, lockVars, budget
  <2>9. LockShape'
    BY <1>0, <1>7, <2>2, <2>3 DEF TypeOK, LockShape, Pcs, Task, FinishSave, Release, ExecAfter, lockVars, budget
  <2> QED BY <2>2, <2>3, <2>8, <2>9 DEF CoreInv, StateShape
<1>8. CASE InterruptSave
  <2>1. StartRequest(state.next, DoneEvents(state)) /\ DoneEvents(state) \in Seq(Turn)
    BY <1>0, <1>8, DoneEventsType DEF InterruptSave, LockShape, Terminal
  <2>2. state' \in PromptState /\ WellFormed(state') /\ Len(state'.turns) > 0
    BY <1>0, <2>1, StartFacts DEF StartRequest
  <2>3. view' \in SUBSET Turn /\ out' \in Seq(Turn)
    <3>1. DoneEvents(state) \o AddEvents(newSessionPromptState(state.next), "request", NoTag) \in Seq(Turn)
      BY <1>0, <2>1, StartFacts
    <3>2. Publish(DoneEvents(state) \o AddEvents(newSessionPromptState(state.next), "request", NoTag))
      BY <2>1 DEF StartRequest
    <3> QED BY <1>0, <3>1, <3>2, PublishType
  <2>4. /\ task' = [kind |-> "start", publishDone |-> FALSE] /\ pc' = "upsertLoad"
        /\ rec' = NewRow /\ todo' = << >>
    BY <2>1 DEF StartRequest, Take
  <2>8. TypeOK'
    BY <1>0, <1>8, <2>2, <2>3, <2>4 DEF TypeOK, LockShape, Pcs, Task, InterruptSave, lockVars, budget
  <2>9. LockShape'
    BY <1>0, <1>8, <2>2, <2>3, <2>4 DEF TypeOK, LockShape, Pcs, Task, InterruptSave, lockVars, budget
  <2> QED BY <2>2, <2>3, <2>4, <2>8, <2>9 DEF CoreInv, StateShape
<1>9. CASE OperationSave
  <2> DEFINE status == IF exec = "compactStart" THEN "started" ELSE "completed"
             t == NewTurn(rec.latest, "operation", status)
  <2>1. rec.latest > 0 /\ rec.latest \in Nat
    BY <1>0, <1>9 DEF TypeOK, LockShape, OperationSave, Row
  <2>2. t \in Turn
    <3>1. "operation" \in Methods /\ status \in Tags /\ rec.latest \in Nat \ {0}
      BY <2>1 DEF Methods, Tags, OpStatuses
    <3> HIDE DEF status
    <3> QED BY <3>1, NewTurnType
  <2>3. view' \in SUBSET Turn /\ out' \in Seq(Turn)
    <3>1. <<t>> \in Seq(Turn) /\ Publish(<<t>>)
      BY <1>9, <2>2 DEF OperationSave
    <3> QED BY <1>0, <3>1, PublishType
  <2>4. state' \in PromptState /\ WellFormed(state')
    BY <1>0, <1>9 DEF OperationSave
  <2>8. TypeOK'
    BY <1>0, <1>9, <2>1, <2>3, <2>4 DEF TypeOK, LockShape, Pcs, Task, OperationSave, OpsAfter, Release, lockVars, budget
  <2>9. LockShape'
    BY <1>0, <1>9, <2>1, <2>3, <2>4 DEF TypeOK, LockShape, Pcs, Task, OperationSave, OpsAfter, Release, lockVars, budget
  <2> QED BY <2>1, <2>3, <2>4, <2>8, <2>9 DEF CoreInv, StateShape
<1>10. CASE Crash
  <2>1. call' \in [Clients -> Call]
    BY <1>10 DEF Crash, NoCall, Call, NewRow, Row, Slot
  <2>2. state' = NoState /\ state' \in PromptState /\ WellFormed(state')
    BY <1>10, FreshState, 0 \in Nat DEF Crash
  <2>3. view' \in SUBSET Turn /\ out' \in Seq(Turn)
    BY <1>0, <1>10, PersistedType DEF Crash, TypeOK
  <2>8. TypeOK'
    BY <1>0, <1>10, <2>1, <2>2, <2>3 DEF TypeOK, LockShape, Pcs, Task, Crash, Release, lockVars, budget
  <2>9. LockShape'
    BY <1>0, <1>10, <2>1, <2>2, <2>3 DEF TypeOK, LockShape, Pcs, Task, Crash, Release, lockVars, budget
  <2> QED BY <2>1, <2>2, <2>3, <2>8, <2>9 DEF CoreInv, StateShape
<1> QED BY <1>1, <1>2, <1>3, <1>4, <1>5, <1>6, <1>7, <1>8, <1>9, <1>10

\* Every step keeps the core invariant.
LEMMA CoreStep ==
    ASSUME CoreInv, [Next]_vars
    PROVE  CoreInv'
<1>1. ASSUME UNCHANGED vars PROVE CoreInv'
  BY <1>1 DEF CoreInv, TypeOK, LockShape, StateShape, vars
<1>2. ASSUME AgentUpdate PROVE CoreInv'
  <2>1. \A m \in UpdateMethods : m \in AgentMethods
    BY ConstantsAssumption
  <2>2. NoTag \in Tags /\ \A k \in ToolCalls : k \in Tags
    BY DEF Tags
  <2>3. \E m \in AgentMethods, k \in Tags : UpdateMessage(m, k)
    BY <1>2, <2>1, <2>2 DEF AgentUpdate, AgentMethods
  <2> QED BY <2>3, CoreStateStep
<1>3. ASSUME Handler PROVE CoreInv'
  BY <1>3, CoreQuietStep, CoreStateStep DEF Handler
<1>4. ASSUME \E c \in Clients : \/ MarkReadLoad(c) \/ MarkReadSave(c) \/ RenameLoad(c)
                                \/ RenameSave(c) \/ ReadLoad(c) \/ ReadLive(c)
      PROVE  CoreInv'
  BY <1>4, CoreClientStep
<1>5. ASSUME \/ PromptStarted \/ PromptStartedInterrupting \/ ReplyAndEnd \/ ArtifactWriteFails
             \/ \E reason \in StopReasons \ {"interrupted"} : PromptFinished(reason)
             \/ Crash
      PROVE  CoreInv'
  BY <1>5, CoreStateStep
<1>6. ASSUME \/ PromptStartLost \/ SessionInfoUpdate \/ PromptFinishedIgnored
             \/ OperationStarted \/ OperationEnded \/ StoreFails
      PROVE  CoreInv'
  BY <1>6, CoreQuietStep
<1> QED BY <1>1, <1>2, <1>3, <1>4, <1>5, <1>6 DEF Next

\* TurnRecorder keeps the core invariant: types, the shape of the handler that
\* holds writeMu, and the well-formedness of the prompt state.
THEOREM CoreInvariance == Spec => []CoreInv
<1>1. Init => CoreInv
  BY CoreInit
<1>2. CoreInv /\ [Next]_vars => CoreInv'
  BY CoreStep
<1> QED BY <1>1, <1>2, PTL DEF Spec

\* Whatever the interleaving of handlers, unlocked calls, faults and crashes,
\* every variable of the recorder keeps its type; in particular activeOperations
\* is never decremented below zero and no operation turn has index zero.
THEOREM TypeCorrect == Spec => []TypeOK
<1>1. CoreInv => TypeOK
  BY DEF CoreInv
<1> QED BY <1>1, CoreInvariance, PTL

\* The seal discipline of addMessageTurn and finishPromptStateLocked: the prompt
\* state never holds an unfinished turn but an open text at its end, with any
\* agent, compaction, faults, crashes and callers.
THEOREM OpenTurnIsLastAlways == Spec => []OpenTurnIsLast
<1>1. CoreInv => OpenTurnIsLast
  BY DEF CoreInv, StateShape, WellFormed, OpenTurnIsLast
<1> QED BY <1>1, CoreInvariance, PTL

-----------------------------------------------------------------------------
(* The unfinished tail and the order of publication, without compaction *)

\* Every turn of v is finished and lies below n.
SettledView(v, n) == \A t \in v : t.fin /\ t.idx < n

\* While there is a prompt state the published turns follow it; otherwise they
\* are all finished, below the index the next prompt starts with.
ViewShape ==
    IF Len(state.turns) > 0 THEN Follows(view, state)
                            ELSE SettledView(view, NextSessionTurnIndex)

\* As long as the next index must be computed from the row, every copy of the
\* row that may still be saved agrees with it on latestPersistedTurnIndex.
FreshCopies ==
    nextIdx = 0 /\ Len(state.turns) = 0 =>
        /\ pc \in {"free", "upsertLoad", "upsertSave"}
        /\ pc = "upsertSave" => rec.latest = row.latest
        /\ \A c \in Clients : call[c].op \in {"mark", "rename"} => call[c].rec.latest = row.latest

\* A state without turns (the first result could not write its artifacts) starts
\* where the next prompt will.
LiveStart == state.live /\ Len(state.turns) = 0 => state.next = NextSessionTurnIndex

NoOperation == task.kind # "operation" /\ exec \notin {"compactStart", "compact"}

PublishInv == ViewShape /\ FreshCopies /\ LiveStart /\ NoOperation

\* Events and a view that are all finished are in order.
LEMMA FinishedInOrder ==
    ASSUME NEW v \in SUBSET Turn, NEW e \in Seq(Turn),
           \A t \in v : t.fin, \A i \in 1..Len(e) : e[i].fin
    PROVE  InOrder(v, e)
<1> SUFFICES ASSUME NEW i \in 1..Len(e), NEW t \in ViewAfter(v, SubSeq(e, 1, i - 1))
             PROVE  t.fin
  BY DEF InOrder
<1> DEFINE q == SubSeq(e, 1, i - 1)
<1>1. Len(q) = i - 1 /\ \A j \in 1..(i - 1) : q[j] = e[j] /\ j \in 1..Len(e)
  OBVIOUS
<1>2. t \in ViewAfter(v, q)
  OBVIOUS
<1> HIDE DEF q
<1>3. t \in v \/ \E j \in 1..Len(q) : t = q[j]
  BY <1>2, ViewAfterFacts
<1> QED BY <1>1, <1>3

\* Sealing leaves a view that follows the sealed state.
LEMMA SealPublishes ==
    ASSUME NEW s \in PromptState, WellFormed(s), NEW v \in SUBSET Turn, Follows(v, s)
    PROVE  Follows(ViewAfter(v, SealEvents(s)), Sealed(s)) /\ InOrder(v, SealEvents(s))
<1> DEFINE d == SealEvents(s)
<1>1. /\ d \in Seq(Turn) /\ Len(s.turns) \in Nat
      /\ Len(s.turns) > 0 => Len(s.turns) \in 1..Len(s.turns)
      /\ Sealed(s).next = s.next
  BY SealEventsFacts, LastTurn, SealedFacts
<1>2. CASE HasOpenText(s)
  <2>1. /\ Len(d) = 1 /\ d[1].fin /\ d[1].idx = s.turns[Len(s.turns)].idx /\ d[1].idx < s.next
    BY <1>2, SealEventsFacts
  <2> HIDE DEF d
  <2>2. \A t \in v : ~t.fin => t.idx = d[1].idx
    BY <2>1 DEF Follows
  <2>3. \A t \in v : t.idx < d[1].idx => t.fin
    <3> SUFFICES ASSUME NEW t \in v, ~t.fin PROVE ~(t.idx < d[1].idx)
      OBVIOUS
    <3>1. t.idx = d[1].idx /\ t.idx \in Nat
      BY <2>2 DEF Turn
    <3> QED BY <3>1
  <2>4. InOrder(v, d)
    BY <1>1, <2>1, <2>3, OneInOrder
  <2>5. Follows(ViewAfter(v, d), Sealed(s))
    <3> SUFFICES ASSUME NEW t \in ViewAfter(v, d) PROVE t.fin /\ t.idx < s.next
      BY <1>1 DEF Follows
    <3>1. (t \in v /\ \A i \in 1..Len(d) : d[i].idx # t.idx) \/ \E i \in 1..Len(d) : t = d[i]
      BY ViewAfterFacts
    <3>2. (t \in v /\ d[1].idx # t.idx) \/ t = d[1]
      BY <2>1, <3>1
    <3>3. t \in v => t.idx < s.next
      BY DEF Follows
    <3> QED BY <2>1, <2>2, <3>2, <3>3
  <2> QED BY <2>4, <2>5 DEF d
<1>3. CASE ~HasOpenText(s)
  <2>1. d = << >> /\ Sealed(s) = s
    BY <1>3 DEF SealEvents, Sealed
  <2> QED BY <2>1, ViewAfterNothing, NoneInOrder
<1> QED BY <1>2, <1>3

\* Appending a sequence of length one.
LEMMA ConcatOne ==
    ASSUME NEW S, NEW d \in Seq(S), NEW e \in Seq(S), Len(e) = 1
    PROVE  /\ d \o e \in Seq(S)
           /\ Len(d \o e) = Len(d) + 1
           /\ (d \o e)[Len(d) + 1] = e[1]
           /\ \A i \in 1..Len(d) : (d \o e)[i] = d[i]
<1> DEFINE f == d \o e
<1>1. /\ f \in Seq(S)
      /\ Len(f) = Len(d) + Len(e)
      /\ \A i \in 1..(Len(d) + Len(e)) : f[i] = IF i <= Len(d) THEN d[i] ELSE e[i - Len(d)]
  BY ConcatProperties
<1> HIDE DEF f
<1>2. Len(d) \in Nat /\ Len(f) = Len(d) + 1
  BY <1>1
<1>3. f[Len(d) + 1] = e[1]
  <2>1. Len(d) + 1 \in 1..(Len(d) + Len(e)) /\ ~(Len(d) + 1 <= Len(d)) /\ Len(d) + 1 - Len(d) = 1
    BY <1>2
  <2> QED BY <1>1, <2>1
<1>4. \A i \in 1..Len(d) : f[i] = d[i]
  BY <1>1, <1>2
<1> QED BY <1>1, <1>2, <1>3, <1>4 DEF f

\* A prompt starts behind a settled view; d is what its handler published before.
LEMMA StartPublishes ==
    ASSUME NEW n \in Nat \ {0}, NEW v \in SUBSET Turn, SettledView(v, n),
           NEW d \in Seq(Turn), \A i \in 1..Len(d) : d[i].fin /\ d[i].idx < n
    PROVE  /\ Follows(ViewAfter(v, d \o AddEvents(newSessionPromptState(n), "request", NoTag)),
                       AddMessageTurn(newSessionPromptState(n), "request", NoTag))
           /\ InOrder(v, d \o AddEvents(newSessionPromptState(n), "request", NoTag))
<1> DEFINE z == newSessionPromptState(n)
           t == NewTurn(n, "request", NoTag)
           r == AddMessageTurn(z, "request", NoTag)
           e == AddEvents(z, "request", NoTag)
           f == d \o e
<1>1. z \in PromptState /\ WellFormed(z) /\ z.live /\ Len(z.turns) = 0 /\ z.next = n
  BY FreshState DEF MaxOf
<1> HIDE DEF z
<1>2. t \in Turn /\ t.idx = n /\ t.method = "request" /\ t.fin
  <2>1. "request" \in Methods /\ NoTag \in Tags /\ "request" \notin TextMethods
    BY DEF Methods, Tags, TextMethods
  <2> QED BY <2>1, NewTurnType
<1> HIDE DEF t
<1>3. MergeTargets(z, "request", NoTag) = {} /\ ~HasOpenText(z)
  BY <1>1 DEF MergeTargets, HasOpenText
<1>4. r = UpdateTurn(Sealed(z), t) /\ e = SealEvents(z) \o <<t>> /\ SealEvents(z) = << >>
  BY <1>1, <1>3 DEF AddMessageTurn, AddEvents, SealEvents, t
<1> HIDE DEF r, e
<1>5. Len(r.turns) = 1 /\ r.turns[1] = t /\ r.next = n + 1
  <2>1. t.idx = z.next /\ (t.fin \/ t.method \in TextMethods)
    BY <1>1, <1>2
  <2>2. /\ UpdateTurn(Sealed(z), t).next = z.next + 1
        /\ Len(UpdateTurn(Sealed(z), t).turns) = Len(z.turns) + 1
        /\ UpdateTurn(Sealed(z), t).turns[Len(z.turns) + 1] = t
    BY <1>1, <1>2, <2>1, SealAndAppend, Zenon
  <2> QED BY <1>1, <1>4, <2>2
<1>6. e \in Seq(Turn) /\ Len(e) = 1 /\ e[1] = t
  BY <1>2, <1>4
<1>7. /\ f \in Seq(Turn) /\ Len(f) = Len(d) + 1 /\ f[Len(d) + 1] = t
      /\ \A i \in 1..Len(d) : f[i] = d[i]
  BY <1>6, ConcatOne
<1> HIDE DEF f
<1>8. \A i \in 1..Len(f) : f[i] = t \/ (f[i].fin /\ f[i].idx < n)
  <2> TAKE i \in 1..Len(f)
  <2>1. i \in 1..Len(d) \/ i = Len(d) + 1
    BY <1>7
  <2> QED BY <1>7, <2>1
<1>9. InOrder(v, f)
  <2>1. \A i \in 1..Len(f) : f[i].fin
    BY <1>2, <1>8
  <2>2. \A u \in v : u.fin
    BY DEF SettledView
  <2> QED BY <1>7, <2>1, <2>2, FinishedInOrder
<1>10. Follows(ViewAfter(v, f), r)
  <2> SUFFICES ASSUME NEW u \in ViewAfter(v, f) PROVE u.fin /\ u.idx < n + 1
    BY <1>5 DEF Follows
  <2>1. u \in v \/ \E i \in 1..Len(f) : u = f[i]
    BY ViewAfterFacts
  <2>2. u = t \/ (u.fin /\ u.idx < n)
    BY <1>8, <2>1 DEF SettledView
  <2>3. u \in Turn
    BY <1>7, ViewAfterType
  <2>4. u.idx \in Nat
    BY <2>3 DEF Turn
  <2> QED BY <1>2, <2>2, <2>4
<1> QED BY <1>9, <1>10 DEF f, e, r, z

\* Behind a terminal state everything published is finished.
LEMMA TerminalSettled ==
    ASSUME NEW s \in PromptState, WellFormed(s), Terminal(s), NEW v, Follows(v, s)
    PROVE  SettledView(v, s.next) /\ s.turns[Len(s.turns)].fin /\ s.turns[Len(s.turns)].idx < s.next
<1>1. Len(s.turns) \in 1..Len(s.turns) /\ s.turns[Len(s.turns)].method = "done"
  BY LastTurn DEF Terminal
<1>2. s.turns[Len(s.turns)].fin /\ s.turns[Len(s.turns)].idx < s.next
  BY <1>1 DEF WellFormed, TextMethods
<1> QED BY <1>2 DEF SettledView, Follows

\* The steps of the lock holder that publish nothing.
LEMMA PublishQuietStep ==
    ASSUME CoreInv, PublishInv, ~CanCompact,
           \/ PromptStartLost \/ SessionInfoUpdate \/ PromptFinishedIgnored
           \/ PersistLoad \/ PersistenceGap \/ WriteTurn \/ WriteRefused \/ PersistSave
           \/ UpsertLoad \/ UpsertSave \/ StoreFails \/ OperationStarted \/ OperationEnded
    PROVE  PublishInv' /\ InOrder(view, out')
<1> DEFINE Calm == /\ UNCHANGED <<state, nextIdx, view>> /\ out' = << >>
                   /\ nextIdx = 0 /\ Len(state.turns) = 0 => row'.latest = row.latest
                   /\ FreshCopies' /\ NoOperation'
<1>0. TypeOK /\ LockShape /\ FreshCopies /\ NoOperation /\ ~CanCompact
  BY DEF CoreInv, PublishInv
<1> SUFFICES Calm
  <2>1. InOrder(view, << >>)
    BY NoneInOrder
  <2>2. Len(state.turns) > 0 \/ NextSessionTurnIndex' = NextSessionTurnIndex
    BY <1>0, LastTurn DEF TypeOK, NextSessionTurnIndex
  <2>3. ViewShape' /\ LiveStart'
    BY <2>2 DEF PublishInv, ViewShape, LiveStart
  <2> QED BY <2>1, <2>3 DEF PublishInv
<1>1. CASE PromptStartLost
  BY <1>0, <1>1 DEF TypeOK, LockShape, FreshCopies, NoOperation, Terminal, PromptStartLost, PublishNothing, lockVars, budget
<1>2. CASE SessionInfoUpdate
  BY <1>0, <1>2 DEF TypeOK, LockShape, FreshCopies, NoOperation, Terminal, SessionInfoUpdate, Take, PublishNothing, lockVars, budget
<1>3. CASE PromptFinishedIgnored
  BY <1>0, <1>3 DEF TypeOK, LockShape, FreshCopies, NoOperation, Terminal, PromptFinishedIgnored, PublishNothing, lockVars, budget
<1>4. CASE PersistLoad
  BY <1>0, <1>4 DEF TypeOK, LockShape, FreshCopies, NoOperation, Terminal, PersistLoad, PublishNothing, lockVars, budget
<1>5. CASE PersistenceGap
  BY <1>0, <1>5 DEF TypeOK, LockShape, FreshCopies, NoOperation, Terminal, PersistenceGap, Release, ExecAfter, NoTask, PublishNothing, lockVars, budget
<1>6. CASE WriteTurn
  BY <1>0, <1>6 DEF TypeOK, LockShape, FreshCopies, NoOperation, Terminal, WriteTurn, PublishNothing, lockVars, budget
<1>7. CASE WriteRefused
  BY <1>0, <1>7 DEF TypeOK, LockShape, FreshCopies, NoOperation, Terminal, WriteRefused, Release, ExecAfter, NoTask, PublishNothing, lockVars, budget
<1>8. CASE PersistSave
  BY <1>0, <1>8 DEF TypeOK, LockShape, FreshCopies, NoOperation, Terminal, PersistSave, PublishNothing, lockVars, budget
<1>9. CASE UpsertLoad
  BY <1>0, <1>9 DEF TypeOK, LockShape, FreshCopies, NoOperation, Terminal, UpsertLoad, PublishNothing, lockVars, budget
<1>10. CASE UpsertSave
  BY <1>0, <1>10 DEF TypeOK, LockShape, FreshCopies, NoOperation, Terminal, UpsertSave, Release, NoTask, PublishNothing, lockVars, budget
<1>11. CASE StoreFails
  BY <1>0, <1>11 DEF TypeOK, LockShape, FreshCopies, NoOperation, Terminal, StoreFails, Release, ExecAfter, NoTask, PublishNothing, lockVars, budget
<1>12. CASE OperationStarted
  BY <1>0, <1>12 DEF TypeOK, LockShape, FreshCopies, NoOperation, Terminal, OperationStarted, lockVars, budget
<1>13. CASE OperationEnded
  BY <1>0, <1>13 DEF TypeOK, LockShape, FreshCopies, NoOperation, Terminal, OperationEnded, lockVars, budget
<1> QED BY <1>1, <1>2, <1>3, <1>4, <1>5, <1>6, <1>7, <1>8, <1>9, <1>10, <1>11, <1>12, <1>13

\* The calls without writeMu publish nothing.
LEMMA PublishClientStep ==
    ASSUME CoreInv, PublishInv, NEW c \in Clients,
           \/ MarkReadLoad(c) \/ MarkReadSave(c) \/ RenameLoad(c) \/ RenameSave(c)
           \/ ReadLoad(c) \/ ReadLive(c)
    PROVE  PublishInv' /\ InOrder(view, out')
<1> DEFINE Calm == /\ UNCHANGED <<state, nextIdx, view, exec, task>> /\ out' = << >>
                   /\ nextIdx = 0 /\ Len(state.turns) = 0 => row'.latest = row.latest
                   /\ FreshCopies'
<1>0. /\ TypeOK /\ FreshCopies /\ NoOperation
      /\ call \in [Clients -> Call] /\ call[c] \in Call /\ call[c].rec \in Row /\ row \in Row
      /\ call[c].arg \in Nat
  <2>1. TypeOK /\ FreshCopies /\ NoOperation
    BY DEF CoreInv, PublishInv
  <2>2. call \in [Clients -> Call] /\ call[c] \in Call /\ row \in Row
    BY <2>1 DEF TypeOK
  <2> QED BY <2>1, <2>2 DEF Call
<1> SUFFICES Calm
  <2>1. InOrder(view, << >>)
    BY NoneInOrder
  <2>2. Len(state.turns) > 0 \/ NextSessionTurnIndex' = NextSessionTurnIndex
    BY <1>0, LastTurn DEF TypeOK, NextSessionTurnIndex
  <2>3. ViewShape' /\ LiveStart' /\ NoOperation'
    BY <2>2 DEF PublishInv, ViewShape, LiveStart, NoOperation
  <2> QED BY <2>1, <2>3 DEF PublishInv
<1>1. ASSUME NEW r \in Row, r.latest = row.latest, NEW x, x.rec = r,
             call' = [call EXCEPT ![c] = x], UNCHANGED <<row, state, nextIdx, pc, rec>>
      PROVE  FreshCopies'
  BY <1>0, <1>1 DEF FreshCopies
<1>2. CASE MarkReadLoad(c)
  <2>1. PICK t \in view : call' = [call EXCEPT ![c] = [NoCall EXCEPT !.op = "mark", !.rec = row, !.arg = t.idx]]
    BY <1>2 DEF MarkReadLoad
  <2>2. [NoCall EXCEPT !.op = "mark", !.rec = row, !.arg = t.idx].rec = row
    BY DEF NoCall
  <2>3. FreshCopies'
    BY <1>0, <1>1, <1>2, <2>1, <2>2 DEF MarkReadLoad, lockVars
  <2> QED BY <1>2, <2>3 DEF MarkReadLoad, PublishNothing, lockVars
<1>3. CASE RenameLoad(c)
  <2>1. call' = [call EXCEPT ![c] = [NoCall EXCEPT !.op = "rename", !.rec = row]]
    BY <1>3 DEF RenameLoad
  <2>2. [NoCall EXCEPT !.op = "rename", !.rec = row].rec = row
    BY DEF NoCall
  <2>3. FreshCopies'
    BY <1>0, <1>1, <1>3, <2>1, <2>2 DEF RenameLoad, lockVars
  <2> QED BY <1>3, <2>3 DEF RenameLoad, PublishNothing, lockVars
<1>4. CASE ReadLoad(c)
  <2>1. PICK after \in 0..row.latest :
           call' = [call EXCEPT ![c] = [NoCall EXCEPT !.op = "read", !.rec = row, !.arg = after]]
    BY <1>4 DEF ReadLoad
  <2>2. [NoCall EXCEPT !.op = "read", !.rec = row, !.arg = after].rec = row
    BY DEF NoCall
  <2>3. FreshCopies'
    BY <1>0, <1>1, <1>4, <2>1, <2>2 DEF ReadLoad, lockVars
  <2> QED BY <1>4, <2>3 DEF ReadLoad, PublishNothing, lockVars
<1>5. ASSUME UNCHANGED <<state, nextIdx, pc, rec>>, call[c].op \in {"mark", "rename"},
             row' = row \/ row'.latest = call[c].rec.latest,
             call' = [call EXCEPT ![c] = NoCall]
      PROVE  /\ nextIdx = 0 /\ Len(state.turns) = 0 => row'.latest = row.latest
             /\ FreshCopies'
  <2>1. nextIdx = 0 /\ Len(state.turns) = 0 => row'.latest = row.latest
    BY <1>0, <1>5 DEF FreshCopies
  <2>2. FreshCopies'
    BY <1>0, <1>5, <2>1 DEF FreshCopies, NoCall
  <2> QED BY <2>1, <2>2
<1>6. CASE MarkReadSave(c)
  <2>1. \A n : [call[c].rec EXCEPT !.read = n].latest = call[c].rec.latest
    BY <1>0 DEF Row
  <2>2. row' = row \/ row'.latest = call[c].rec.latest
    BY <1>6, <2>1 DEF MarkReadSave
  <2> QED BY <1>5, <1>6, <2>2 DEF MarkReadSave, PublishNothing, lockVars
<1>7. CASE RenameSave(c)
  <2>1. [call[c].rec EXCEPT !.renamed = TRUE].latest = call[c].rec.latest
    BY <1>0 DEF Row
  <2>2. row'.latest = call[c].rec.latest
    BY <1>7, <2>1 DEF RenameSave
  <2> QED BY <1>5, <1>7, <2>2 DEF RenameSave, PublishNothing, lockVars
<1>8. CASE ReadLive(c)
  <2>1. FreshCopies'
    BY <1>0, <1>8 DEF ReadLive, FreshCopies, lockVars
  <2> QED BY <1>8, <2>1 DEF ReadLive, PublishNothing, lockVars
<1> QED BY <1>2, <1>3, <1>4, <1>6, <1>7, <1>8

\* The steps that change the prompt state or publish turns.
LEMMA PublishStateStep ==
    ASSUME CoreInv, CoreInv', PublishInv,
           \/ PromptStarted \/ PromptStartedInterrupting
           \/ \E mth \in AgentMethods, k \in Tags : UpdateMessage(mth, k)
           \/ ReplyAndEnd \/ ArtifactWriteFails
           \/ \E reason \in StopReasons : PromptFinished(reason)
           \/ FinishSave \/ InterruptSave \/ OperationSave \/ Crash
    PROVE  PublishInv' /\ InOrder(view, out')
<1>0. /\ TypeOK /\ LockShape /\ ViewShape /\ FreshCopies /\ LiveStart /\ NoOperation
      /\ state \in PromptState /\ WellFormed(state) /\ view \in SUBSET Turn
      /\ state.next \in Nat \ {0} /\ NextSessionTurnIndex \in Nat \ {0}
      /\ Len(state.turns) \in Nat
  <2>1. TypeOK /\ LockShape /\ ViewShape /\ FreshCopies /\ LiveStart /\ NoOperation /\ WellFormed(state)
    BY DEF CoreInv, PublishInv, StateShape
  <2>2. state \in PromptState /\ view \in SUBSET Turn /\ nextIdx \in Nat /\ row.latest \in Nat
    BY <2>1 DEF TypeOK, Row
  <2>3. NextSessionTurnIndex \in Nat \ {0}
    BY <2>2 DEF NextSessionTurnIndex
  <2> QED BY <2>1, <2>2, <2>3, LastTurn
<1>1. Len(state.turns) > 0 \/ state.live => Follows(view, state)
  BY <1>0 DEF ViewShape, LiveStart, SettledView, Follows
<1>20. EnsuredState \in PromptState /\ WellFormed(EnsuredState) /\ EnsuredState.live /\ Follows(view, EnsuredState)
  <2>1. CASE state.live
    BY <1>0, <1>1, <2>1 DEF EnsuredState
  <2>2. CASE ~state.live
    <3> DEFINE z == newSessionPromptState(NextSessionTurnIndex)
    <3>1. EnsuredState = z
      BY <2>2 DEF EnsuredState
    <3>2. z \in PromptState /\ WellFormed(z) /\ z.live /\ z.next = NextSessionTurnIndex
      BY <1>0, FreshState DEF MaxOf
    <3>3. SettledView(view, NextSessionTurnIndex)
      BY <1>0, <2>2 DEF ViewShape, WellFormed
    <3> HIDE DEF z
    <3> QED BY <3>1, <3>2, <3>3 DEF SettledView, Follows
  <2> QED BY <2>1, <2>2
<1>2. Len(state'.turns) > 0 /\ Follows(view', state') => ViewShape' /\ LiveStart' /\ FreshCopies'
  BY DEF ViewShape, LiveStart, FreshCopies
<1>3. Terminal(state) => SettledView(view, state.next)
  BY <1>0, <1>1, TerminalSettled DEF Terminal
<1>4. CASE PromptStarted
  <2> DEFINE base == IF Len(state.turns) = 0
                     THEN NextSessionTurnIndex
                     ELSE MaxOf(state.next, NextSessionTurnIndex)
  <2>1. /\ base \in Nat \ {0}
        /\ Len(state.turns) = 0 => base = NextSessionTurnIndex
        /\ Len(state.turns) > 0 => base >= state.next
    BY <1>0 DEF MaxOf
  <2>2. StartRequest(base, << >>) /\ (Len(state.turns) = 0 \/ Terminal(state)) /\ exec' = "prompt"
    BY <1>4 DEF PromptStarted
  <2> HIDE DEF base
  <2>3. SettledView(view, base)
    <3>1. CASE Len(state.turns) = 0
      BY <1>0, <2>1, <3>1 DEF ViewShape
    <3>2. CASE Terminal(state)
      <4>1. SettledView(view, state.next) /\ base >= state.next
        BY <1>0, <1>3, <2>1, <3>2 DEF Terminal
      <4>2. \A t \in view : t.idx \in Nat
        BY <1>0 DEF Turn
      <4> QED BY <1>0, <2>1, <4>1, <4>2 DEF SettledView
    <3> QED BY <2>2, <3>1, <3>2
  <2>4. Follows(view', state') /\ InOrder(view, out')
    <3>1. << >> \in Seq(Turn) /\ \A i \in 1..Len(<< >>) : <<>>[i].fin /\ <<>>[i].idx < base
      OBVIOUS
    <3> QED BY <1>0, <2>1, <2>2, <2>3, <3>1, StartPublishes DEF StartRequest, Publish
  <2>5. Len(state'.turns) > 0
    BY <2>1, <2>2, StartFacts DEF StartRequest
  <2>6. NoOperation'
    BY <2>2 DEF StartRequest, Take, NoOperation
  <2> QED BY <1>2, <2>4, <2>5, <2>6 DEF PublishInv
<1>5. CASE PromptStartedInterrupting
  <2>1. /\ FinishPrompt(state, "interrupted", "interrupt") /\ "interrupted" \in StopReasons
        /\ Len(state.turns) > 0 /\ state.live /\ exec' = "prompt"
    BY <1>0, <1>5, LastTurn DEF PromptStartedInterrupting, StopReasons, WellFormed
  <2>2. state' = Finished(state, "interrupted") /\ Publish(SealEvents(state))
    BY <2>1 DEF FinishPrompt, Finished
  <2>3. Follows(view', state') /\ InOrder(view, out') /\ Len(state'.turns) > 0
    BY <1>0, <1>1, <2>1, <2>2, FinishedFacts DEF Publish
  <2>4. NoOperation'
    BY <2>1 DEF FinishPrompt, Take, NoOperation
  <2> QED BY <1>2, <2>3, <2>4 DEF PublishInv
<1>6. ASSUME NEW mth \in AgentMethods, NEW k \in Tags, UpdateMessage(mth, k)
      PROVE  PublishInv' /\ InOrder(view, out')
  <2>1. mth \in Methods /\ state.live
    BY <1>0, <1>6 DEF UpdateMessage, Methods
  <2>2. state' = AddMessageTurn(state, mth, k) /\ Publish(AddEvents(state, mth, k))
    BY <1>6 DEF UpdateMessage
  <2>3. Follows(view', state') /\ InOrder(view, out') /\ Len(state'.turns) > 0
    BY <1>0, <1>1, <2>1, <2>2, AddMessageTurnFacts DEF Publish
  <2>4. NoOperation'
    BY <1>0, <1>6 DEF UpdateMessage, NoOperation, lockVars
  <2> QED BY <1>2, <2>3, <2>4 DEF PublishInv
<1>7. CASE ReplyAndEnd
  <2>1. NoOperation'
    BY <1>0, <1>7 DEF ReplyAndEnd, NoOperation, lockVars
  <2>2. CASE /\ state.live /\ state' = AddMessageTurn(state, "system", NoTag)
             /\ Publish(AddEvents(state, "system", NoTag))
    <3>1. "system" \in Methods /\ NoTag \in Tags
      BY DEF Methods, AgentMethods, Tags
    <3>2. Follows(view', state') /\ InOrder(view, out') /\ Len(state'.turns) > 0
      BY <1>0, <1>1, <2>2, <3>1, AddMessageTurnFacts DEF Publish
    <3> QED BY <1>2, <2>1, <3>2 DEF PublishInv
  <2>3. CASE PublishNothing /\ UNCHANGED state
    <3>1. UNCHANGED <<row, nextIdx, pc, rec, call, view, state>> /\ out' = << >>
      BY <1>7, <2>3 DEF ReplyAndEnd, PublishNothing, lockVars
    <3>2. ViewShape' /\ LiveStart' /\ FreshCopies'
      BY <1>0, <3>1 DEF ViewShape, LiveStart, FreshCopies, NextSessionTurnIndex
    <3> QED BY <2>1, <3>1, <3>2, NoneInOrder DEF PublishInv
  <2> QED BY <1>7, <2>2, <2>3 DEF ReplyAndEnd
<1>8. CASE ArtifactWriteFails
  <2>1. /\ state' = Sealed(EnsuredState) /\ Publish(SealEvents(EnsuredState))
        /\ UNCHANGED <<row, nextIdx, pc, rec, call>>
    BY <1>8 DEF ArtifactWriteFails, lockVars
  <2>2. Follows(view', state') /\ InOrder(view, out')
    BY <1>0, <1>20, <2>1, SealPublishes DEF Publish
  <2>3. /\ Len(state'.turns) = Len(EnsuredState.turns) /\ state'.next = EnsuredState.next
        /\ Len(EnsuredState.turns) \in Nat
    BY <1>20, <2>1, SealedFacts, LastTurn
  <2>4. NoOperation'
    BY <1>0, <1>8 DEF ArtifactWriteFails, NoOperation, lockVars
  <2>5. CASE Len(EnsuredState.turns) > 0
    BY <1>2, <2>2, <2>3, <2>4, <2>5 DEF PublishInv
  <2>6. CASE Len(EnsuredState.turns) = 0
    <3>1. Len(state.turns) = 0 /\ EnsuredState.next = NextSessionTurnIndex
      <4>1. CASE state.live
        BY <1>0, <2>6, <4>1 DEF EnsuredState, LiveStart
      <4>2. CASE ~state.live
        BY <1>0, <4>2, FreshState DEF EnsuredState, WellFormed, MaxOf
      <4> QED BY <4>1, <4>2
    <3>2. Len(state'.turns) = 0 /\ state'.next = NextSessionTurnIndex
      BY <2>3, <2>6, <3>1
    <3>3. NextSessionTurnIndex' = NextSessionTurnIndex
      BY <2>1 DEF NextSessionTurnIndex
    <3>4. SettledView(view', NextSessionTurnIndex)
      BY <2>2, <3>2 DEF Follows, SettledView
    <3>5. ViewShape' /\ LiveStart'
      BY <3>2, <3>3, <3>4 DEF ViewShape, LiveStart
    <3>6. FreshCopies'
      BY <1>0, <2>1, <3>1 DEF FreshCopies
    <3> QED BY <2>2, <2>4, <3>5, <3>6 DEF PublishInv
  <2> QED BY <2>3, <2>5, <2>6
<1>9. ASSUME NEW reason \in StopReasons, PromptFinished(reason)
      PROVE  PublishInv' /\ InOrder(view, out')
  <2> DEFINE z == EnsuredState
  <2>1. FinishPrompt(z, reason, "finish") /\ UNCHANGED exec
    BY <1>9 DEF PromptFinished
  <2>2. z \in PromptState /\ WellFormed(z) /\ z.live /\ Follows(view, z)
    BY <1>20
  <2> HIDE DEF z
  <2>3. state' = Finished(z, reason) /\ Publish(SealEvents(z))
    BY <2>1 DEF FinishPrompt, Finished
  <2>4. Follows(view', state') /\ InOrder(view, out') /\ Len(state'.turns) > 0
    BY <1>0, <2>2, <2>3, FinishedFacts DEF Publish
  <2>5. NoOperation'
    BY <1>0, <2>1 DEF FinishPrompt, Take, NoOperation
  <2> QED BY <1>2, <2>4, <2>5 DEF PublishInv
<1>10. ASSUME task.kind \in {"finish", "interrupt"}
       PROVE  /\ SettledView(view, state.next) /\ DoneEvents(state) \in Seq(Turn)
              /\ \A i \in 1..Len(DoneEvents(state)) :
                    DoneEvents(state)[i].fin /\ DoneEvents(state)[i].idx < state.next
  <2>1. Terminal(state) /\ Len(state.turns) > 0
    BY <1>0, <1>10 DEF LockShape, Terminal
  <2>2. /\ SettledView(view, state.next) /\ state.turns[Len(state.turns)].fin
        /\ state.turns[Len(state.turns)].idx < state.next
    BY <1>0, <1>1, <2>1, TerminalSettled
  <2>3. state.turns[Len(state.turns)] \in Turn
    BY <1>0, <2>1, LastTurn
  <2>4. CASE task.publishDone
    <3> DEFINE u == state.turns[Len(state.turns)]
    <3>1. DoneEvents(state) = <<u>>
      BY <2>4 DEF DoneEvents
    <3> HIDE DEF u
    <3>2. <<u>> \in Seq(Turn) /\ Len(<<u>>) = 1 /\ <<u>>[1] = u
      BY <2>3 DEF u
    <3>3. u.fin /\ u.idx < state.next
      BY <2>2 DEF u
    <3>4. \A i \in 1..Len(<<u>>) : <<u>>[i].fin /\ <<u>>[i].idx < state.next
      BY <3>2, <3>3
    <3> QED BY <2>2, <3>1, <3>2, <3>4
  <2>5. CASE ~task.publishDone
    <3>1. DoneEvents(state) = << >>
      BY <2>5 DEF DoneEvents
    <3> QED BY <2>2, <3>1
  <2> QED BY <2>4, <2>5
<1>11. CASE FinishSave
  <2> DEFINE d == DoneEvents(state)
  <2>1. /\ d \in Seq(Turn) /\ SettledView(view, state.next)
        /\ \A i \in 1..Len(d) : d[i].fin /\ d[i].idx < state.next
    BY <1>10, <1>11 DEF FinishSave
  <2>2. out' = d /\ view' = ViewAfter(view, d) /\ state' = NoState /\ nextIdx' = state.next
    BY <1>11 DEF FinishSave, Publish
  <2> HIDE DEF d
  <2>3. InOrder(view, out')
    <3>1. \A t \in view : t.fin
      BY <2>1 DEF SettledView
    <3> QED BY <1>0, <2>1, <2>2, <3>1, FinishedInOrder
  <2>4. SettledView(view', state.next)
    <3> SUFFICES ASSUME NEW t \in ViewAfter(view, d) PROVE t.fin /\ t.idx < state.next
      BY <2>2 DEF SettledView
    <3>1. t \in view \/ \E i \in 1..Len(d) : t = d[i]
      BY ViewAfterFacts
    <3> QED BY <2>1, <3>1 DEF SettledView
  <2>5. nextIdx' > 0 /\ Len(state'.turns) = 0 /\ ~state'.live /\ NextSessionTurnIndex' = state.next
    BY <1>0, <2>2 DEF NoState, NextSessionTurnIndex
  <2>6. ViewShape' /\ LiveStart' /\ FreshCopies'
    BY <2>4, <2>5 DEF ViewShape, LiveStart, FreshCopies
  <2>7. NoOperation'
    BY <1>11 DEF FinishSave, Release, NoTask, ExecAfter, NoOperation
  <2> QED BY <2>3, <2>6, <2>7 DEF PublishInv
<1>12. CASE InterruptSave
  <2> DEFINE d == DoneEvents(state)
  <2>1. /\ d \in Seq(Turn) /\ SettledView(view, state.next)
        /\ \A i \in 1..Len(d) : d[i].fin /\ d[i].idx < state.next
    BY <1>10, <1>12 DEF InterruptSave
  <2>2. StartRequest(state.next, d) /\ UNCHANGED exec
    BY <1>12 DEF InterruptSave
  <2> HIDE DEF d
  <2>3. Follows(view', state') /\ InOrder(view, out')
    BY <1>0, <2>1, <2>2, StartPublishes DEF StartRequest, Publish
  <2>4. Len(state'.turns) > 0
    BY <1>0, <2>2, StartFacts DEF StartRequest
  <2>5. NoOperation'
    BY <1>0, <2>2 DEF StartRequest, Take, NoOperation
  <2> QED BY <1>2, <2>3, <2>4, <2>5 DEF PublishInv
<1>13. CASE OperationSave
  BY <1>0, <1>13 DEF OperationSave, NoOperation
<1>14. CASE Crash
  <2>1. /\ state' = NoState /\ nextIdx' = 0 /\ row' = row /\ view' = Persisted /\ out' = << >>
        /\ pc' = "free" /\ exec' = "idle" /\ task' = NoTask /\ call' = [c \in Clients |-> NoCall]
    BY <1>14 DEF Crash, Release
  <2>2. Len(state'.turns) = 0 /\ ~state'.live /\ NextSessionTurnIndex' = row.latest + 1
    BY <2>1 DEF NoState, NextSessionTurnIndex
  <2>3. SettledView(view', row.latest + 1)
    <3>1. row.latest \in Nat
      BY <1>0 DEF TypeOK, Row
    <3>2. \A t \in Persisted : t.fin /\ t.idx \in Nat /\ t.idx <= row.latest
      BY DEF Persisted
    <3> QED BY <2>1, <3>1, <3>2 DEF SettledView
  <2>4. ViewShape' /\ LiveStart' /\ FreshCopies' /\ NoOperation'
    BY <2>1, <2>2, <2>3 DEF ViewShape, LiveStart, FreshCopies, NoOperation, NoTask, NoCall
  <2> QED BY <2>1, <2>4, NoneInOrder DEF PublishInv
<1> QED BY <1>4, <1>5, <1>6, <1>7, <1>8, <1>9, <1>11, <1>12, <1>13, <1>14

\* Nothing is published and nothing persisted initially.
LEMMA PublishInit ==
    ASSUME Init
    PROVE  PublishInv
<1>1. Len(state.turns) = 0 /\ ~state.live
  BY DEF Init, NoState
<1> QED BY <1>1 DEF Init, PublishInv, ViewShape, SettledView, FreshCopies, LiveStart,
                    NoOperation, NoTask, NoCall

\* Every step of a recorder without compaction keeps the invariant and publishes
\* in order.
LEMMA PublishStep ==
    ASSUME ~CanCompact, CoreInv, PublishInv, Next
    PROVE  PublishInv' /\ InOrder(view, out')
<1>0. CoreInv'
  BY CoreStep
<1>1. ASSUME AgentUpdate PROVE PublishInv' /\ InOrder(view, out')
  <2>1. \A m \in UpdateMethods : m \in AgentMethods
    BY ConstantsAssumption
  <2>2. NoTag \in Tags /\ \A k \in ToolCalls : k \in Tags
    BY DEF Tags
  <2>3. \E m \in AgentMethods, k \in Tags : UpdateMessage(m, k)
    BY <1>1, <2>1, <2>2 DEF AgentUpdate, AgentMethods
  <2> QED BY <1>0, <2>3, PublishStateStep
<1>2. ASSUME Handler PROVE PublishInv' /\ InOrder(view, out')
  BY <1>0, <1>2, PublishQuietStep, PublishStateStep DEF Handler
<1>3. ASSUME \E c \in Clients : \/ MarkReadLoad(c) \/ MarkReadSave(c) \/ RenameLoad(c)
                                \/ RenameSave(c) \/ ReadLoad(c) \/ ReadLive(c)
      PROVE  PublishInv' /\ InOrder(view, out')
  BY <1>3, PublishClientStep
<1>4. ASSUME \/ PromptStarted \/ PromptStartedInterrupting \/ ReplyAndEnd \/ ArtifactWriteFails
             \/ \E reason \in StopReasons \ {"interrupted"} : PromptFinished(reason)
             \/ Crash
      PROVE  PublishInv' /\ InOrder(view, out')
  BY <1>0, <1>4, PublishStateStep
<1>5. ASSUME \/ PromptStartLost \/ SessionInfoUpdate \/ PromptFinishedIgnored
             \/ OperationStarted \/ OperationEnded \/ StoreFails
      PROVE  PublishInv' /\ InOrder(view, out')
  BY <1>5, PublishQuietStep
<1> QED BY <1>1, <1>2, <1>3, <1>4, <1>5 DEF Next

\* Without compaction the two invariants are kept together.
THEOREM PublishInvariance ==
    ASSUME ~CanCompact
    PROVE  Spec => [](CoreInv /\ PublishInv)
<1>1. Init => CoreInv /\ PublishInv
  BY CoreInit, PublishInit
<1>2. CoreInv /\ PublishInv /\ [Next]_vars => (CoreInv /\ PublishInv)'
  <2> SUFFICES ASSUME CoreInv, PublishInv, [Next]_vars PROVE CoreInv' /\ PublishInv'
    OBVIOUS
  <2>1. CoreInv'
    BY CoreStep
  <2>2. CASE Next
    BY <2>1, <2>2, PublishStep
  <2>3. CASE UNCHANGED vars
    BY <2>1, <2>3 DEF PublishInv, ViewShape, SettledView, FreshCopies, LiveStart, NoOperation,
                      NextSessionTurnIndex, vars
  <2> QED BY <2>1, <2>2, <2>3
<1> QED BY <1>1, <1>2, PTL DEF Spec

\* Without compaction subscribers hold at most one unfinished turn and it is the
\* last one, whatever faults, crashes and unlocked saves of the row happen:
\* indices are never handed out twice below an open text.
THEOREM UnfinishedTailAlways ==
    ASSUME ~CanCompact
    PROVE  Spec => []UnfinishedTail
<1>1. CoreInv /\ PublishInv => UnfinishedTail
  <2> SUFFICES ASSUME CoreInv, PublishInv PROVE UnfinishedTail
    OBVIOUS
  <2>1. state \in PromptState /\ WellFormed(state) /\ view \in SUBSET Turn /\ ViewShape
    BY DEF CoreInv, PublishInv, TypeOK, StateShape
  <2>2. OpenTurnIsLast
    BY <2>1 DEF WellFormed, OpenTurnIsLast
  <2>3. ASSUME NEW t \in view, ~t.fin, NEW u \in view PROVE u.idx <= t.idx
    <3>1. Len(state.turns) > 0 /\ Follows(view, state)
      BY <2>1, <2>3 DEF ViewShape, SettledView
    <3>2. t = state.turns[Len(state.turns)] /\ u.idx < state.next
      BY <2>3, <3>1 DEF Follows
    <3>3. t.idx + 1 = state.next
      BY <2>1, <3>1, <3>2 DEF WellFormed
    <3>4. t.idx \in Nat /\ u.idx \in Nat
      BY <2>1 DEF Turn
    <3> QED BY <3>2, <3>3, <3>4
  <2> QED BY <2>2, <2>3 DEF UnfinishedTail
<1> QED BY <1>1, PublishInvariance, PTL

\* Without compaction no turn is ever published beyond one that subscribers still
\* hold as unfinished: the seal of an open text always goes out first.
THEOREM SealBeforeNextAlways ==
    ASSUME ~CanCompact
    PROVE  Spec => SealBeforeNext
<1>1. CoreInv /\ PublishInv /\ [Next]_vars =>
        [\A i \in 1..Len(out') :
            \A t \in ViewAfter(view, SubSeq(out', 1, i - 1)) : t.idx < out'[i].idx => t.fin]_vars
  <2> SUFFICES ASSUME CoreInv, PublishInv, Next PROVE InOrder(view, out')
    BY DEF InOrder
  <2> QED BY PublishStep
<1> QED BY <1>1, PublishInvariance, PTL DEF Spec, SealBeforeNext

-----------------------------------------------------------------------------
(* session.read *)

\* What ReadSessionTurns puts together ends in the only turn that may be open:
\* the persisted turns are finished and lie below the live ones it adds.
LEMMA ReadResultTail ==
    ASSUME state \in PromptState, WellFormed(state), NEW r \in Row, NEW n \in Nat,
           NEW s \in ReadResult(r, n), ~s.fin, NEW u \in ReadResult(r, n)
    PROVE  u.idx <= s.idx
<1> DEFINE L == {j \in 1..Len(state.turns) :
                    state.turns[j].idx > n /\ state.turns[j].idx > r.latest}
<1>0. /\ r.latest \in Nat /\ Len(state.turns) \in Nat
      /\ \A i \in 1..Len(state.turns) : state.turns[i].idx \in Nat
  <2>1. \A i \in 1..Len(state.turns) : state.turns[i] \in Turn
    BY LastTurn
  <2> QED BY <2>1, LastTurn, RowTypes DEF Turn
<1>1. \A x \in ReadResult(r, n) :
         \/ \E i \in (n + 1)..r.latest : x = [idx |-> i, fin |-> TRUE]
         \/ \E i \in L : x = [idx |-> state.turns[i].idx, fin |-> state.turns[i].fin]
  BY DEF ReadResult
<1>2. PICK i \in L : s.idx = state.turns[i].idx /\ s.fin = state.turns[i].fin
  BY <1>1
<1>3. i \in 1..Len(state.turns) /\ i = Len(state.turns) /\ state.turns[i].idx > r.latest
  BY <1>2 DEF WellFormed
<1>4. CASE \E j \in (n + 1)..r.latest : u = [idx |-> j, fin |-> TRUE]
  BY <1>0, <1>2, <1>3, <1>4
<1>5. CASE \E j \in L : u = [idx |-> state.turns[j].idx, fin |-> state.turns[j].fin]
  <2>1. PICK j \in L : u.idx = state.turns[j].idx
    BY <1>5
  <2>2. j = i \/ state.turns[j].idx < state.turns[i].idx
    BY <1>0, <1>3, <2>1 DEF WellFormed
  <2> QED BY <1>0, <1>2, <1>3, <2>1, <2>2
<1> QED BY <1>1, <1>4, <1>5

\* A call that is not an answered read when the step ends, or that the step does
\* not touch, leaves the other answers as they were.
LEMMA ReadTailFrame ==
    ASSUME TypeOK, ReadTail, NEW c \in Clients, NEW x, call' = [call EXCEPT ![c] = x],
           x.op = "answered" => \A s \in x.got : ~s.fin => \A u \in x.got : u.idx <= s.idx
    PROVE  ReadTail'
<1>1. call \in [Clients -> Call]
  BY DEF TypeOK
<1>2. \A d \in Clients : call'[d] = IF d = c THEN x ELSE call[d]
  BY <1>1
<1> QED BY <1>2 DEF ReadTail

\* Every step keeps the answers of the readers in shape.
LEMMA ReadTailStep ==
    ASSUME CoreInv, ReadTail, [Next]_vars
    PROVE  ReadTail'
<1>0. TypeOK /\ state \in PromptState /\ WellFormed(state) /\ call \in [Clients -> Call]
  BY DEF CoreInv, TypeOK, StateShape
<1>1. CASE UNCHANGED call
  BY <1>1 DEF ReadTail
<1>2. ASSUME NEW c \in Clients, MarkReadLoad(c) PROVE ReadTail'
  <2>1. PICK t \in view : call' = [call EXCEPT ![c] = [NoCall EXCEPT !.op = "mark", !.rec = row, !.arg = t.idx]]
    BY <1>2 DEF MarkReadLoad
  <2>2. [NoCall EXCEPT !.op = "mark", !.rec = row, !.arg = t.idx].op = "mark"
    BY DEF NoCall
  <2> QED BY <1>0, <2>1, <2>2, ReadTailFrame
<1>3. ASSUME NEW c \in Clients, RenameLoad(c) PROVE ReadTail'
  <2>1. [NoCall EXCEPT !.op = "rename", !.rec = row].op = "rename"
    BY DEF NoCall
  <2> QED BY <1>0, <1>3, <2>1, ReadTailFrame DEF RenameLoad
<1>4. ASSUME NEW c \in Clients, ReadLoad(c) PROVE ReadTail'
  <2>1. PICK after \in 0..row.latest :
           call' = [call EXCEPT ![c] = [NoCall EXCEPT !.op = "read", !.rec = row, !.arg = after]]
    BY <1>4 DEF ReadLoad
  <2>2. [NoCall EXCEPT !.op = "read", !.rec = row, !.arg = after].op = "read"
    BY DEF NoCall
  <2> QED BY <1>0, <2>1, <2>2, ReadTailFrame
<1>5. ASSUME NEW c \in Clients, MarkReadSave(c) \/ RenameSave(c) PROVE ReadTail'
  <2>1. NoCall.op = "none" /\ call' = [call EXCEPT ![c] = NoCall]
    BY <1>5 DEF NoCall, MarkReadSave, RenameSave
  <2> QED BY <1>0, <2>1, ReadTailFrame
<1>6. ASSUME NEW c \in Clients, ReadLive(c) PROVE ReadTail'
  <2> DEFINE g == ReadResult(call[c].rec, call[c].arg)
             x == [call[c] EXCEPT !.op = "answered", !.got = g]
  <2>1. call[c] \in Call /\ call[c].rec \in Row /\ call[c].arg \in Nat
    BY <1>0 DEF Call
  <2>2. \A s \in g : ~s.fin => \A u \in g : u.idx <= s.idx
    BY <1>0, <2>1, ReadResultTail
  <2> HIDE DEF g
  <2>3. x.got = g
    BY <2>1 DEF Call
  <2>4. call' = [call EXCEPT ![c].op = "answered", ![c].got = g]
    BY <1>6 DEF ReadLive, g
  <2>5. call' = [call EXCEPT ![c] = x]
    BY <1>0, <2>4
  <2> HIDE DEF x
  <2> QED BY <1>0, <2>2, <2>3, <2>5, ReadTailFrame
<1>7. CASE Crash
  <2>1. call' = [c \in Clients |-> NoCall] /\ NoCall.op = "none"
    BY <1>7 DEF Crash, NoCall
  <2> QED BY <2>1 DEF ReadTail
<1>8. CASE /\ Next /\ ~Crash
           /\ ~\E c \in Clients : \/ MarkReadLoad(c) \/ MarkReadSave(c) \/ RenameLoad(c)
                                  \/ RenameSave(c) \/ ReadLoad(c) \/ ReadLive(c)
  <2>1. UNCHANGED call
    BY <1>8 DEF Next, AgentUpdate, Handler, PromptStarted, PromptStartedInterrupting,
        PromptStartLost, UpdateMessage, ReplyAndEnd, SessionInfoUpdate, PromptFinishedIgnored,
        ArtifactWriteFails, PromptFinished, OperationStarted, OperationEnded, Operation,
        PersistLoad, PersistenceGap, WriteTurn, WriteRefused, PersistSave, UpsertLoad,
        UpsertSave, FinishSave, InterruptSave, OperationSave, StoreFails
  <2> QED BY <1>1, <2>1
<1> QED BY <1>1, <1>2, <1>3, <1>4, <1>5, <1>6, <1>7, <1>8 DEF vars

\* A reader gets at most one unfinished turn and it is the last it gets, although
\* ReadSessionTurns takes the row and the live turns at different moments and
\* handlers, faults and stale saves may come between.
THEOREM ReadTailAlways == Spec => []ReadTail
<1>1. Init => ReadTail
  BY DEF Init, ReadTail, NoCall
<1>2. CoreInv /\ ReadTail /\ [Next]_vars => ReadTail'
  BY ReadTailStep
<1> QED BY <1>1, <1>2, CoreInvariance, PTL DEF Spec

-----------------------------------------------------------------------------
(* Durable prompt_done turns and the cursors of the row, without compaction *)

\* n is no turn yet, or the index of a prompt_done turn in the files f.
DoneMark(f, n) == n = 0 \/ (n <= Len(f) /\ f[n].method = "done")

\* The files f hold the turn t as it was published.
InFiles(f, t) == t.idx <= Len(f) /\ f[t.idx] = ContentOf(t)

\* The turn files are only appended to.
Grown(f, g) == Len(f) <= Len(g) /\ \A i \in 1..Len(f) : g[i] = f[i]

\* n is a prompt_done turn among those that are still to be written, w.
Pending(w, n) == \E j \in 1..Len(w) : w[j].idx = n /\ w[j].method = "done"

\* Every copy of the row that may be saved has cursors that name prompt_done turns;
\* the projection in rec may name one that WriteTurns has not reached.
CursorCopies ==
    /\ DoneMark(files, row.done) /\ DoneMark(files, row.read)
    /\ DoneMark(files, rec.read)
    /\ DoneMark(files, rec.done) \/ (pc = "write" /\ Pending(todo, rec.done))
    /\ \A c \in Clients : /\ DoneMark(files, call[c].rec.done) /\ DoneMark(files, call[c].rec.read)
                          /\ call[c].op = "mark" => DoneMark(files, call[c].arg)

\* The index the next turn will get.
NextFree == IF Len(state.turns) > 0 THEN state.next ELSE NextSessionTurnIndex

\* Every copy of the row that may be saved has latestPersistedTurnIndex below n.
LatestBelow(n) ==
    /\ row.latest < n
    /\ pc \in {"write", "save", "upsertSave"} => rec.latest < n
    /\ \A c \in Clients : call[c].op \in {"mark", "rename"} => call[c].rec.latest < n

LastLive == state.turns[Len(state.turns)]

\* A prompt_done that finishPromptStateLocked will publish: not in any copy of the
\* row when the row is loaded, then the last turn to write, then in the files.
DoneOnItsWay ==
    task.publishDone =>
        /\ pc = "persistLoad" => LatestBelow(LastLive.idx)
        /\ pc = "write" => Len(todo) > 0 /\ todo[Len(todo)] = LastLive
        /\ pc \in {"save", "upsertLoad", "upsertSave"} => InFiles(files, LastLive)

DurableInv == CursorCopies /\ LatestBelow(NextFree) /\ DoneOnItsWay /\ DoneIsDurable

\* What the files hold stays there.
LEMMA GrownKeeps ==
    ASSUME NEW f \in Seq(Contents), NEW g \in Seq(Contents), Grown(f, g)
    PROVE  /\ \A n \in Nat : DoneMark(f, n) => DoneMark(g, n)
           /\ \A t \in Turn : InFiles(f, t) => InFiles(g, t)
<1>1. Len(f) \in Nat /\ Len(g) \in Nat
  OBVIOUS
<1>2. ASSUME NEW n \in Nat, n # 0, n <= Len(f) PROVE n <= Len(g) /\ g[n] = f[n]
  BY <1>1, <1>2 DEF Grown
<1>3. \A t \in Turn : t.idx \in Nat /\ t.idx # 0
  BY DEF Turn
<1> QED BY <1>2, <1>3 DEF DoneMark, InFiles

\* Appending is growing.
LEMMA AppendGrows ==
    ASSUME NEW f \in Seq(Contents), NEW x \in Contents
    PROVE  /\ Grown(f, Append(f, x)) /\ Append(f, x) \in Seq(Contents)
           /\ Append(f, x)[Len(f) + 1] = x /\ Len(Append(f, x)) = Len(f) + 1
BY DEF Grown

\* Content of a turn
LEMMA ContentType ==
    ASSUME NEW t \in Turn
    PROVE  ContentOf(t) \in Contents /\ ContentOf(t).method = t.method
BY DEF ContentOf, Contents, Turn

\* The projection that persistSessionStateTurnsLocked computes.
LEMMA ProjectedFacts ==
    ASSUME row \in Row, NEW w \in Seq(Turn), Len(w) > 0
    PROVE  /\ Projected(w).latest = w[Len(w)].idx
           /\ Projected(w).read = row.read
           /\ \/ Projected(w).done = row.done
              \/ \E j \in 1..Len(w) : w[j].idx = Projected(w).done /\ w[j].method = "done"
<1> DEFINE M == DoneTurns(w)
           n == w[Len(w)].idx
           base == [row EXCEPT !.latest = n]
<1>1. base.latest = n /\ base.read = row.read /\ base.done = row.done
  BY DEF Row
<1>2. CASE M = {}
  BY <1>1, <1>2 DEF Projected
<1>3. CASE M # {}
  <2>1. M \in SUBSET (1..Len(w)) /\ Len(w) \in Nat
    BY DEF DoneTurns
  <2>2. LastOf(M) \in M
    BY <1>3, <2>1, LastOfFacts
  <2>3. LastOf(M) \in 1..Len(w) /\ w[LastOf(M)].method = "done"
    BY <2>2 DEF DoneTurns
  <2> DEFINE d == w[LastOf(M)].idx
             k == w[LastOf(M)].tag # "failed"
  <2>4. Projected(w) = [base EXCEPT !.done = d, !.ok = k]
    BY <1>3 DEF Projected
  <2>5. w[LastOf(M)].idx = d
    OBVIOUS
  <2> HIDE DEF d, k
  <2>6. [base EXCEPT !.done = d, !.ok = k].done = d
        /\ [base EXCEPT !.done = d, !.ok = k].latest = base.latest
        /\ [base EXCEPT !.done = d, !.ok = k].read = base.read
    BY DEF Row
  <2> HIDE DEF base, M
  <2> QED BY <1>1, <2>3, <2>4, <2>5, <2>6
<1> QED BY <1>2, <1>3

\* What is left to persist ends with the last turn of the state, if that turn is
\* beyond the row; if nothing is left, it is not.
LEMMA UnpersistedFacts ==
    ASSUME state \in PromptState, row \in Row, Len(state.turns) > 0
    PROVE  /\ Unpersisted(state) \in Seq(Turn)
           /\ Len(Unpersisted(state)) > 0 => Unpersisted(state)[Len(Unpersisted(state))] = LastLive
           /\ LastLive.idx > row.latest => Len(Unpersisted(state)) > 0
<1> DEFINE s == state
           F == {i \in 1..Len(s.turns) : s.turns[i].idx > row.latest}
<1>0. s.turns \in Seq(Turn) /\ Len(s.turns) \in Nat /\ Len(s.turns) \in 1..Len(s.turns)
  BY LastTurn
<1>1. Unpersisted(state) \in Seq(Turn)
  BY UnpersistedType
<1>2. CASE F = {}
  <2>1. Unpersisted(state) = << >>
    BY <1>2 DEF Unpersisted
  <2>2. ~(LastLive.idx > row.latest)
    BY <1>0, <1>2 DEF LastLive
  <2> QED BY <1>1, <2>1, <2>2
<1>3. CASE F # {}
  <2>1. F \in SUBSET Nat
    OBVIOUS
  <2>2. FirstOf(F) \in 1..Len(s.turns)
    BY <1>3, <2>1, FirstOfFacts
  <2>3. Unpersisted(state) = SubSeq(s.turns, FirstOf(F), Len(s.turns))
    BY <1>3 DEF Unpersisted
  <2> DEFINE a == FirstOf(F)
  <2> HIDE DEF F, a
  <2>4. Len(SubSeq(s.turns, a, Len(s.turns))) = Len(s.turns) - a + 1
    BY <1>0, <2>2 DEF a
  <2>5. SubSeq(s.turns, a, Len(s.turns))[Len(s.turns) - a + 1] = s.turns[Len(s.turns)]
    BY <1>0, <2>2 DEF a
  <2> QED BY <1>0, <1>1, <2>2, <2>3, <2>4, <2>5 DEF a, LastLive
<1> QED BY <1>2, <1>3

\* A view of durable prompt_done turns stays one when every prompt_done that is
\* published is in the files.
LEMMA DurableView ==
    ASSUME NEW v, NEW e, NEW f, \A t \in v : t.method = "done" => InFiles(f, t),
           \A i \in 1..Len(e) : e[i].method = "done" => InFiles(f, e[i])
    PROVE  \A t \in ViewAfter(v, e) : t.method = "done" => InFiles(f, t)
BY ViewAfterFacts

\* Sealing publishes a text turn, never a prompt_done.
LEMMA SealIsText ==
    ASSUME NEW s \in PromptState, WellFormed(s)
    PROVE  \A i \in 1..Len(SealEvents(s)) : SealEvents(s)[i].method # "done"
<1>1. CASE HasOpenText(s)
  <2>1. Len(s.turns) \in 1..Len(s.turns) /\ s.turns[Len(s.turns)].method \in TextMethods
    BY <1>1, LastTurn DEF HasOpenText
  <2>2. Sealed(s).turns[Len(s.turns)].method \in TextMethods
    BY <2>1, SealedFacts
  <2>3. SealEvents(s) = <<Sealed(s).turns[Len(s.turns)]>>
    BY <1>1 DEF SealEvents
  <2> QED BY <2>2, <2>3 DEF TextMethods
<1>2. CASE ~HasOpenText(s)
  BY <1>2 DEF SealEvents
<1> QED BY <1>1, <1>2

\* addMessageTurn publishes a seal and a turn of its own method, and never lowers
\* the next index.
LEMMA AddMessageIsOwn ==
    ASSUME NEW s \in PromptState, WellFormed(s), s.live, NEW m \in Methods, NEW k \in Tags,
           m # "done"
    PROVE  /\ \A i \in 1..Len(AddEvents(s, m, k)) : AddEvents(s, m, k)[i].method # "done"
           /\ AddMessageTurn(s, m, k).next \in Nat
           /\ AddMessageTurn(s, m, k).next >= s.next
<1> DEFINE T == MergeTargets(s, m, k)
           r == AddMessageTurn(s, m, k)
           e == AddEvents(s, m, k)
<1>0. /\ Len(s.turns) \in Nat /\ s.next \in Nat \ {0}
      /\ \A i \in 1..Len(s.turns) : s.turns[i] \in Turn
  BY LastTurn
<1>1. CASE T = {}
  <2> DEFINE t == NewTurn(s.next, m, k)
  <2>1. t \in Turn /\ t.idx = s.next /\ (t.fin \/ t.method \in TextMethods) /\ t.method = m
    BY <1>0, NewTurnType
  <2>2. r = UpdateTurn(Sealed(s), t) /\ e = SealEvents(s) \o <<t>>
    BY <1>1 DEF AddMessageTurn, AddEvents
  <2> HIDE DEF t, r, e
  <2>3. r.next = s.next + 1
    BY <2>1, <2>2, SealAndAppend
  <2>4. SealEvents(s) \in Seq(Turn)
    BY SealEventsFacts
  <2>5. \A i \in 1..Len(e) : e[i] = t \/ (i \in 1..Len(SealEvents(s)) /\ e[i] = SealEvents(s)[i])
    BY <2>1, <2>2, <2>4
  <2>6. \A i \in 1..Len(e) : e[i].method # "done"
    BY <2>1, <2>5, SealIsText
  <2> QED BY <1>0, <2>3, <2>6 DEF r, e
<1>2. CASE T # {}
  <2> DEFINE i == FirstOf(T)
             t == Merged(s.turns[i])
  <2>1. i \in 1..Len(s.turns) /\ s.turns[i].method = m
    <3>1. T \in SUBSET Nat
      BY DEF MergeTargets
    <3>2. i \in T
      BY <1>2, <3>1, FirstOfFacts
    <3> QED BY <3>2 DEF MergeTargets
  <2>2. /\ t \in Turn /\ t.idx = s.turns[i].idx /\ t.method = s.turns[i].method
        /\ t.fin = s.turns[i].fin
    BY <1>0, <2>1, MergedFacts
  <2>3. r = UpdateTurn(s, t) /\ e = <<t>>
    BY <1>2 DEF AddMessageTurn, AddEvents
  <2> HIDE DEF i, t, r, e, T
  <2>4. r.next = s.next
    <3>1. i \in 1..Len(s.turns)
      BY <2>1
    <3>2. /\ UpdateTurn(s, t) \in PromptState
          /\ UpdateTurn(s, t).live = s.live
          /\ UpdateTurn(s, t).next = s.next
          /\ Len(UpdateTurn(s, t).turns) = Len(s.turns)
          /\ UpdateTurn(s, t).turns[i] = t
          /\ \A j \in 1..Len(s.turns) : j # i => UpdateTurn(s, t).turns[j] = s.turns[j]
          /\ WellFormed(UpdateTurn(s, t))
      BY <2>2, <3>1, UpdateTurnReplaces, Zenon
    <3> QED BY <2>3, <3>2
  <2>5. \A j \in 1..Len(e) : e[j].method # "done"
    BY <2>1, <2>2, <2>3
  <2> QED BY <1>0, <2>4, <2>5 DEF r, e
<1> QED BY <1>1, <1>2

\* The steps of the lock holder that publish nothing.
LEMMA DurableQuietStep ==
    ASSUME CoreInv, CoreInv', PublishInv, PublishInv', DurableInv, ~CanCompact,
           \/ PromptStartLost \/ SessionInfoUpdate \/ PromptFinishedIgnored
           \/ PersistLoad \/ PersistenceGap \/ WriteTurn \/ WriteRefused \/ PersistSave
           \/ UpsertLoad \/ UpsertSave \/ StoreFails
    PROVE  DurableInv'
<1>0. /\ TypeOK /\ LockShape /\ CursorCopies /\ LatestBelow(NextFree) /\ DoneOnItsWay /\ DoneIsDurable
      /\ row \in Row /\ rec \in Row /\ files \in Seq(Contents) /\ files' \in Seq(Contents)
      /\ todo \in Seq(Turn) /\ state \in PromptState /\ WellFormed(state) /\ view \in SUBSET Turn
      /\ call \in [Clients -> Call] /\ row' \in Row /\ rec' \in Row
      /\ NoOperation
  BY DEF CoreInv, PublishInv, DurableInv, TypeOK, StateShape
<1>1. /\ UNCHANGED <<state, nextIdx, view, call>>
      /\ files' = files \/ WriteTurn
  BY DEF PromptStartLost, SessionInfoUpdate, PromptFinishedIgnored, PersistLoad, PersistenceGap,
         WriteTurn, WriteRefused, PersistSave, UpsertLoad, UpsertSave, StoreFails, PublishNothing
<1>2. Grown(files, files')
  <2>1. CASE files' = files
    BY <1>0, <2>1 DEF Grown
  <2>2. CASE WriteTurn
    <3>1. Head(todo) \in Turn /\ files' = Append(files, ContentOf(Head(todo)))
      BY <1>0, <2>2 DEF WriteTurn
    <3> QED BY <1>0, <3>1, ContentType, AppendGrows
  <2> QED BY <1>1, <2>1, <2>2
<1>3. /\ \A n \in Nat : DoneMark(files, n) => DoneMark(files', n)
      /\ \A t \in Turn : InFiles(files, t) => InFiles(files', t)
  BY <1>0, <1>2, GrownKeeps
<1>4. DoneIsDurable'
  BY <1>0, <1>1, <1>3 DEF DoneIsDurable, InFiles
<1>5. /\ row.done \in Nat /\ row.read \in Nat /\ row.latest \in Nat
      /\ rec.done \in Nat /\ rec.read \in Nat /\ rec.latest \in Nat
      /\ row'.latest \in Nat
      /\ \A c \in Clients : /\ call[c].rec.done \in Nat /\ call[c].rec.read \in Nat
                            /\ call[c].rec.latest \in Nat /\ call[c].arg \in Nat
      /\ NewRow.done = 0 /\ NewRow.read = 0 /\ NewRow.latest = 0
  <2>1. \A c \in Clients : call[c] \in Call
    BY <1>0
  <2>2. \A c \in Clients : call[c].rec \in Row /\ call[c].arg \in Nat
    BY <2>1 DEF Call
  <2> QED BY <1>0, <2>2, RowTypes DEF NewRow
<1>6. \A c \in Clients : /\ DoneMark(files', call'[c].rec.done) /\ DoneMark(files', call'[c].rec.read)
                         /\ call'[c].op = "mark" => DoneMark(files', call'[c].arg)
  BY <1>0, <1>1, <1>3, <1>5 DEF CursorCopies
<1>7. \A n : n = 0 => DoneMark(files', n)
  BY DEF DoneMark
<1>8. (nextIdx = 0 /\ Len(state.turns) = 0) => LatestBelow(NextFree)'
  <2> SUFFICES ASSUME nextIdx = 0, Len(state.turns) = 0 PROVE LatestBelow(NextFree)'
    OBVIOUS
  <2>1. NextFree' = row'.latest + 1
    BY <1>1 DEF NextFree, NextSessionTurnIndex
  <2>2. FreshCopies'
    BY DEF PublishInv
  <2> QED BY <1>1, <1>5, <2>1, <2>2 DEF LatestBelow, FreshCopies
<1>9. ~(nextIdx = 0 /\ Len(state.turns) = 0) => NextFree' = NextFree /\ NextFree \in Nat
  BY <1>0, <1>1, LastTurn DEF NextFree, NextSessionTurnIndex, TypeOK
<1>10. CASE pc' = "free" /\ row' = row /\ rec' \in {rec, NewRow} /\ task' \in {task, NoTask} /\ pc # "write"
             /\ ~task'.publishDone
  <2>1. CursorCopies'
    BY <1>0, <1>3, <1>5, <1>6, <1>7, <1>10 DEF CursorCopies
  <2>2. LatestBelow(NextFree)'
    BY <1>0, <1>1, <1>8, <1>9, <1>10 DEF LatestBelow
  <2>3. DoneOnItsWay'
    BY <1>10 DEF DoneOnItsWay
  <2> QED BY <1>4, <2>1, <2>2, <2>3 DEF DurableInv
<1>11. CASE pc' = "free" /\ row' \in {row, rec} /\ rec' = NewRow /\ task' = NoTask
             /\ (row' = rec => pc = "upsertSave" \/ row' = row)
  <2>1. CursorCopies'
    BY <1>0, <1>3, <1>5, <1>6, <1>7, <1>11 DEF CursorCopies
  <2>2. LatestBelow(NextFree)'
    BY <1>0, <1>1, <1>8, <1>9, <1>11 DEF LatestBelow
  <2>3. DoneOnItsWay'
    BY <1>11 DEF DoneOnItsWay, NoTask
  <2> QED BY <1>4, <2>1, <2>2, <2>3 DEF DurableInv
<1>12. CASE PromptStartLost \/ PromptFinishedIgnored
  <2>1. pc' = "free" /\ row' = row /\ rec' = rec /\ task' = task /\ pc # "write" /\ ~task.publishDone
    BY <1>0, <1>12 DEF PromptStartLost, PromptFinishedIgnored, lockVars, LockShape
  <2> QED BY <1>10, <2>1
<1>13. CASE PersistenceGap \/ WriteRefused \/ StoreFails \/ UpsertSave
  BY <1>11, <1>13 DEF PersistenceGap, WriteRefused, StoreFails, UpsertSave, Release
<1>14. CASE SessionInfoUpdate
  <2>1. /\ pc' = "upsertLoad" /\ row' = row /\ rec' = NewRow /\ task' = [kind |-> "info", publishDone |-> FALSE]
        /\ files' = files
    BY <1>14 DEF SessionInfoUpdate, Take
  <2>2. CursorCopies'
    BY <1>0, <1>5, <1>6, <1>7, <2>1 DEF CursorCopies
  <2>3. LatestBelow(NextFree)'
    BY <1>0, <1>1, <1>8, <1>9, <2>1 DEF LatestBelow
  <2>4. DoneOnItsWay'
    BY <2>1 DEF DoneOnItsWay
  <2> QED BY <1>4, <2>2, <2>3, <2>4 DEF DurableInv
<1>15. CASE PersistLoad
  <2> DEFINE w == Unpersisted(state)
  <2>1. Len(state.turns) > 0 /\ LastLive.idx + 1 = state.next /\ LastLive.idx \in Nat
    <3>1. Len(state.turns) > 0
      BY <1>0, <1>15 DEF PersistLoad, LockShape, Terminal
    <3>2. Len(state.turns) \in 1..Len(state.turns)
      BY <1>0, <3>1, LastTurn
    <3>3. LastLive \in Turn
      BY <1>0, <3>2, LastTurn DEF LastLive
    <3> QED BY <1>0, <3>1, <3>3 DEF WellFormed, LastLive, Turn
  <2>2. /\ w \in Seq(Turn)
        /\ Len(w) > 0 => w[Len(w)] = LastLive
        /\ LastLive.idx > row.latest => Len(w) > 0
    BY <1>0, <2>1, UnpersistedFacts
  <2>3. UNCHANGED <<row, files, task>>
    BY <1>15 DEF PersistLoad
  <2>4. CASE Len(w) = 0
    <3>1. pc' = "upsertLoad" /\ UNCHANGED <<rec, todo>> /\ pc = "persistLoad"
      BY <1>15, <2>4 DEF PersistLoad
    <3>2. ~task.publishDone
      BY <1>0, <1>5, <2>1, <2>2, <2>4, <3>1 DEF DoneOnItsWay, LatestBelow
    <3>3. CursorCopies'
      BY <1>0, <1>5, <1>6, <2>3, <3>1 DEF CursorCopies
    <3>4. LatestBelow(NextFree)'
      BY <1>0, <1>1, <1>8, <1>9, <2>3, <3>1 DEF LatestBelow
    <3>5. DoneOnItsWay'
      BY <2>3, <3>2 DEF DoneOnItsWay
    <3> QED BY <1>4, <3>3, <3>4, <3>5 DEF DurableInv
  <2>5. CASE Len(w) # 0
    <3>1. pc' = "write" /\ todo' = w /\ rec' = Projected(w) /\ pc = "persistLoad"
      BY <1>15, <2>5 DEF PersistLoad
    <3>2. Len(w) > 0 /\ w[Len(w)] = LastLive
      BY <2>2, <2>5
    <3> HIDE DEF w
    <3>3. /\ rec'.latest = LastLive.idx /\ rec'.read = row.read
          /\ rec'.done = row.done \/ \E j \in 1..Len(w) : w[j].idx = rec'.done /\ w[j].method = "done"
      BY <1>0, <2>2, <3>1, <3>2, ProjectedFacts
    <3>4. DoneMark(files', rec'.done) \/ Pending(todo', rec'.done)
      BY <1>0, <2>3, <3>1, <3>3 DEF Pending, CursorCopies
    <3>5. CursorCopies'
      BY <1>0, <1>6, <2>3, <3>1, <3>3, <3>4 DEF CursorCopies
    <3>6. LatestBelow(NextFree)'
      <4>1. NextFree = state.next /\ NextFree' = NextFree
        BY <1>1, <2>1 DEF NextFree
      <4> QED BY <1>0, <1>1, <2>1, <2>3, <3>3, <4>1 DEF LatestBelow
    <3>7. DoneOnItsWay'
      <4>1. LastLive' = LastLive
        BY <1>1 DEF LastLive
      <4> QED BY <3>1, <3>2, <4>1 DEF DoneOnItsWay
    <3> QED BY <1>4, <3>5, <3>6, <3>7 DEF DurableInv
  <2> QED BY <2>4, <2>5
<1>16. CASE WriteTurn
  <2>1. /\ pc = "write" /\ Len(todo) > 0 /\ Head(todo).idx = Len(files) + 1
        /\ files' = Append(files, ContentOf(Head(todo))) /\ todo' = Tail(todo)
        /\ pc' = IF Len(todo) = 1 THEN "save" ELSE "write"
        /\ UNCHANGED <<row, task, rec>>
    BY <1>16 DEF WriteTurn
  <2>2. /\ Head(todo) = todo[1] /\ todo[1] \in Turn
        /\ Len(todo') = Len(todo) - 1 /\ \A j \in 1..Len(todo') : todo'[j] = todo[j + 1]
        /\ Len(todo) \in Nat /\ Len(files) \in Nat
    BY <1>0, <2>1
  <2>3. InFiles(files', todo[1]) /\ (todo[1].method = "done" => DoneMark(files', todo[1].idx))
    <3>1. files'[Len(files) + 1] = ContentOf(todo[1]) /\ Len(files') = Len(files) + 1
      BY <1>0, <2>1, <2>2, ContentType, AppendGrows
    <3> QED BY <2>1, <2>2, <3>1, ContentType DEF InFiles, DoneMark
  <2>4. DoneMark(files', rec'.done) \/ (pc' = "write" /\ Pending(todo', rec'.done))
    <3>1. CASE DoneMark(files, rec.done)
      BY <1>3, <1>5, <2>1, <3>1
    <3>2. CASE ~DoneMark(files, rec.done)
      <4>1. PICK j \in 1..Len(todo) : todo[j].idx = rec.done /\ todo[j].method = "done"
        BY <1>0, <3>2 DEF CursorCopies, Pending
      <4>2. CASE j = 1
        BY <2>1, <2>3, <4>1, <4>2
      <4>3. CASE j # 1
        <5>1. j - 1 \in 1..Len(todo') /\ todo'[j - 1] = todo[j] /\ Len(todo) # 1
          BY <2>2, <4>3
        <5> QED BY <2>1, <4>1, <5>1 DEF Pending
      <4> QED BY <4>2, <4>3
    <3> QED BY <3>1, <3>2
  <2>5. CursorCopies'
    <3>1. UNCHANGED <<row, rec>> /\ DoneMark(files, row.done) /\ DoneMark(files, row.read)
          /\ DoneMark(files, rec.read)
      BY <1>0, <2>1 DEF CursorCopies
    <3>2. DoneMark(files', row'.done) /\ DoneMark(files', row'.read) /\ DoneMark(files', rec'.read)
      BY <1>3, <1>5, <3>1
    <3> QED BY <1>6, <2>4, <3>2 DEF CursorCopies
  <2>6. LatestBelow(NextFree)'
    BY <1>0, <1>1, <1>8, <1>9, <2>1 DEF LatestBelow
  <2>7. DoneOnItsWay'
    <3>0. LastLive' = LastLive
      BY <1>1 DEF LastLive
    <3> SUFFICES ASSUME task.publishDone
                 PROVE  /\ pc' = "write" => Len(todo') > 0 /\ todo'[Len(todo')] = LastLive
                        /\ pc' = "save" => InFiles(files', LastLive)
      BY <2>1, <3>0 DEF DoneOnItsWay
    <3>1. todo[Len(todo)] = LastLive
      BY <1>0, <2>1 DEF DoneOnItsWay
    <3>2. CASE Len(todo) = 1
      BY <2>1, <2>3, <3>1, <3>2
    <3>3. CASE Len(todo) # 1
      <4>a. Len(todo) > 0
        BY <2>1
      <4>b. Len(todo') = Len(todo) - 1 /\ Len(todo) \in Nat
        BY <2>2
      <4>c. Len(todo) # 1
        BY <3>3
      <4>1. Len(todo) > 1 /\ Len(todo') = Len(todo) - 1 /\ Len(todo) \in Nat
        BY <4>a, <4>b, <4>c
      <4> DEFINE n == Len(todo')
      <4>2. n \in 1..n /\ n + 1 = Len(todo)
        BY <4>1
      <4> QED BY <2>1, <2>2, <3>1, <3>3, <4>1, <4>2
    <3> QED BY <3>2, <3>3
  <2> QED BY <1>4, <2>5, <2>6, <2>7 DEF DurableInv
<1>17. CASE PersistSave
  <2>1. pc = "save" /\ row' = rec /\ pc' = "upsertLoad" /\ UNCHANGED <<files, task, rec, todo>>
    BY <1>17 DEF PersistSave
  <2>2. CursorCopies'
    BY <1>0, <1>6, <2>1 DEF CursorCopies
  <2>3. LatestBelow(NextFree)'
    BY <1>0, <1>1, <1>8, <1>9, <2>1 DEF LatestBelow
  <2>4. DoneOnItsWay'
    BY <1>0, <1>1, <2>1 DEF DoneOnItsWay, LastLive
  <2> QED BY <1>4, <2>2, <2>3, <2>4 DEF DurableInv
<1>18. CASE UpsertLoad
  <2>1. pc = "upsertLoad" /\ rec' = row /\ pc' = "upsertSave" /\ UNCHANGED <<row, files, task, todo>>
    BY <1>18 DEF UpsertLoad
  <2>2. CursorCopies'
    BY <1>0, <1>6, <2>1 DEF CursorCopies
  <2>3. LatestBelow(NextFree)'
    BY <1>0, <1>1, <1>8, <1>9, <2>1 DEF LatestBelow
  <2>4. DoneOnItsWay'
    BY <1>0, <1>1, <2>1 DEF DoneOnItsWay, LastLive
  <2> QED BY <1>4, <2>2, <2>3, <2>4 DEF DurableInv
<1> QED BY <1>12, <1>13, <1>14, <1>15, <1>16, <1>17, <1>18

\* The calls without writeMu copy the row, and save a copy with the read cursor
\* moved to a prompt_done turn.
LEMMA DurableClientStep ==
    ASSUME CoreInv, CoreInv', PublishInv, PublishInv', DurableInv, NEW c \in Clients,
           \/ MarkReadLoad(c) \/ MarkReadSave(c) \/ RenameLoad(c) \/ RenameSave(c)
           \/ ReadLoad(c) \/ ReadLive(c)
    PROVE  DurableInv'
<1>0. /\ TypeOK /\ CursorCopies /\ LatestBelow(NextFree) /\ DoneOnItsWay /\ DoneIsDurable
      /\ row \in Row /\ state \in PromptState /\ WellFormed(state) /\ view \in SUBSET Turn
      /\ call \in [Clients -> Call] /\ row' \in Row /\ call' \in [Clients -> Call]
  BY DEF CoreInv, PublishInv, DurableInv, TypeOK, StateShape
<1>1. UNCHANGED <<state, nextIdx, view, files, pc, task, rec, todo>>
  BY DEF MarkReadLoad, MarkReadSave, RenameLoad, RenameSave, ReadLoad, ReadLive, lockVars, PublishNothing
<1>2. /\ call[c] \in Call /\ call[c].rec \in Row /\ call[c].arg \in Nat
      /\ row.latest \in Nat /\ row'.latest \in Nat
      /\ call[c].rec.done \in Nat /\ call[c].rec.read \in Nat /\ call[c].rec.latest \in Nat
      /\ \A d \in Clients : call'[d].rec.latest \in Nat
  <2>1. \A d \in Clients : call[d] \in Call /\ call'[d] \in Call
    BY <1>0
  <2>2. \A d \in Clients : call[d].rec \in Row /\ call[d].arg \in Nat /\ call'[d].rec \in Row
    BY <2>1 DEF Call
  <2> QED BY <1>0, <2>1, <2>2, RowTypes
<1>3. DoneIsDurable'
  BY <1>0, <1>1 DEF DoneIsDurable
<1>4. LastLive' = LastLive
  BY <1>1 DEF LastLive
<1>5. (nextIdx = 0 /\ Len(state.turns) = 0) => LatestBelow(NextFree)'
  <2> SUFFICES ASSUME nextIdx = 0, Len(state.turns) = 0 PROVE LatestBelow(NextFree)'
    OBVIOUS
  <2>1. NextFree' = row'.latest + 1
    BY <1>1 DEF NextFree, NextSessionTurnIndex
  <2>2. FreshCopies'
    BY DEF PublishInv
  <2> QED BY <1>1, <1>2, <2>1, <2>2 DEF LatestBelow, FreshCopies
<1>6. ~(nextIdx = 0 /\ Len(state.turns) = 0) => NextFree' = NextFree /\ NextFree \in Nat
  BY <1>0, <1>1, LastTurn DEF NextFree, NextSessionTurnIndex, TypeOK
<1>7. ASSUME NEW x, call' = [call EXCEPT ![c] = x],
             \/ row' = row
             \/ row'.latest = call[c].rec.latest /\ call[c].op \in {"mark", "rename"},
             x.op \in {"mark", "rename"} => x.rec.latest = row.latest
      PROVE  LatestBelow(NextFree)' /\ DoneOnItsWay'
  <2>1. \A d \in Clients : call'[d] = IF d = c THEN x ELSE call[d]
    BY <1>0, <1>7
  <2>2. \A n : LatestBelow(n) =>
           /\ row'.latest < n
           /\ pc' \in {"write", "save", "upsertSave"} => rec'.latest < n
           /\ \A d \in Clients : call'[d].op \in {"mark", "rename"} => call'[d].rec.latest < n
    BY <1>1, <1>7, <2>1 DEF LatestBelow
  <2>3. LatestBelow(NextFree)'
    BY <1>0, <1>5, <1>6, <2>2 DEF LatestBelow
  <2>4. DoneOnItsWay'
    <3>1. LatestBelow(LastLive.idx) => LatestBelow(LastLive.idx)'
      BY <1>4, <2>2 DEF LatestBelow
    <3> QED BY <1>0, <1>1, <1>4, <3>1 DEF DoneOnItsWay
  <2> QED BY <2>3, <2>4
<1>8. ASSUME NEW x, call' = [call EXCEPT ![c] = x],
             DoneMark(files, x.rec.done), DoneMark(files, x.rec.read),
             x.op = "mark" => DoneMark(files, x.arg),
             DoneMark(files, row'.done), DoneMark(files, row'.read)
      PROVE  CursorCopies'
  <2>1. \A d \in Clients : call'[d] = IF d = c THEN x ELSE call[d]
    BY <1>0, <1>8
  <2> QED BY <1>0, <1>1, <1>8, <2>1 DEF CursorCopies
<1>9. /\ DoneMark(files, row.done) /\ DoneMark(files, row.read) /\ DoneMark(files, 0)
      /\ DoneMark(files, call[c].rec.done) /\ DoneMark(files, call[c].rec.read)
      /\ call[c].op = "mark" => DoneMark(files, call[c].arg)
  BY <1>0 DEF CursorCopies, DoneMark
<1>10. CASE MarkReadLoad(c)
  <2>1. PICK t \in view :
          /\ t.method = "done"
          /\ call' = [call EXCEPT ![c] = [NoCall EXCEPT !.op = "mark", !.rec = row, !.arg = t.idx]]
    BY <1>10 DEF MarkReadLoad
  <2> DEFINE x == [NoCall EXCEPT !.op = "mark", !.rec = row, !.arg = t.idx]
  <2>2. x.op = "mark" /\ x.rec = row /\ x.arg = t.idx
    BY DEF NoCall
  <2>3. DoneMark(files, t.idx)
    <3>1. t.idx <= Len(files) /\ files[t.idx] = ContentOf(t)
      BY <1>0, <2>1 DEF DoneIsDurable
    <3>2. files[t.idx].method = "done"
      BY <1>0, <2>1, <3>1, ContentType
    <3> QED BY <3>1, <3>2 DEF DoneMark
  <2>4. row' = row
    BY <1>10 DEF MarkReadLoad
  <2>5. call' = [call EXCEPT ![c] = x]
    BY <2>1
  <2> HIDE DEF x
  <2>6. LatestBelow(NextFree)' /\ DoneOnItsWay'
    BY <1>7, <2>2, <2>4, <2>5
  <2>7. CursorCopies'
    BY <1>8, <1>9, <2>2, <2>3, <2>4, <2>5
  <2> QED BY <1>3, <2>6, <2>7 DEF DurableInv
<1>11. CASE RenameLoad(c)
  <2> DEFINE x == [NoCall EXCEPT !.op = "rename", !.rec = row]
  <2>1. x.op = "rename" /\ x.rec = row
    BY DEF NoCall
  <2>2. call' = [call EXCEPT ![c] = x] /\ row' = row
    BY <1>11 DEF RenameLoad
  <2> HIDE DEF x
  <2>3. LatestBelow(NextFree)' /\ DoneOnItsWay'
    BY <1>7, <2>1, <2>2
  <2>4. CursorCopies'
    BY <1>8, <1>9, <2>1, <2>2
  <2> QED BY <1>3, <2>3, <2>4 DEF DurableInv
<1>12. CASE ReadLoad(c)
  <2>1. PICK after \in 0..row.latest :
           call' = [call EXCEPT ![c] = [NoCall EXCEPT !.op = "read", !.rec = row, !.arg = after]]
    BY <1>12 DEF ReadLoad
  <2> DEFINE x == [NoCall EXCEPT !.op = "read", !.rec = row, !.arg = after]
  <2>2. x.op = "read" /\ x.rec = row
    BY DEF NoCall
  <2>3. call' = [call EXCEPT ![c] = x] /\ row' = row
    BY <1>12, <2>1 DEF ReadLoad
  <2> HIDE DEF x
  <2>4. LatestBelow(NextFree)' /\ DoneOnItsWay'
    BY <1>7, <2>2, <2>3
  <2>5. CursorCopies'
    BY <1>8, <1>9, <2>2, <2>3
  <2> QED BY <1>3, <2>4, <2>5 DEF DurableInv
<1>13. CASE ReadLive(c)
  <2> DEFINE g == ReadResult(call[c].rec, call[c].arg)
             x == [call[c] EXCEPT !.op = "answered", !.got = g]
  <2>1. call' = [call EXCEPT ![c].op = "answered", ![c].got = g] /\ row' = row
    BY <1>13 DEF ReadLive
  <2> HIDE DEF g
  <2>2. x.op = "answered" /\ x.rec = call[c].rec
    BY <1>2 DEF Call
  <2>3. call' = [call EXCEPT ![c] = x]
    BY <1>0, <2>1
  <2> HIDE DEF x
  <2>4. LatestBelow(NextFree)' /\ DoneOnItsWay'
    BY <1>7, <2>1, <2>2, <2>3
  <2>5. CursorCopies'
    BY <1>8, <1>9, <2>1, <2>2, <2>3
  <2> QED BY <1>3, <2>4, <2>5 DEF DurableInv
<1>14. CASE MarkReadSave(c) \/ RenameSave(c)
  <2>1. NoCall.op = "none" /\ NoCall.rec.done = 0 /\ NoCall.rec.read = 0 /\ call' = [call EXCEPT ![c] = NoCall]
    BY <1>14 DEF NoCall, NewRow, MarkReadSave, RenameSave
  <2>2. \/ row' = row
        \/ /\ row'.latest = call[c].rec.latest /\ call[c].op \in {"mark", "rename"}
           /\ row'.done = call[c].rec.done
           /\ DoneMark(files, row'.read)
    <3>1. CASE RenameSave(c)
      <4>1. row' = [call[c].rec EXCEPT !.renamed = TRUE] /\ call[c].op = "rename"
        BY <3>1 DEF RenameSave
      <4> QED BY <1>2, <1>9, <4>1 DEF Row
    <3>2. CASE MarkReadSave(c)
      <4> DEFINE n == ReadCursor(call[c].rec, call[c].arg)
      <4>1. call[c].op = "mark" /\ (row' = row \/ row' = [call[c].rec EXCEPT !.read = n])
        BY <3>2 DEF MarkReadSave
      <4>2. n \in {call[c].rec.read, call[c].rec.done, call[c].arg}
        BY DEF ReadCursor, MaxOf
      <4> HIDE DEF n
      <4>3. DoneMark(files, n)
        BY <1>9, <4>1, <4>2
      <4> QED BY <1>2, <4>1, <4>3 DEF Row
    <3> QED BY <1>14, <3>1, <3>2
  <2>3. LatestBelow(NextFree)' /\ DoneOnItsWay'
    BY <1>7, <2>1, <2>2
  <2>4. CursorCopies'
    BY <1>8, <1>9, <2>1, <2>2
  <2> QED BY <1>3, <2>3, <2>4 DEF DurableInv
<1> QED BY <1>10, <1>11, <1>12, <1>13, <1>14

\* A prompt start publishes no prompt_done of its own and takes the index n.
LEMMA StartIsOwn ==
    ASSUME NEW n \in Nat \ {0}
    PROVE  /\ AddMessageTurn(newSessionPromptState(n), "request", NoTag).next \in Nat
           /\ AddMessageTurn(newSessionPromptState(n), "request", NoTag).next >= n
           /\ Len(AddMessageTurn(newSessionPromptState(n), "request", NoTag).turns) > 0
           /\ AddEvents(newSessionPromptState(n), "request", NoTag) \in Seq(Turn)
           /\ \A i \in 1..Len(AddEvents(newSessionPromptState(n), "request", NoTag)) :
                 AddEvents(newSessionPromptState(n), "request", NoTag)[i].method # "done"
<1>1. "request" \in Methods /\ NoTag \in Tags /\ "request" # "done"
  BY DEF Methods, Tags
<1> DEFINE z == newSessionPromptState(n)
<1>2. z \in PromptState /\ WellFormed(z) /\ z.live /\ z.next = n
  BY FreshState DEF MaxOf
<1> HIDE DEF z
<1>3. /\ AddMessageTurn(z, "request", NoTag).next \in Nat
      /\ AddMessageTurn(z, "request", NoTag).next >= z.next
      /\ \A i \in 1..Len(AddEvents(z, "request", NoTag)) : AddEvents(z, "request", NoTag)[i].method # "done"
  BY <1>1, <1>2, AddMessageIsOwn
<1> QED BY <1>2, <1>3, StartFacts DEF z

\* finishPromptStateLocked appends a prompt_done with the next index, unless the
\* state ends in one already.
LEMMA FinishedIsNext ==
    ASSUME NEW s \in PromptState, WellFormed(s), s.live, NEW reason \in StopReasons
    PROVE  /\ Finished(s, reason).next \in Nat
           /\ Finished(s, reason).next >= s.next
           /\ ~Terminal(s) => Finished(s, reason).turns[Len(Finished(s, reason).turns)].idx = s.next
<1>0. Len(s.turns) \in Nat /\ s.next \in Nat \ {0}
  BY LastTurn
<1>1. CASE Terminal(s)
  BY <1>0, <1>1 DEF Finished
<1>2. CASE ~Terminal(s)
  <2> DEFINE t == NewTurn(s.next, "done", reason)
  <2>1. t \in Turn /\ t.idx = s.next /\ t.fin
    <3>1. "done" \in Methods /\ reason \in Tags /\ "done" \notin TextMethods
      BY DEF Methods, Tags, TextMethods
    <3> QED BY <1>0, <3>1, NewTurnType
  <2>2. Finished(s, reason) = UpdateTurn(Sealed(s), t)
    BY <1>2 DEF Finished
  <2> HIDE DEF t
  <2>3. /\ UpdateTurn(Sealed(s), t).next = s.next + 1
        /\ Len(UpdateTurn(Sealed(s), t).turns) = Len(s.turns) + 1
        /\ UpdateTurn(Sealed(s), t).turns[Len(s.turns) + 1] = t
    BY <2>1, SealAndAppend
  <2> QED BY <1>0, <2>1, <2>2, <2>3
<1> QED BY <1>1, <1>2

\* The steps that change the prompt state or publish turns.
LEMMA DurableStateStep ==
    ASSUME CoreInv, CoreInv', PublishInv, DurableInv,
           \/ PromptStarted \/ PromptStartedInterrupting
           \/ \E mth \in AgentMethods, k \in Tags : UpdateMessage(mth, k)
           \/ ReplyAndEnd \/ ArtifactWriteFails
           \/ \E reason \in StopReasons : PromptFinished(reason)
           \/ FinishSave \/ InterruptSave \/ OperationSave \/ Crash
    PROVE  DurableInv'
<1>0. /\ TypeOK /\ LockShape /\ CursorCopies /\ LatestBelow(NextFree) /\ DoneOnItsWay /\ DoneIsDurable
      /\ LiveStart /\ NoOperation
      /\ row \in Row /\ rec \in Row /\ files \in Seq(Contents)
      /\ state \in PromptState /\ WellFormed(state) /\ view \in SUBSET Turn
      /\ call \in [Clients -> Call]
  BY DEF CoreInv, PublishInv, DurableInv, TypeOK, StateShape
<1>1. /\ row.latest \in Nat /\ rec.latest \in Nat /\ nextIdx \in Nat
      /\ state.next \in Nat \ {0} /\ Len(state.turns) \in Nat
      /\ NextSessionTurnIndex \in Nat \ {0} /\ NextFree \in Nat \ {0}
      /\ \A c \in Clients : call[c].rec.latest \in Nat
      /\ NewRow.done = 0 /\ NewRow.read = 0 /\ NewRow.latest = 0
      /\ DoneMark(files, 0)
      /\ NoCall.op = "none" /\ NoCall.rec.done = 0 /\ NoCall.rec.read = 0
  <2>1. \A c \in Clients : call[c] \in Call
    BY <1>0
  <2>2. \A c \in Clients : call[c].rec \in Row
    BY <2>1 DEF Call
  <2>3. row.latest \in Nat /\ rec.latest \in Nat /\ nextIdx \in Nat /\ \A c \in Clients : call[c].rec.latest \in Nat
    BY <1>0, <2>2, RowTypes DEF TypeOK
  <2>4. NextSessionTurnIndex \in Nat \ {0}
    BY <2>3 DEF NextSessionTurnIndex
  <2>5. state.next \in Nat \ {0} /\ Len(state.turns) \in Nat
    BY <1>0, LastTurn
  <2> QED BY <2>3, <2>4, <2>5 DEF NextFree, NewRow, NoCall, DoneMark
<1>2. ASSUME NEW e, Publish(e), files' = files,
             \A i \in 1..Len(e) : e[i].method = "done" => InFiles(files, e[i])
      PROVE  DoneIsDurable'
  <2>1. view' = ViewAfter(view, e)
    BY <1>2 DEF Publish
  <2>2. \A t \in view : t.method = "done" => InFiles(files, t)
    BY <1>0 DEF DoneIsDurable, InFiles
  <2>3. \A t \in ViewAfter(view, e) : t.method = "done" => InFiles(files, t)
    BY <1>2, <2>2, DurableView
  <2> QED BY <1>2, <2>1, <2>3 DEF DoneIsDurable, InFiles
<1>3. state.live \/ Len(state.turns) > 0 => NextFree = state.next
  BY <1>0 DEF NextFree, LiveStart
<1>4. /\ EnsuredState \in PromptState /\ WellFormed(EnsuredState) /\ EnsuredState.live
      /\ EnsuredState.next = NextFree
      /\ Len(EnsuredState.turns) = Len(state.turns)
  <2>1. CASE state.live
    BY <1>0, <1>3, <2>1 DEF EnsuredState
  <2>2. CASE ~state.live
    <3> DEFINE z == newSessionPromptState(NextSessionTurnIndex)
    <3>1. EnsuredState = z
      BY <2>2 DEF EnsuredState
    <3>2. z \in PromptState /\ WellFormed(z) /\ z.live /\ z.next = NextSessionTurnIndex /\ Len(z.turns) = 0
      BY <1>1, FreshState DEF MaxOf
    <3>3. Len(state.turns) = 0
      BY <1>0, <2>2 DEF WellFormed
    <3> HIDE DEF z
    <3> QED BY <3>1, <3>2, <3>3 DEF NextFree
  <2> QED BY <2>1, <2>2
\* a step of an unlocked handler
<1>5. ASSUME pc' = "free", pc = "free", UNCHANGED <<row, files, call, rec, task, todo>>,
             NextFree' \in Nat, NextFree' >= NextFree
      PROVE  CursorCopies' /\ LatestBelow(NextFree)' /\ DoneOnItsWay'
  <2>1. CursorCopies'
    BY <1>0, <1>5 DEF CursorCopies
  <2>2. LatestBelow(NextFree)'
    BY <1>0, <1>1, <1>5 DEF LatestBelow
  <2>3. ~task.publishDone
    BY <1>0, <1>5 DEF LockShape
  <2> QED BY <1>5, <2>1, <2>2, <2>3 DEF DoneOnItsWay
\* a step that takes the lock, or goes on holding it, with an empty copy
<1>6. ASSUME pc' \in {"upsertLoad", "persistLoad"}, rec' = NewRow, UNCHANGED <<files, call>>,
             row' = row \/ (row' = rec /\ pc = "upsertSave"),
             NextFree' \in Nat, NextFree' >= NextFree
      PROVE  /\ CursorCopies' /\ LatestBelow(NextFree)'
             /\ \A n : n = NextFree => LatestBelow(n)'
  <2>1. CursorCopies'
    BY <1>0, <1>1, <1>6 DEF CursorCopies
  <2>2. /\ row'.latest < NextFree
        /\ \A c \in Clients : call'[c].op \in {"mark", "rename"} => call'[c].rec.latest < NextFree
    BY <1>0, <1>6 DEF LatestBelow
  <2>3. row'.latest \in Nat
    BY <1>1, <1>6
  <2>4. row'.latest < NextFree'
    BY <1>1, <1>6, <2>2, <2>3
  <2>5. ASSUME NEW c \in Clients, call'[c].op \in {"mark", "rename"}
        PROVE  call'[c].rec.latest < NextFree'
    BY <1>1, <1>6, <2>2, <2>5
  <2>6. LatestBelow(NextFree)'
    BY <1>6, <2>4, <2>5 DEF LatestBelow
  <2>7. ASSUME NEW n, n = NextFree
        PROVE  LatestBelow(n)'
    BY <1>6, <2>2, <2>7 DEF LatestBelow
  <2> QED BY <2>1, <2>6, <2>7
<1>7. ASSUME NEW n \in Nat \ {0}, NEW d \in Seq(Turn), StartRequest(n, d), n >= NextFree,
             UNCHANGED <<files, call>>, row' = row \/ (row' = rec /\ pc = "upsertSave"),
             \A i \in 1..Len(d) : d[i].method = "done" => InFiles(files, d[i])
      PROVE  DurableInv'
  <2> DEFINE e == AddEvents(newSessionPromptState(n), "request", NoTag)
             r == AddMessageTurn(newSessionPromptState(n), "request", NoTag)
  <2>1. /\ r.next \in Nat /\ r.next >= n /\ Len(r.turns) > 0
        /\ e \in Seq(Turn) /\ \A i \in 1..Len(e) : e[i].method # "done"
    BY <1>7, StartIsOwn
  <2>2. state' = r /\ Publish(d \o e) /\ pc' = "upsertLoad" /\ rec' = NewRow /\ ~task'.publishDone
    BY <1>7 DEF StartRequest, Take
  <2> HIDE DEF e, r
  <2>3. NextFree' \in Nat /\ NextFree' >= NextFree
    BY <1>1, <1>7, <2>1, <2>2 DEF NextFree
  <2>4. CursorCopies' /\ LatestBelow(NextFree)'
    BY <1>6, <1>7, <2>2, <2>3
  <2>5. \A i \in 1..Len(d \o e) :
           \/ i \in 1..Len(d) /\ (d \o e)[i] = d[i]
           \/ \E j \in 1..Len(e) : (d \o e)[i] = e[j]
    <3> TAKE i \in 1..Len(d \o e)
    <3>1. Len(d) \in Nat /\ Len(e) \in Nat /\ Len(d \o e) = Len(d) + Len(e)
      BY <1>7, <2>1
    <3>2. CASE i <= Len(d)
      BY <1>7, <2>1, <3>1, <3>2
    <3>3. CASE i > Len(d)
      <4>1. i - Len(d) \in 1..Len(e) /\ (d \o e)[i] = e[i - Len(d)]
        BY <1>7, <2>1, <3>1, <3>3
      <4> QED BY <4>1
    <3> QED BY <3>1, <3>2, <3>3
  <2>6. DoneIsDurable'
    BY <1>2, <1>7, <2>1, <2>2, <2>5
  <2>7. DoneOnItsWay'
    BY <2>2 DEF DoneOnItsWay
  <2> QED BY <2>4, <2>6, <2>7 DEF DurableInv
<1>8. ASSUME NEW s \in PromptState, WellFormed(s), s.live, s.next = NextFree,
             NEW reason \in StopReasons, NEW kind, FinishPrompt(s, reason, kind),
             UNCHANGED <<row, files, call>>
      PROVE  DurableInv'
  <2>1. /\ state' = Finished(s, reason) /\ Publish(SealEvents(s)) /\ pc' = "persistLoad"
        /\ rec' = NewRow /\ task'.publishDone = ~Terminal(s)
    BY <1>8 DEF FinishPrompt, Finished, Take
  <2>2. /\ state'.next \in Nat /\ state'.next >= NextFree /\ Len(state'.turns) > 0
        /\ ~Terminal(s) => LastLive'.idx = NextFree
    BY <1>8, <2>1, FinishedIsNext, FinishedFacts DEF LastLive
  <2>3. NextFree' \in Nat /\ NextFree' >= NextFree
    BY <2>2 DEF NextFree
  <2>4. CursorCopies' /\ LatestBelow(NextFree)' /\ \A n : n = NextFree => LatestBelow(n)'
    BY <1>6, <1>8, <2>1, <2>3
  <2>5. DoneIsDurable'
    BY <1>2, <1>8, <2>1, SealIsText
  <2>6. DoneOnItsWay'
    <3> SUFFICES ASSUME task'.publishDone PROVE LatestBelow(LastLive.idx)'
      BY <2>1 DEF DoneOnItsWay
    <3>1. LastLive'.idx = NextFree
      BY <2>1, <2>2
    <3> QED BY <2>4, <3>1 DEF LatestBelow
  <2> QED BY <2>4, <2>5, <2>6 DEF DurableInv
<1>9. ASSUME NEW m \in Methods, m # "done", NEW k \in Tags, state.live, pc = "free",
             state' = AddMessageTurn(state, m, k), Publish(AddEvents(state, m, k)),
             UNCHANGED <<row, files, nextIdx, lockVars, call>>
      PROVE  DurableInv'
  <2>1. state'.next \in Nat /\ state'.next >= NextFree /\ Len(state'.turns) > 0
    BY <1>0, <1>3, <1>9, AddMessageIsOwn, AddMessageTurnFacts
  <2>2. NextFree' \in Nat /\ NextFree' >= NextFree
    BY <2>1 DEF NextFree
  <2>3. CursorCopies' /\ LatestBelow(NextFree)' /\ DoneOnItsWay'
    BY <1>5, <1>9, <2>2 DEF lockVars
  <2>4. DoneIsDurable'
    BY <1>0, <1>2, <1>9, AddMessageIsOwn
  <2> QED BY <2>3, <2>4 DEF DurableInv
<1>10. CASE PromptStarted
  <2> DEFINE base == IF Len(state.turns) = 0
                     THEN NextSessionTurnIndex
                     ELSE MaxOf(state.next, NextSessionTurnIndex)
  <2>1. base \in Nat \ {0} /\ base >= NextFree
    BY <1>1 DEF MaxOf, NextFree
  <2>2. StartRequest(base, << >>) /\ UNCHANGED <<row, files, call>>
    BY <1>10 DEF PromptStarted
  <2> HIDE DEF base
  <2>3. << >> \in Seq(Turn) /\ \A i \in 1..Len(<< >>) : <<>>[i].method = "done" => InFiles(files, <<>>[i])
    OBVIOUS
  <2> QED BY <1>7, <2>1, <2>2, <2>3
<1>11. CASE PromptStartedInterrupting
  <2>1. /\ FinishPrompt(state, "interrupted", "interrupt") /\ "interrupted" \in StopReasons
        /\ Len(state.turns) > 0 /\ state.live /\ UNCHANGED <<row, files, call>>
    BY <1>0, <1>11, LastTurn DEF PromptStartedInterrupting, StopReasons, WellFormed
  <2> QED BY <1>0, <1>3, <1>8, <2>1
<1>12. ASSUME NEW mth \in AgentMethods, NEW k \in Tags, UpdateMessage(mth, k)
       PROVE  DurableInv'
  <2>1. mth \in Methods /\ mth # "done"
    BY DEF Methods, AgentMethods, TextMethods
  <2> QED BY <1>9, <1>12, <2>1 DEF UpdateMessage
<1>13. CASE ReplyAndEnd
  <2>1. CASE /\ state.live /\ state' = AddMessageTurn(state, "system", NoTag)
             /\ Publish(AddEvents(state, "system", NoTag))
    <3>1. "system" \in Methods /\ NoTag \in Tags /\ "system" # "done"
      BY DEF Methods, AgentMethods, Tags
    <3> QED BY <1>9, <1>13, <2>1, <3>1 DEF ReplyAndEnd
  <2>2. CASE PublishNothing /\ UNCHANGED state
    <3>1. /\ UNCHANGED <<row, files, nextIdx, pc, task, rec, todo, call, view, state>>
          /\ pc = "free"
      BY <1>13, <2>2 DEF ReplyAndEnd, PublishNothing, lockVars
    <3>2. NextFree' = NextFree
      BY <3>1 DEF NextFree, NextSessionTurnIndex
    <3>3. CursorCopies' /\ LatestBelow(NextFree)' /\ DoneOnItsWay'
      BY <1>1, <1>5, <3>1, <3>2
    <3>4. DoneIsDurable'
      BY <1>0, <3>1 DEF DoneIsDurable
    <3> QED BY <3>3, <3>4 DEF DurableInv
  <2> QED BY <1>13, <2>1, <2>2 DEF ReplyAndEnd
<1>14. CASE ArtifactWriteFails
  <2>1. /\ state' = Sealed(EnsuredState) /\ Publish(SealEvents(EnsuredState)) /\ pc = "free"
        /\ UNCHANGED <<row, files, nextIdx, pc, task, rec, todo, call>>
    BY <1>14 DEF ArtifactWriteFails, lockVars
  <2>2. Len(state'.turns) = Len(state.turns) /\ state'.next = NextFree
    BY <1>4, <2>1, SealedFacts
  <2>3. NextFree' = NextFree
    BY <2>1, <2>2 DEF NextFree, NextSessionTurnIndex
  <2>4. CursorCopies' /\ LatestBelow(NextFree)' /\ DoneOnItsWay'
    BY <1>1, <1>5, <2>1, <2>3
  <2>5. DoneIsDurable'
    BY <1>2, <1>4, <2>1, SealIsText
  <2> QED BY <2>4, <2>5 DEF DurableInv
<1>15. ASSUME NEW reason \in StopReasons, PromptFinished(reason) PROVE DurableInv'
  <2>1. FinishPrompt(EnsuredState, reason, "finish") /\ UNCHANGED <<row, files, call>>
    BY <1>15 DEF PromptFinished
  <2> QED BY <1>4, <1>8, <2>1
<1>16. pc = "upsertSave" /\ task.kind \in {"finish", "interrupt"} =>
          /\ Len(state.turns) > 0 /\ DoneEvents(state) \in Seq(Turn)
          /\ \A i \in 1..Len(DoneEvents(state)) : InFiles(files, DoneEvents(state)[i])
  <2> SUFFICES ASSUME pc = "upsertSave", task.kind \in {"finish", "interrupt"}
               PROVE  /\ Len(state.turns) > 0 /\ DoneEvents(state) \in Seq(Turn)
                      /\ \A i \in 1..Len(DoneEvents(state)) : InFiles(files, DoneEvents(state)[i])
    OBVIOUS
  <2>1. Len(state.turns) > 0
    BY <1>0 DEF LockShape, Terminal
  <2>2. DoneEvents(state) \in Seq(Turn)
    BY <1>0, <2>1, DoneEventsType
  <2>3. CASE task.publishDone
    <3>1. InFiles(files, LastLive) /\ DoneEvents(state) = <<LastLive>>
      BY <1>0, <2>3 DEF DoneOnItsWay, DoneEvents, LastLive
    <3> QED BY <2>1, <2>2, <3>1
  <2>4. CASE ~task.publishDone
    BY <2>1, <2>2, <2>4 DEF DoneEvents
  <2> QED BY <2>3, <2>4
<1>17. CASE FinishSave
  <2>1. /\ pc = "upsertSave" /\ task.kind = "finish" /\ row' = rec /\ Publish(DoneEvents(state))
        /\ nextIdx' = state.next /\ state' = NoState /\ UNCHANGED <<files, call>>
        /\ pc' = "free" /\ task' = NoTask /\ rec' = NewRow
    BY <1>17 DEF FinishSave, Release
  <2>2. NextFree' = state.next /\ NextFree = state.next
    BY <1>1, <1>16, <2>1 DEF NextFree, NextSessionTurnIndex, NoState
  <2>3. CursorCopies'
    BY <1>0, <1>1, <2>1 DEF CursorCopies
  <2>4. LatestBelow(NextFree)'
    BY <1>0, <2>1, <2>2 DEF LatestBelow
  <2>5. DoneIsDurable'
    BY <1>2, <1>16, <2>1
  <2>6. DoneOnItsWay'
    BY <2>1 DEF DoneOnItsWay, NoTask
  <2> QED BY <2>3, <2>4, <2>5, <2>6 DEF DurableInv
<1>18. CASE InterruptSave
  <2>1. /\ pc = "upsertSave" /\ task.kind = "interrupt" /\ row' = rec
        /\ StartRequest(state.next, DoneEvents(state)) /\ UNCHANGED <<files, call>>
    BY <1>18 DEF InterruptSave
  <2>2. NextFree = state.next
    BY <1>16, <2>1 DEF NextFree
  <2> QED BY <1>1, <1>7, <1>16, <2>1, <2>2
<1>19. CASE OperationSave
  BY <1>0, <1>19 DEF OperationSave, NoOperation
<1>20. CASE Crash
  <2>1. /\ state' = NoState /\ nextIdx' = 0 /\ pc' = "free" /\ task' = NoTask /\ rec' = NewRow
        /\ call' = [c \in Clients |-> NoCall] /\ view' = Persisted /\ UNCHANGED <<row, files>>
    BY <1>20 DEF Crash, Release
  <2>2. NextFree' = row.latest + 1
    BY <1>1, <2>1 DEF NextFree, NextSessionTurnIndex, NoState
  <2>3. CursorCopies'
    BY <1>0, <1>1, <2>1 DEF CursorCopies
  <2>4. LatestBelow(NextFree)'
    BY <1>1, <2>1, <2>2 DEF LatestBelow
  <2>5. DoneIsDurable'
    <3> SUFFICES ASSUME NEW t \in Persisted PROVE t.idx <= Len(files) /\ files[t.idx] = ContentOf(t)
      BY <2>1 DEF DoneIsDurable
    <3>1. PICK i \in 1..Len(files) :
             t = [idx |-> i, method |-> files[i].method, tag |-> files[i].tag,
                  rev |-> files[i].rev, fin |-> TRUE]
      BY DEF Persisted
    <3>2. files[i] \in Contents
      BY <1>0
    <3>3. files[i] = [method |-> files[i].method, tag |-> files[i].tag, rev |-> files[i].rev]
      BY <3>2 DEF Contents
    <3> QED BY <1>0, <3>1, <3>3 DEF ContentOf
  <2>6. DoneOnItsWay'
    BY <2>1 DEF DoneOnItsWay, NoTask
  <2> QED BY <2>3, <2>4, <2>5, <2>6 DEF DurableInv
<1> QED BY <1>10, <1>11, <1>12, <1>13, <1>14, <1>15, <1>17, <1>18, <1>19, <1>20

\* Nothing is persisted or published initially.
LEMMA DurableInit ==
    ASSUME Init
    PROVE  DurableInv
<1>1. Len(state.turns) = 0
  BY DEF Init, NoState
<1> QED BY <1>1 DEF Init, DurableInv, CursorCopies, DoneMark, LatestBelow, NextFree,
                    NextSessionTurnIndex, DoneOnItsWay, DoneIsDurable, NoCall, NewRow, NoTask

\* Every step of a recorder without compaction keeps the invariant.
LEMMA DurableStep ==
    ASSUME ~CanCompact, CoreInv, PublishInv, DurableInv, Next
    PROVE  DurableInv'
<1>0. CoreInv' /\ PublishInv'
  BY CoreStep, PublishStep
<1>1. ASSUME AgentUpdate PROVE DurableInv'
  <2>1. \A m \in UpdateMethods : m \in AgentMethods
    BY ConstantsAssumption
  <2>2. NoTag \in Tags /\ \A k \in ToolCalls : k \in Tags
    BY DEF Tags
  <2>3. \E m \in AgentMethods, k \in Tags : UpdateMessage(m, k)
    BY <1>1, <2>1, <2>2 DEF AgentUpdate, AgentMethods
  <2> QED BY <1>0, <2>3, DurableStateStep
<1>2. ASSUME Handler PROVE DurableInv'
  BY <1>0, <1>2, DurableQuietStep, DurableStateStep DEF Handler
<1>3. ASSUME \E c \in Clients : \/ MarkReadLoad(c) \/ MarkReadSave(c) \/ RenameLoad(c)
                                \/ RenameSave(c) \/ ReadLoad(c) \/ ReadLive(c)
      PROVE  DurableInv'
  BY <1>0, <1>3, DurableClientStep
<1>4. ASSUME \/ PromptStarted \/ PromptStartedInterrupting \/ ReplyAndEnd \/ ArtifactWriteFails
             \/ \E reason \in StopReasons \ {"interrupted"} : PromptFinished(reason)
             \/ Crash
      PROVE  DurableInv'
  BY <1>0, <1>4, DurableStateStep
<1>5. ASSUME \/ PromptStartLost \/ SessionInfoUpdate \/ PromptFinishedIgnored \/ StoreFails
      PROVE  DurableInv'
  BY <1>0, <1>5, DurableQuietStep
<1>6. ~OperationStarted /\ ~OperationEnded
  BY DEF OperationStarted, OperationEnded, PublishInv, NoOperation
<1> QED BY <1>1, <1>2, <1>3, <1>4, <1>5, <1>6 DEF Next

\* Without compaction the three invariants are kept together.
THEOREM DurableInvariance ==
    ASSUME ~CanCompact
    PROVE  Spec => [](CoreInv /\ PublishInv /\ DurableInv)
<1>1. Init => CoreInv /\ PublishInv /\ DurableInv
  BY CoreInit, PublishInit, DurableInit
<1>2. CoreInv /\ PublishInv /\ DurableInv /\ [Next]_vars => DurableInv'
  <2> SUFFICES ASSUME CoreInv, PublishInv, DurableInv, [Next]_vars PROVE DurableInv'
    OBVIOUS
  <2>1. CASE Next
    BY <2>1, DurableStep
  <2>2. CASE UNCHANGED vars
    BY <2>2 DEF DurableInv, CursorCopies, LatestBelow, NextFree, NextSessionTurnIndex,
                DoneOnItsWay, DoneIsDurable, LastLive, vars
  <2> QED BY <2>1, <2>2
<1> QED BY <1>1, <1>2, PublishInvariance, PTL DEF Spec

\* Without compaction a prompt_done that subscribers have received is in the turn
\* files with the same content, whatever writes fail, whichever handler finished
\* the prompt, and after every crash.
THEOREM DoneIsDurableAlways ==
    ASSUME ~CanCompact
    PROVE  Spec => []DoneIsDurable
<1>1. DurableInv => DoneIsDurable
  BY DEF DurableInv
<1> QED BY <1>1, DurableInvariance, PTL

\* Without compaction lastDoneTurnIndex and lastReadTurnIndex name prompt_done turns
\* of the turn files, although clients save copies of the row that handlers have
\* overtaken.
THEOREM CursorsNameDoneTurnsAlways ==
    ASSUME ~CanCompact
    PROVE  Spec => []CursorsNameDoneTurns
<1>1. DurableInv => CursorsNameDoneTurns
  BY DEF DurableInv, CursorCopies, DoneMark, CursorsNameDoneTurns
<1> QED BY <1>1, DurableInvariance, PTL

-----------------------------------------------------------------------------
(* The files follow the published turns, without faults, crashes and unlocked *)
(* calls, compaction included                                                 *)

\* The handler changes the state s into r and publishes e: turns keep their place
\* and index, one with the next index may be added, a changed turn is published,
\* and what is published is a turn of r.
Carries(s, e, r) ==
    /\ \A i \in 1..Len(s.turns) :
          /\ i \in 1..Len(r.turns) /\ r.turns[i].idx = s.turns[i].idx
          /\ r.turns[i] = s.turns[i] \/ \E j \in 1..Len(e) : e[j].idx = s.turns[i].idx
    /\ \A j \in 1..Len(e) : \E i \in 1..Len(r.turns) : e[j] = r.turns[i]
    /\ \A i \in 1..Len(r.turns) :
          i \in 1..Len(s.turns) \/ (i = Len(s.turns) + 1 /\ r.turns[i].idx = s.next)

\* Sealing, and appending a turn behind the seal, published or not.
LEMMA SealAppendCarries ==
    ASSUME NEW s \in PromptState, WellFormed(s), s.live,
           NEW t \in Turn, t.idx = s.next, t.fin \/ t.method \in TextMethods
    PROVE  /\ Carries(s, SealEvents(s), UpdateTurn(Sealed(s), t))
           /\ Carries(s, SealEvents(s) \o <<t>>, UpdateTurn(Sealed(s), t))
<1> DEFINE z == Sealed(s)
           r == UpdateTurn(z, t)
           n == Len(s.turns)
           d == SealEvents(s)
           e == d \o <<t>>
<1>0. /\ n \in Nat /\ s.next \in Nat \ {0} /\ \A i \in 1..n : s.turns[i] \in Turn
      /\ n > 0 => n \in 1..n
  BY LastTurn
<1>1. /\ z \in PromptState /\ Len(z.turns) = n /\ z.next = s.next /\ z.live = s.live
      /\ AllFinished(z) /\ WellFormed(z)
      /\ \A i \in 1..n : z.turns[i].idx = s.turns[i].idx /\ (s.turns[i].fin => z.turns[i] = s.turns[i])
  BY SealedFacts
<1> HIDE DEF z
<1>2. /\ Len(r.turns) = n + 1 /\ r.turns[n + 1] = t /\ \A i \in 1..n : r.turns[i] = z.turns[i]
  <2>1. t.idx = z.next /\ z.live /\ z \in PromptState /\ WellFormed(z) /\ AllFinished(z)
    BY <1>1
  <2>2. /\ UpdateTurn(z, t) \in PromptState
        /\ UpdateTurn(z, t).live
        /\ UpdateTurn(z, t).next = z.next + 1
        /\ Len(UpdateTurn(z, t).turns) = Len(z.turns) + 1
        /\ UpdateTurn(z, t).turns[Len(z.turns) + 1] = t
        /\ \A i \in 1..Len(z.turns) : UpdateTurn(z, t).turns[i] = z.turns[i]
        /\ WellFormed(UpdateTurn(z, t))
    BY <2>1, UpdateTurnAppends, Zenon
  <2> QED BY <1>1, <2>2
<1> HIDE DEF r
<1>3. /\ d \in Seq(Turn)
      /\ ~HasOpenText(s) => d = << >>
      /\ HasOpenText(s) => Len(d) = 1 /\ d[1].idx = s.turns[n].idx
  BY SealEventsFacts
<1>4. HasOpenText(s) => n \in 1..n /\ Len(d) = 1 /\ d[1] = z.turns[n]
  BY <1>0, <1>1 DEF HasOpenText, SealEvents, z
<1> HIDE DEF d
<1>5. \A i \in 1..n : ~s.turns[i].fin => i = n /\ HasOpenText(s)
  BY <1>0 DEF WellFormed, HasOpenText
<1>6. /\ e \in Seq(Turn) /\ Len(e) = Len(d) + 1 /\ e[Len(d) + 1] = t
      /\ \A i \in 1..Len(d) : e[i] = d[i]
  BY <1>3, ConcatOne
<1> HIDE DEF e
<1>7. \A i \in 1..n :
         /\ i \in 1..Len(r.turns) /\ r.turns[i].idx = s.turns[i].idx
         /\ r.turns[i] = s.turns[i] \/ \E j \in 1..Len(d) : d[j].idx = s.turns[i].idx
  <2> TAKE i \in 1..n
  <2>1. i \in 1..Len(r.turns) /\ r.turns[i].idx = s.turns[i].idx
    BY <1>0, <1>1, <1>2
  <2>2. CASE s.turns[i].fin
    BY <1>1, <1>2, <2>1, <2>2
  <2>3. CASE ~s.turns[i].fin
    <3>1. Len(d) = 1 /\ d[1].idx = s.turns[i].idx /\ 1 \in 1..1
      BY <1>3, <1>5, <2>3
    <3> QED BY <2>1, <3>1
  <2> QED BY <2>2, <2>3
<1>8. \A j \in 1..Len(d) : \E i \in 1..Len(r.turns) : d[j] = r.turns[i]
  <2>1. CASE HasOpenText(s)
    <3>1. n \in 1..Len(r.turns) /\ d[1] = r.turns[n] /\ Len(d) = 1
      BY <1>0, <1>2, <1>4, <2>1
    <3>2. \A j \in 1..Len(d) : j = 1
      BY <3>1
    <3> QED BY <3>1, <3>2
  <2>2. CASE ~HasOpenText(s)
    BY <1>3, <2>2
  <2> QED BY <2>1, <2>2
<1>9. \A i \in 1..Len(r.turns) : i \in 1..n \/ (i = n + 1 /\ r.turns[i].idx = s.next)
  BY <1>0, <1>2
<1>10. \A j \in 1..Len(e) : \E i \in 1..Len(r.turns) : e[j] = r.turns[i]
  <2> TAKE j \in 1..Len(e)
  <2>1. CASE j \in 1..Len(d)
    BY <1>6, <1>8, <2>1
  <2>2. CASE j \notin 1..Len(d)
    <3>1. j = Len(d) + 1 /\ n + 1 \in 1..Len(r.turns)
      BY <1>0, <1>2, <1>3, <1>6, <2>2
    <3> QED BY <1>2, <1>6, <3>1
  <2> QED BY <2>1, <2>2
<1>11. \A i \in 1..n : (\E j \in 1..Len(d) : d[j].idx = s.turns[i].idx)
                          => \E j \in 1..Len(e) : e[j].idx = s.turns[i].idx
  <2>1. \A j \in 1..Len(d) : j \in 1..Len(e) /\ e[j] = d[j]
    BY <1>3, <1>6
  <2> QED BY <2>1
<1>12. Carries(s, d, r)
  BY <1>7, <1>8, <1>9 DEF Carries
<1>13. Carries(s, e, r)
  BY <1>7, <1>9, <1>10, <1>11 DEF Carries
<1> QED BY <1>12, <1>13 DEF d, e, r, z

\* addMessageTurn merges into one turn, or appends one.
LEMMA AddCarries ==
    ASSUME NEW s \in PromptState, WellFormed(s), s.live, NEW m \in Methods, NEW k \in Tags
    PROVE  Carries(s, AddEvents(s, m, k), AddMessageTurn(s, m, k))
<1> DEFINE T == MergeTargets(s, m, k)
           r == AddMessageTurn(s, m, k)
           e == AddEvents(s, m, k)
<1>0. /\ Len(s.turns) \in Nat /\ s.next \in Nat \ {0}
      /\ \A i \in 1..Len(s.turns) : s.turns[i] \in Turn
  BY LastTurn
<1>1. CASE T = {}
  <2> DEFINE t == NewTurn(s.next, m, k)
  <2>1. t \in Turn /\ t.idx = s.next /\ (t.fin \/ t.method \in TextMethods)
    BY <1>0, NewTurnType
  <2>2. r = UpdateTurn(Sealed(s), t) /\ e = SealEvents(s) \o <<t>>
    BY <1>1 DEF AddMessageTurn, AddEvents
  <2> HIDE DEF t, r, e
  <2>3. Carries(s, e, r)
    BY <2>1, <2>2, SealAppendCarries
  <2> QED BY <2>3 DEF r, e
<1>2. CASE T # {}
  <2> DEFINE i == FirstOf(T)
             t == Merged(s.turns[i])
  <2>1. i \in 1..Len(s.turns)
    <3>1. T \in SUBSET Nat
      BY DEF MergeTargets
    <3>2. i \in T
      BY <1>2, <3>1, FirstOfFacts
    <3> QED BY <3>2 DEF MergeTargets
  <2>2. /\ t \in Turn /\ t.idx = s.turns[i].idx /\ t.method = s.turns[i].method
        /\ t.fin = s.turns[i].fin
    BY <1>0, <2>1, MergedFacts
  <2>3. r = UpdateTurn(s, t) /\ e = <<t>>
    BY <1>2 DEF AddMessageTurn, AddEvents
  <2> HIDE DEF i, t, r, e, T
  <2>4. /\ Len(r.turns) = Len(s.turns) /\ r.turns[i] = t
        /\ \A j \in 1..Len(s.turns) : j # i => r.turns[j] = s.turns[j]
    <3>1. i \in 1..Len(s.turns)
      BY <2>1
    <3>2. /\ UpdateTurn(s, t) \in PromptState
          /\ UpdateTurn(s, t).live = s.live
          /\ UpdateTurn(s, t).next = s.next
          /\ Len(UpdateTurn(s, t).turns) = Len(s.turns)
          /\ UpdateTurn(s, t).turns[i] = t
          /\ \A j \in 1..Len(s.turns) : j # i => UpdateTurn(s, t).turns[j] = s.turns[j]
          /\ WellFormed(UpdateTurn(s, t))
      BY <2>2, <3>1, UpdateTurnReplaces, Zenon
    <3> QED BY <2>3, <3>2
  <2>5. Len(e) = 1 /\ e[1] = t /\ 1 \in 1..1 /\ \A j \in 1..Len(e) : j = 1
    BY <2>3
  <2>6. Carries(s, e, r)
    BY <2>1, <2>2, <2>4, <2>5 DEF Carries
  <2> QED BY <2>6 DEF r, e
<1> QED BY <1>1, <1>2

\* finishPromptStateLocked seals, and appends a prompt_done that it does not publish
\* yet.
LEMMA FinishCarries ==
    ASSUME NEW s \in PromptState, WellFormed(s), s.live, NEW reason \in StopReasons
    PROVE  Carries(s, SealEvents(s), Finished(s, reason))
<1>0. Len(s.turns) \in Nat /\ s.next \in Nat \ {0}
  BY LastTurn
<1>1. CASE Terminal(s)
  <2>1. ~HasOpenText(s)
    BY <1>1 DEF Terminal, HasOpenText, TextMethods
  <2> QED BY <1>1, <2>1 DEF Finished, SealEvents, Carries
<1>2. CASE ~Terminal(s)
  <2> DEFINE t == NewTurn(s.next, "done", reason)
  <2>1. t \in Turn /\ t.idx = s.next /\ t.fin
    <3>1. "done" \in Methods /\ reason \in Tags /\ "done" \notin TextMethods
      BY DEF Methods, Tags, TextMethods
    <3> QED BY <1>0, <3>1, NewTurnType
  <2>2. Finished(s, reason) = UpdateTurn(Sealed(s), t)
    BY <1>2 DEF Finished
  <2> HIDE DEF t
  <2> QED BY <2>1, <2>2, SealAppendCarries
<1> QED BY <1>1, <1>2

\* The turn t is one of the state s.
LiveIn(s, t) == \E i \in 1..Len(s.turns) : t = s.turns[i]

\* A view of live turns and turns in the files stays one.
LEMMA CarriesView ==
    ASSUME NEW s, NEW e, NEW r, Carries(s, e, r), NEW v, NEW f,
           \A t \in v : LiveIn(s, t) \/ (t.fin /\ InFiles(f, t))
    PROVE  \A t \in ViewAfter(v, e) : LiveIn(r, t) \/ (t.fin /\ InFiles(f, t))
<1> TAKE t \in ViewAfter(v, e)
<1>1. CASE \E j \in 1..Len(e) : t = e[j]
  BY <1>1 DEF Carries, LiveIn
<1>2. CASE t \in v /\ \A j \in 1..Len(e) : e[j].idx # t.idx
  <2>1. CASE LiveIn(s, t)
    <3>1. PICK i \in 1..Len(s.turns) : t = s.turns[i]
      BY <2>1 DEF LiveIn
    <3>2. i \in 1..Len(r.turns) /\ r.turns[i] = s.turns[i]
      BY <1>2, <3>1 DEF Carries
    <3> QED BY <3>1, <3>2 DEF LiveIn
  <2> QED BY <1>2, <2>1
<1> QED BY <1>1, <1>2, ViewAfterFacts

\* When all turns of the state are beyond the row, all of them are to be persisted.
LEMMA UnpersistedAll ==
    ASSUME state \in PromptState, Len(state.turns) > 0,
           \A i \in 1..Len(state.turns) : state.turns[i].idx > row.latest
    PROVE  Unpersisted(state) = state.turns
<1> DEFINE n == Len(state.turns)
           F == {i \in 1..n : state.turns[i].idx > row.latest}
<1>0. state.turns \in Seq(Turn) /\ n \in Nat /\ 1 \in 1..n
  BY LastTurn
<1>1. F = 1..n
  OBVIOUS
<1>2. F \in SUBSET Nat /\ F # {}
  BY <1>0, <1>1
<1>3. FirstOf(F) \in F /\ FirstOf(F) <= 1
  BY <1>0, <1>1, <1>2, FirstOfFacts
<1>4. FirstOf(F) = 1
  BY <1>0, <1>1, <1>3
<1>5. Unpersisted(state) = SubSeq(state.turns, 1, n)
  BY <1>2, <1>4 DEF Unpersisted
<1>6. SubSeq(state.turns, 1, n) = state.turns
  BY <1>0
<1> QED BY <1>5, <1>6

\* A recorder whose writes all succeed, whose process lives on, and whose row
\* nobody saves without the lock.
Undisturbed == MaxFaults = 0 /\ MaxCrashes = 0 /\ Clients = {}

\* What the execution of the Session tells about the recorder: there is a prompt
\* state exactly while a prompt runs, and an operation exactly while one is compacted.
Execution ==
    /\ state.live <=> exec = "prompt"
    /\ state.live => Len(state.turns) > 0
    /\ activeOps = IF exec = "compact" THEN 1 ELSE 0
    /\ exec = "compactStart" => task.kind = "operation"
    /\ task.kind \in {"start", "finish"} => exec = "prompt"
    /\ task.kind # "interrupt"

\* The row of a finish has been saved with the projection.
RowSaved == task.kind = "finish" /\ pc \in {"upsertLoad", "upsertSave"}

\* The live turns, the next index, the row and the turns to write are numbered
\* without a hole from the end of the files.
Numbering ==
    /\ ~RowSaved => /\ \A i \in 1..Len(state.turns) : state.turns[i].idx = row.latest + i
                    /\ nextIdx \in {0, row.latest + 1}
    /\ RowSaved => state.next = row.latest + 1
    /\ pc \notin {"write", "save"} => row.latest = Len(files)
    /\ pc = "upsertSave" => rec.latest = row.latest
    /\ pc \in {"write", "save"} =>
          /\ rec.latest = Len(files) + Len(todo)
          /\ (Len(todo) > 0) <=> (pc = "write")
          /\ \A j \in 1..Len(todo) : todo[j].idx = Len(files) + j
          /\ task.kind = "finish" => rec.latest + 1 = state.next
          /\ task.kind = "operation" => rec.latest = row.latest + 1

OpTurn(n) == NewTurn(n, "operation", IF exec = "compactStart" THEN "started" ELSE "completed")

\* What subscribers hold is live or in the files, and the files hold the live turns
\* they have reached.
Publication ==
    /\ \A i \in 1..Len(state.turns) : state.turns[i].idx <= Len(files) =>
           state.turns[i].fin /\ InFiles(files, state.turns[i])
    /\ \A t \in view : LiveIn(state, t) \/ (t.fin /\ InFiles(files, t))
    /\ pc = "write" => \A j \in 1..Len(todo) :
          IF task.kind = "operation" THEN todo[j] = OpTurn(rec.latest) ELSE LiveIn(state, todo[j])
    /\ pc = "save" /\ task.kind = "operation" => InFiles(files, OpTurn(rec.latest))

SettledInv == Execution /\ Numbering /\ Publication

\* The steps of the lock holder that publish nothing.
LEMMA SettledQuietStep ==
    ASSUME Undisturbed, CoreInv, CoreInv', SettledInv,
           \/ PromptStartLost \/ SessionInfoUpdate \/ PromptFinishedIgnored
           \/ PersistLoad \/ PersistenceGap \/ WriteTurn \/ WriteRefused \/ PersistSave
           \/ UpsertLoad \/ UpsertSave \/ StoreFails \/ OperationStarted \/ OperationEnded
    PROVE  SettledInv'
<1>0. /\ TypeOK /\ LockShape /\ Execution /\ Numbering /\ Publication
      /\ row \in Row /\ rec \in Row /\ files \in Seq(Contents) /\ todo \in Seq(Turn)
      /\ state \in PromptState /\ WellFormed(state) /\ view \in SUBSET Turn
      /\ row' \in Row /\ rec' \in Row /\ files' \in Seq(Contents)
      /\ faults \in Nat /\ MaxFaults = 0
  BY DEF CoreInv, SettledInv, TypeOK, StateShape, Undisturbed
<1>1. /\ row.latest \in Nat /\ rec.latest \in Nat /\ Len(files) \in Nat /\ Len(todo) \in Nat
      /\ state.next \in Nat \ {0} /\ Len(state.turns) \in Nat
      /\ \A i \in 1..Len(state.turns) : state.turns[i] \in Turn /\ state.turns[i].idx \in Nat
      /\ row'.latest \in Nat /\ rec'.latest \in Nat
      /\ Len(state.turns) > 0 => Len(state.turns) \in 1..Len(state.turns)
  <2>1. \A i \in 1..Len(state.turns) : state.turns[i] \in Turn
    BY <1>0, LastTurn
  <2>2. \A i \in 1..Len(state.turns) : state.turns[i].idx \in Nat
    BY <2>1 DEF Turn
  <2>3. row.latest \in Nat /\ rec.latest \in Nat /\ row'.latest \in Nat /\ rec'.latest \in Nat
    BY <1>0 DEF Row
  <2>4. /\ state.next \in Nat \ {0} /\ Len(state.turns) \in Nat
        /\ Len(state.turns) > 0 => Len(state.turns) \in 1..Len(state.turns)
    BY <1>0, LastTurn
  <2>5. Len(files) \in Nat /\ Len(todo) \in Nat
    BY <1>0
  <2> QED BY <2>1, <2>2, <2>3, <2>4, <2>5
<1>2. ~PromptStartLost /\ ~StoreFails /\ ~PromptFinishedIgnored
  BY <1>0 DEF PromptStartLost, StoreFails, PromptFinishedIgnored, Execution
<1>3. UNCHANGED <<state, nextIdx, view>>
  BY <1>2 DEF SessionInfoUpdate, PersistLoad, PersistenceGap, WriteTurn, WriteRefused, PersistSave,
         UpsertLoad, UpsertSave, OperationStarted, OperationEnded, Operation, PublishNothing
<1>4. pc = "persistLoad" =>
        /\ task.kind = "finish" /\ Unpersisted(state) = state.turns /\ Len(state.turns) > 0
        /\ state.turns[1].idx = row.latest + 1 /\ row.latest = Len(files)
  <2> SUFFICES ASSUME pc = "persistLoad"
               PROVE  /\ task.kind = "finish" /\ Unpersisted(state) = state.turns /\ Len(state.turns) > 0
                      /\ state.turns[1].idx = row.latest + 1 /\ row.latest = Len(files)
    OBVIOUS
  <2>1. task.kind = "finish" /\ Len(state.turns) > 0 /\ row.latest = Len(files)
    BY <1>0 DEF LockShape, Execution, Terminal, Numbering
  <2>2. \A i \in 1..Len(state.turns) : state.turns[i].idx = row.latest + i
    BY <1>0 DEF Numbering, RowSaved
  <2>3. 1 \in 1..Len(state.turns) /\ \A i \in 1..Len(state.turns) : state.turns[i].idx > row.latest
    BY <1>1, <2>1, <2>2
  <2> QED BY <1>0, <2>1, <2>2, <2>3, UnpersistedAll
<1>5. ~PersistenceGap
  BY <1>4 DEF PersistenceGap
<1>6. ~WriteRefused
  <2> SUFFICES ASSUME WriteRefused PROVE FALSE
    OBVIOUS
  <2>1. pc = "write" /\ Len(todo) > 0 /\ Head(todo).idx # Len(files) + 1
    BY DEF WriteRefused
  <2>2. Head(todo) = todo[1] /\ 1 \in 1..Len(todo)
    BY <1>0, <1>1, <2>1
  <2> QED BY <1>0, <2>1, <2>2 DEF Numbering
<1>7. CASE SessionInfoUpdate
  <2>1. /\ pc = "free" /\ pc' = "upsertLoad" /\ task'.kind = "info" /\ task.kind = "none"
        /\ UNCHANGED <<row, files, activeOps, exec>>
    BY <1>0, <1>7 DEF SessionInfoUpdate, Take, LockShape
  <2>2. Execution'
    BY <1>0, <1>3, <2>1 DEF Execution
  <2>3. Numbering'
    BY <1>0, <1>3, <2>1 DEF Numbering, RowSaved
  <2>4. Publication'
    BY <1>0, <1>3, <2>1 DEF Publication
  <2> QED BY <2>2, <2>3, <2>4 DEF SettledInv
<1>8. CASE PersistLoad
  <2>1. /\ pc = "persistLoad" /\ pc' = "write" /\ todo' = state.turns /\ rec' = Projected(state.turns)
        /\ UNCHANGED <<row, files, activeOps, task, exec>>
    BY <1>1, <1>4, <1>8 DEF PersistLoad
  <2>2. task.kind = "finish" /\ Len(state.turns) > 0 /\ row.latest = Len(files)
    BY <1>4, <2>1
  <2>3. state.turns \in Seq(Turn)
    BY <1>0, LastTurn
  <2>4. rec'.latest = state.turns[Len(state.turns)].idx
    BY <1>0, <2>1, <2>2, <2>3, ProjectedFacts
  <2>5. \A i \in 1..Len(state.turns) : state.turns[i].idx = row.latest + i
    BY <1>0, <2>1 DEF Numbering, RowSaved
  <2>6. rec'.latest = Len(files) + Len(state.turns) /\ rec'.latest + 1 = state.next
    BY <1>0, <1>1, <2>2, <2>4, <2>5 DEF WellFormed
  <2>7. Execution'
    BY <1>0, <1>3, <2>1 DEF Execution
  <2>8. nextIdx \in {0, row.latest + 1}
    BY <1>0, <2>1 DEF Numbering, RowSaved
  <2>9. Numbering'
    BY <1>3, <2>1, <2>2, <2>5, <2>6, <2>8 DEF Numbering, RowSaved
  <2>10. Publication'
    BY <1>0, <1>3, <2>1, <2>2 DEF Publication, LiveIn
  <2> QED BY <2>7, <2>9, <2>10 DEF SettledInv
<1>9. CASE WriteTurn
  <2> DEFINE t == todo[1]
  <2>1. /\ pc = "write" /\ Len(todo) > 0 /\ files' = Append(files, ContentOf(Head(todo)))
        /\ todo' = Tail(todo) /\ pc' = IF Len(todo) = 1 THEN "save" ELSE "write"
        /\ UNCHANGED <<row, activeOps, task, rec, exec>>
    BY <1>9 DEF WriteTurn
  <2>2. /\ Head(todo) = t /\ t \in Turn /\ 1 \in 1..Len(todo)
        /\ Len(todo') = Len(todo) - 1 /\ \A j \in 1..Len(todo') : j + 1 \in 1..Len(todo) /\ todo'[j] = todo[j + 1]
    BY <1>0, <1>1, <2>1
  <2>3. t.idx = Len(files) + 1
    BY <1>0, <2>1, <2>2 DEF Numbering
  <2> HIDE DEF t
  <2>4. /\ Len(files') = Len(files) + 1 /\ InFiles(files', t)
        /\ \A u \in Turn : InFiles(files, u) => InFiles(files', u)
    <3>1. /\ ContentOf(t) \in Contents /\ Grown(files, files')
          /\ files'[Len(files) + 1] = ContentOf(t) /\ Len(files') = Len(files) + 1
      BY <1>0, <2>1, <2>2, ContentType, AppendGrows
    <3> QED BY <1>0, <2>3, <3>1, GrownKeeps DEF InFiles
  <2>5. Execution'
    BY <1>0, <1>3, <2>1 DEF Execution
  <2>6. Numbering'
    <3>1. /\ \A i \in 1..Len(state.turns) : state.turns[i].idx = row.latest + i
          /\ nextIdx \in {0, row.latest + 1} /\ ~RowSaved
          /\ rec.latest = Len(files) + Len(todo)
          /\ \A j \in 1..Len(todo) : todo[j].idx = Len(files) + j
          /\ task.kind = "finish" => rec.latest + 1 = state.next
          /\ task.kind = "operation" => rec.latest = row.latest + 1
      BY <1>0, <2>1 DEF Numbering, RowSaved
    <3>0. /\ Len(todo') = Len(todo) - 1 /\ Len(files') = Len(files) + 1
          /\ Len(todo) \in Nat /\ Len(files) \in Nat /\ Len(todo) > 0
      BY <1>1, <2>1, <2>2, <2>4
    <3>2. rec'.latest = Len(files') + Len(todo')
      <4>1. rec'.latest = Len(files) + Len(todo)
        BY <2>1, <3>1
      <4> QED BY <3>0, <4>1
    <3>3. \A j \in 1..Len(todo') : todo'[j].idx = Len(files') + j
      <4> TAKE j \in 1..Len(todo')
      <4>1. todo'[j].idx = Len(files) + (j + 1)
        BY <2>2, <3>1
      <4> QED BY <1>1, <2>4, <4>1
    <3>4. (Len(todo') > 0) <=> (pc' = "write")
      <4>1. CASE Len(todo) = 1
        <5>1. pc' = "save"
          BY <2>1, <4>1
        <5>2. Len(todo') = 0
          BY <3>0, <4>1
        <5> QED BY <5>1, <5>2
      <4>2. CASE Len(todo) # 1
        <5>1. pc' = "write" /\ Len(todo') = Len(todo) - 1
          BY <2>1, <3>0, <4>2
        <5>2. Len(todo) > 1
          BY <3>0, <4>2
        <5> QED BY <3>0, <5>1, <5>2
      <4> QED BY <4>1, <4>2
    <3>5. pc' \in {"write", "save"} /\ ~RowSaved'
      BY <2>1 DEF RowSaved
    <3> QED BY <1>3, <2>1, <3>1, <3>2, <3>3, <3>4, <3>5 DEF Numbering
  <2>7. Publication'
    <3>1. ASSUME NEW i \in 1..Len(state.turns), state.turns[i].idx <= Len(files')
          PROVE  state.turns[i].fin /\ InFiles(files', state.turns[i])
      <4>1. CASE state.turns[i].idx <= Len(files)
        BY <1>0, <1>1, <2>4, <4>1 DEF Publication
      <4>2. CASE ~(state.turns[i].idx <= Len(files))
        <5>1. state.turns[i].idx = t.idx
          BY <1>1, <2>3, <2>4, <3>1, <4>2
        <5>2. task.kind # "operation" /\ task.kind = "finish"
          BY <1>0, <1>1, <2>1 DEF LockShape, Execution, WellFormed
        <5>3. PICK j \in 1..Len(state.turns) : t = state.turns[j]
          BY <1>0, <2>1, <2>2, <5>2 DEF Publication, LiveIn, t
        <5>4. i = j
          <6>1. CASE i < j
            BY <1>0, <1>1, <5>1, <5>3, <6>1 DEF WellFormed
          <6>2. CASE j < i
            BY <1>0, <1>1, <5>1, <5>3, <6>2 DEF WellFormed
          <6> QED BY <1>1, <5>3, <6>1, <6>2
        <5>5. Terminal(state)
          BY <1>0, <5>2 DEF LockShape
        <5>6. state.turns[i].fin
          BY <1>0, <1>1, <5>5 DEF WellFormed, Terminal, TextMethods
        <5> QED BY <2>4, <5>3, <5>4, <5>6
      <4> QED BY <4>1, <4>2
    <3>2. \A u \in view : LiveIn(state, u) \/ (u.fin /\ InFiles(files', u))
      BY <1>0, <2>4 DEF Publication
    <3>3. ASSUME pc' = "write", NEW j \in 1..Len(todo')
          PROVE  IF task.kind = "operation" THEN todo'[j] = OpTurn(rec.latest) ELSE LiveIn(state, todo'[j])
      BY <1>0, <2>1, <2>2 DEF Publication
    <3>4. ASSUME pc' = "save", task.kind = "operation" PROVE InFiles(files', OpTurn(rec.latest))
      BY <1>0, <2>1, <2>2, <2>4, <3>4 DEF Publication, t
    <3>5. \A n : OpTurn(n)' = OpTurn(n)
      BY <2>1 DEF OpTurn
    <3> QED BY <1>3, <2>1, <3>1, <3>2, <3>3, <3>4, <3>5 DEF Publication, OpTurn
  <2> QED BY <2>5, <2>6, <2>7 DEF SettledInv
<1>10. CASE PersistSave
  <2>1. /\ pc = "save" /\ row' = rec /\ pc' = "upsertLoad" /\ task.kind = "finish"
        /\ UNCHANGED <<files, activeOps, task, rec, todo, exec>>
    BY <1>0, <1>10 DEF PersistSave, Execution
  <2>2. rec.latest = Len(files) /\ rec.latest + 1 = state.next
    <3>1. rec.latest = Len(files) + Len(todo) /\ ~(Len(todo) > 0) /\ rec.latest + 1 = state.next
      BY <1>0, <2>1 DEF Numbering
    <3> QED BY <1>1, <3>1
  <2>3. Execution'
    BY <1>0, <1>3, <2>1 DEF Execution
  <2>4. Numbering'
    BY <1>1, <1>3, <2>1, <2>2 DEF Numbering, RowSaved
  <2>5. Publication'
    BY <1>0, <1>3, <2>1 DEF Publication
  <2> QED BY <2>3, <2>4, <2>5 DEF SettledInv
<1>11. CASE UpsertLoad
  <2>1. /\ pc = "upsertLoad" /\ rec' = row /\ pc' = "upsertSave"
        /\ UNCHANGED <<row, files, activeOps, task, todo, exec>>
    BY <1>11 DEF UpsertLoad
  <2>2. Execution'
    BY <1>0, <1>3, <2>1 DEF Execution
  <2>3. Numbering'
    BY <1>0, <1>3, <2>1 DEF Numbering, RowSaved
  <2>4. Publication'
    BY <1>0, <1>3, <2>1 DEF Publication
  <2> QED BY <2>2, <2>3, <2>4 DEF SettledInv
<1>12. CASE UpsertSave
  <2>1. /\ pc = "upsertSave" /\ row' = rec /\ pc' = "free" /\ task.kind \in {"start", "info"}
        /\ task'.kind = "none" /\ UNCHANGED <<files, activeOps, exec>>
    BY <1>12 DEF UpsertSave, Release, NoTask
  <2>2. row'.latest = row.latest
    BY <1>0, <2>1 DEF Numbering
  <2>3. Execution'
    BY <1>0, <1>3, <2>1 DEF Execution
  <2>4. Numbering'
    BY <1>0, <1>3, <2>1, <2>2 DEF Numbering, RowSaved
  <2>5. Publication'
    BY <1>0, <1>3, <2>1 DEF Publication
  <2> QED BY <2>3, <2>4, <2>5 DEF SettledInv
<1>13. CASE OperationStarted \/ OperationEnded
  <2> DEFINE status == IF OperationStarted THEN "started" ELSE "completed"
             t == NewTurn(row.latest + 1, "operation", status)
  <2>1. /\ pc = "free" /\ pc' = "write" /\ task'.kind = "operation"
        /\ rec' = [row EXCEPT !.latest = @ + 1] /\ todo' = <<t>>
        /\ UNCHANGED <<row, files, activeOps>>
        /\ exec' = IF OperationStarted THEN "compactStart" ELSE "compact"
        /\ exec = IF OperationStarted THEN "idle" ELSE "compact"
    BY <1>13 DEF OperationStarted, OperationEnded, Operation, Take
  <2>2. rec'.latest = row.latest + 1
    BY <1>0, <2>1, RowTypes
  <2>3. t = OpTurn(rec.latest)'
    BY <2>1, <2>2 DEF OpTurn
  <2>4. t.idx = row.latest + 1
    BY DEF NewTurn
  <2> HIDE DEF t
  <2>5. Len(todo') = 1 /\ todo'[1] = t /\ \A j \in 1..Len(todo') : j = 1
    BY <2>1
  <2>6. Len(state.turns) = 0 /\ row.latest = Len(files) /\ nextIdx \in {0, row.latest + 1}
    BY <1>0, <1>1, <2>1 DEF Execution, WellFormed, Numbering, RowSaved
  <2>7. Execution'
    BY <1>0, <1>3, <2>1 DEF Execution
  <2>8. Numbering'
    BY <1>1, <1>3, <2>1, <2>2, <2>4, <2>5, <2>6 DEF Numbering, RowSaved
  <2>9. Publication'
    <3>1. \A j \in 1..Len(todo') : todo'[j] = OpTurn(rec.latest)'
      BY <2>3, <2>5
    <3>2. \A u \in view' : LiveIn(state, u)' \/ (u.fin /\ InFiles(files', u))
      BY <1>0, <1>3, <2>1 DEF Publication
    <3>3. Len(state'.turns) = 0
      BY <1>3, <2>6
    <3> QED BY <2>1, <3>1, <3>2, <3>3 DEF Publication
  <2> QED BY <2>7, <2>8, <2>9 DEF SettledInv
<1> QED BY <1>2, <1>5, <1>6, <1>7, <1>8, <1>9, <1>10, <1>11, <1>12, <1>13

\* The steps that change the prompt state or publish turns.
LEMMA SettledStateStep ==
    ASSUME Undisturbed, CoreInv, CoreInv', SettledInv,
           \/ PromptStarted \/ PromptStartedInterrupting
           \/ \E mth \in AgentMethods, k \in Tags : UpdateMessage(mth, k)
           \/ ReplyAndEnd \/ ArtifactWriteFails
           \/ \E reason \in StopReasons : PromptFinished(reason)
           \/ FinishSave \/ InterruptSave \/ OperationSave \/ Crash
    PROVE  SettledInv'
<1>0. /\ TypeOK /\ LockShape /\ Execution /\ Numbering /\ Publication
      /\ row \in Row /\ rec \in Row /\ files \in Seq(Contents) /\ todo \in Seq(Turn)
      /\ state \in PromptState /\ WellFormed(state) /\ view \in SUBSET Turn
      /\ state' \in PromptState /\ WellFormed(state')
      /\ faults \in Nat /\ crashes \in Nat /\ MaxFaults = 0 /\ MaxCrashes = 0 /\ nextIdx \in Nat
  BY DEF CoreInv, SettledInv, TypeOK, StateShape, Undisturbed
<1>1. /\ row.latest \in Nat /\ rec.latest \in Nat /\ Len(files) \in Nat
      /\ state.next \in Nat \ {0} /\ Len(state.turns) \in Nat
      /\ Len(state.turns) > 0 => Len(state.turns) \in 1..Len(state.turns)
      /\ state'.next \in Nat \ {0} /\ Len(state'.turns) \in Nat
  <2>1. row.latest \in Nat /\ rec.latest \in Nat
    BY <1>0 DEF Row
  <2>2. Len(files) \in Nat
    BY <1>0
  <2> QED BY <1>0, <2>1, <2>2, LastTurn
<1>2. ~ArtifactWriteFails /\ ~Crash /\ ~InterruptSave /\ ~PromptStartedInterrupting
  BY <1>0, <1>1 DEF ArtifactWriteFails, Crash, InterruptSave, PromptStartedInterrupting, Execution,
                    WellFormed
\* the view after a handler that carries the state
<1>3. ASSUME NEW s, NEW e, Carries(s, e, state'), Publish(e), files' = files,
             \A t \in view : LiveIn(s, t) \/ (t.fin /\ InFiles(files, t))
      PROVE  \A t \in view' : LiveIn(state', t) \/ (t.fin /\ InFiles(files', t))
  <2>1. view' = ViewAfter(view, e)
    BY <1>3 DEF Publish
  <2>2. \A t \in ViewAfter(view, e) : LiveIn(state', t) \/ (t.fin /\ InFiles(files, t))
    BY <1>3, CarriesView
  <2> QED BY <1>3, <2>1, <2>2
\* the numbers after such a handler, before anything is written
<1>4. ASSUME NEW s \in PromptState, WellFormed(s), NEW e, Carries(s, e, state'),
             \A i \in 1..Len(s.turns) : s.turns[i].idx = row.latest + i,
             s.next = row.latest + Len(s.turns) + 1
      PROVE  /\ \A i \in 1..Len(state'.turns) : state'.turns[i].idx = row.latest + i
             /\ row.latest = Len(files) =>
                   \A i \in 1..Len(state'.turns) : ~(state'.turns[i].idx <= Len(files))
  <2>0. Len(s.turns) \in Nat
    BY LastTurn
  <2>1. ASSUME NEW i \in 1..Len(state'.turns) PROVE state'.turns[i].idx = row.latest + i
    <3>1. CASE i \in 1..Len(s.turns)
      BY <1>4, <3>1 DEF Carries
    <3>2. CASE i = Len(s.turns) + 1 /\ state'.turns[i].idx = s.next
      BY <1>1, <1>4, <2>0, <3>2
    <3> QED BY <1>4, <3>1, <3>2 DEF Carries
  <2> QED BY <1>1, <2>1
<1>5. /\ ~RowSaved /\ Len(state.turns) > 0 => state.next = row.latest + Len(state.turns) + 1
      /\ ~RowSaved => \A i \in 1..Len(state.turns) : state.turns[i].idx = row.latest + i
  <2>1. ~RowSaved => \A i \in 1..Len(state.turns) : state.turns[i].idx = row.latest + i
    BY <1>0 DEF Numbering
  <2>2. ASSUME ~RowSaved, Len(state.turns) > 0
        PROVE  state.next = row.latest + Len(state.turns) + 1
    <3>1. state.turns[Len(state.turns)].idx = row.latest + Len(state.turns)
      BY <1>1, <2>1, <2>2
    <3>2. state.turns[Len(state.turns)].idx + 1 = state.next
      BY <1>0, <2>2 DEF WellFormed
    <3> QED BY <1>1, <3>1, <3>2
  <2> QED BY <2>1, <2>2
<1>6. \A t \in view : LiveIn(state, t) \/ (t.fin /\ InFiles(files, t))
  BY <1>0 DEF Publication
<1>7. pc = "free" => /\ row.latest = Len(files) /\ nextIdx \in {0, row.latest + 1} /\ ~RowSaved
                     /\ task.kind = "none"
  BY <1>0 DEF Numbering, RowSaved, LockShape
<1>8. CASE PromptStarted
  <2>1. pc = "free" /\ exec = "idle" /\ Len(state.turns) = 0 /\ ~state.live
    BY <1>0, <1>1, <1>8 DEF PromptStarted, Execution, WellFormed
  <2>2. NextSessionTurnIndex = row.latest + 1
    BY <1>1, <1>7, <2>1 DEF NextSessionTurnIndex
  <2> DEFINE n == row.latest + 1
             z == newSessionPromptState(n)
             e == AddEvents(z, "request", NoTag)
  <2>3. /\ exec' = "prompt" /\ StartRequest(n, << >>) /\ UNCHANGED <<row, files, nextIdx, activeOps>>
    BY <1>8, <2>1, <2>2 DEF PromptStarted
  <2>4. /\ z \in PromptState /\ WellFormed(z) /\ z.live /\ Len(z.turns) = 0 /\ z.next = n
    BY <1>1, FreshState DEF MaxOf
  <2>5. /\ state' = AddMessageTurn(z, "request", NoTag) /\ Publish(<< >> \o e)
        /\ pc' = "upsertLoad" /\ task'.kind = "start"
    BY <2>3 DEF StartRequest, Take
  <2> HIDE DEF z
  <2>6. "request" \in Methods /\ NoTag \in Tags
    BY DEF Methods, Tags
  <2>7. /\ Carries(z, e, state') /\ e \in Seq(Turn) /\ state'.live /\ Len(state'.turns) > 0
    BY <2>4, <2>5, <2>6, AddCarries, AddMessageTurnFacts
  <2> HIDE DEF e
  <2>8. Publish(e)
    <3>1. << >> \o e = e
      BY <2>7
    <3> QED BY <2>5, <3>1
  <2>9. \A t \in view : LiveIn(z, t) \/ (t.fin /\ InFiles(files, t))
    BY <1>6, <2>1 DEF LiveIn
  <2>10. \A t \in view' : LiveIn(state', t) \/ (t.fin /\ InFiles(files', t))
    BY <1>3, <2>3, <2>7, <2>8, <2>9
  <2>11. /\ \A i \in 1..Len(state'.turns) : state'.turns[i].idx = row.latest + i
         /\ \A i \in 1..Len(state'.turns) : ~(state'.turns[i].idx <= Len(files))
    <3>1. \A i \in 1..Len(z.turns) : z.turns[i].idx = row.latest + i
      BY <2>4
    <3>2. z.next = row.latest + Len(z.turns) + 1
      BY <1>1, <2>4
    <3> QED BY <1>4, <1>7, <2>1, <2>4, <2>7, <3>1, <3>2
  <2>12. Execution'
    BY <1>0, <2>1, <2>3, <2>5, <2>7 DEF Execution
  <2>13. Numbering'
    BY <1>7, <2>1, <2>3, <2>5, <2>11 DEF Numbering, RowSaved
  <2>14. Publication'
    BY <2>3, <2>5, <2>10, <2>11 DEF Publication
  <2> QED BY <2>12, <2>13, <2>14 DEF SettledInv
<1>9. ASSUME NEW mth \in AgentMethods, NEW k \in Tags, UpdateMessage(mth, k)
      PROVE  SettledInv'
  <2>1. /\ pc = "free" /\ exec = "prompt" /\ state.live /\ state' = AddMessageTurn(state, mth, k)
        /\ Publish(AddEvents(state, mth, k)) /\ mth \in Methods
        /\ UNCHANGED <<row, files, nextIdx, activeOps, pc, task, rec, todo, exec>>
    BY <1>9 DEF UpdateMessage, lockVars, Methods
  <2>2. Carries(state, AddEvents(state, mth, k), state') /\ state'.live /\ Len(state'.turns) > 0
    BY <1>0, <2>1, AddCarries, AddMessageTurnFacts
  <2>3. Len(state.turns) > 0
    BY <1>0, <2>1 DEF Execution
  <2>4. \A t \in view' : LiveIn(state', t) \/ (t.fin /\ InFiles(files', t))
    BY <1>3, <1>6, <2>1, <2>2
  <2>5. /\ \A i \in 1..Len(state'.turns) : state'.turns[i].idx = row.latest + i
        /\ \A i \in 1..Len(state'.turns) : ~(state'.turns[i].idx <= Len(files))
    BY <1>0, <1>4, <1>5, <1>7, <2>1, <2>2, <2>3
  <2>6. Execution'
    BY <1>0, <2>1, <2>2 DEF Execution
  <2>7. Numbering'
    BY <1>0, <1>7, <2>1, <2>5 DEF Numbering, RowSaved
  <2>8. Publication'
    BY <2>1, <2>4, <2>5 DEF Publication
  <2> QED BY <2>6, <2>7, <2>8 DEF SettledInv
<1>10. CASE ReplyAndEnd
  <2>1. /\ pc = "free" /\ exec = "reply" /\ exec' = "idle" /\ ~state.live /\ UNCHANGED <<state, view>>
        /\ UNCHANGED <<row, files, nextIdx, activeOps, pc, task, rec, todo>>
    BY <1>0, <1>10 DEF ReplyAndEnd, lockVars, PublishNothing, Execution
  <2>2. Execution'
    BY <1>0, <2>1 DEF Execution
  <2>3. Numbering'
    BY <1>0, <2>1 DEF Numbering, RowSaved
  <2>4. Publication'
    BY <1>0, <2>1 DEF Publication
  <2> QED BY <2>2, <2>3, <2>4 DEF SettledInv
<1>11. ASSUME NEW reason \in StopReasons, PromptFinished(reason) PROVE SettledInv'
  <2>1. /\ pc = "free" /\ exec = "prompt" /\ state.live /\ Len(state.turns) > 0
        /\ FinishPrompt(state, reason, "finish") /\ UNCHANGED <<row, files, nextIdx, activeOps, exec>>
    BY <1>0, <1>11 DEF PromptFinished, Execution, EnsuredState
  <2>2. /\ state' = Finished(state, reason) /\ Publish(SealEvents(state)) /\ pc' = "persistLoad"
        /\ task'.kind = "finish"
    BY <2>1 DEF FinishPrompt, Finished, Take
  <2>3. Carries(state, SealEvents(state), state') /\ Len(state'.turns) > 0
    BY <1>0, <2>1, <2>2, FinishCarries, FinishedFacts
  <2>4. state'.live
    BY <1>0, <1>1, <2>3 DEF WellFormed
  <2>5. \A t \in view' : LiveIn(state', t) \/ (t.fin /\ InFiles(files', t))
    BY <1>3, <1>6, <2>1, <2>2, <2>3
  <2>6. /\ \A i \in 1..Len(state'.turns) : state'.turns[i].idx = row.latest + i
        /\ \A i \in 1..Len(state'.turns) : ~(state'.turns[i].idx <= Len(files))
    BY <1>0, <1>4, <1>5, <1>7, <2>1, <2>3
  <2>7. Execution'
    BY <1>0, <2>1, <2>2, <2>3, <2>4 DEF Execution
  <2>8. Numbering'
    BY <1>7, <2>1, <2>2, <2>6 DEF Numbering, RowSaved
  <2>9. Publication'
    BY <2>1, <2>2, <2>5, <2>6 DEF Publication
  <2> QED BY <2>7, <2>8, <2>9 DEF SettledInv
<1>12. CASE FinishSave
  <2>1. /\ pc = "upsertSave" /\ task.kind = "finish" /\ row' = rec /\ Publish(DoneEvents(state))
        /\ nextIdx' = state.next /\ state' = NoState /\ exec' = "reply"
        /\ pc' = "free" /\ task'.kind = "none" /\ UNCHANGED <<files, activeOps>>
    BY <1>12 DEF FinishSave, Release, ExecAfter, NoTask
  <2>2. /\ state.next = row.latest + 1 /\ row.latest = Len(files) /\ rec.latest = row.latest
    BY <1>0, <2>1 DEF Numbering, RowSaved
  <2>3. Len(state'.turns) = 0 /\ ~state'.live
    BY <2>1 DEF NoState
  <2>4. \A t : LiveIn(state, t) => t.fin /\ InFiles(files, t)
    <3> SUFFICES ASSUME NEW i \in 1..Len(state.turns)
                 PROVE  state.turns[i].fin /\ InFiles(files, state.turns[i])
      BY DEF LiveIn
    <3>1. state.turns[i].idx < state.next /\ state.turns[i] \in Turn
      BY <1>0, LastTurn DEF WellFormed
    <3>2. state.turns[i].idx \in Nat
      BY <3>1 DEF Turn
    <3>3. state.turns[i].idx <= Len(files)
      BY <1>1, <2>2, <3>1, <3>2
    <3> QED BY <1>0, <3>3 DEF Publication
  <2>5. Len(state.turns) \in 1..Len(state.turns)
    BY <1>0, <1>1, <2>1 DEF LockShape, Terminal
  <2>6. \A i \in 1..Len(DoneEvents(state)) : LiveIn(state, DoneEvents(state)[i])
    <3>1. CASE task.publishDone
      <4>1. DoneEvents(state) = <<state.turns[Len(state.turns)]>>
        BY <3>1 DEF DoneEvents
      <4> QED BY <2>5, <4>1 DEF LiveIn
    <3>2. CASE ~task.publishDone
      BY <3>2 DEF DoneEvents
    <3> QED BY <3>1, <3>2
  <2>7. \A t \in view' : t.fin /\ InFiles(files', t)
    <3> TAKE t \in view'
    <3>1. t \in ViewAfter(view, DoneEvents(state))
      BY <2>1 DEF Publish
    <3>2. t \in view \/ \E i \in 1..Len(DoneEvents(state)) : t = DoneEvents(state)[i]
      BY <3>1, ViewAfterFacts
    <3>3. LiveIn(state, t) \/ (t.fin /\ InFiles(files, t))
      BY <1>6, <2>6, <3>2
    <3> QED BY <2>1, <2>4, <3>3
  <2>8. Execution'
    BY <1>0, <2>1, <2>3 DEF Execution
  <2>9. Numbering'
    BY <1>1, <2>1, <2>2, <2>3 DEF Numbering, RowSaved
  <2>10. Publication'
    BY <2>1, <2>3, <2>7 DEF Publication
  <2> QED BY <2>8, <2>9, <2>10 DEF SettledInv
<1>13. CASE OperationSave
  <2> DEFINE t == OpTurn(rec.latest)
  <2>1. /\ pc = "save" /\ task.kind = "operation" /\ row' = rec /\ activeOps' = OpsAfter
        /\ nextIdx' = rec.latest + 1 /\ Publish(<<t>>)
        /\ exec' = IF exec = "compactStart" THEN "compact" ELSE "idle"
        /\ pc' = "free" /\ task'.kind = "none" /\ UNCHANGED <<files, state>>
    BY <1>13 DEF OperationSave, Release, OpTurn, NoTask
  <2>2. exec \in {"compactStart", "compact"} /\ ~state.live /\ Len(state.turns) = 0 /\ rec.latest > 0
    BY <1>0, <2>1 DEF LockShape, Execution, WellFormed
  <2>3. rec.latest = Len(files)
    <3>1. rec.latest = Len(files) + Len(todo) /\ ~(Len(todo) > 0)
      BY <1>0, <2>1 DEF Numbering
    <3>2. Len(todo) \in Nat
      BY <1>0
    <3> QED BY <1>1, <3>1, <3>2
  <2>4. t.fin /\ InFiles(files, t)
    BY <1>0, <2>1 DEF Publication, OpTurn, NewTurn, TextMethods
  <2>5. \A u \in view' : u.fin /\ InFiles(files', u)
    <3> TAKE u \in view'
    <3>1. u \in ViewAfter(view, <<t>>)
      BY <2>1 DEF Publish
    <3> HIDE DEF t
    <3>2. u \in view \/ \E i \in 1..Len(<<t>>) : u = <<t>>[i]
      BY <3>1, ViewAfterFacts
    <3>3. u \in view \/ u = t
      BY <3>2
    <3> QED BY <1>6, <2>1, <2>2, <2>4, <3>3 DEF LiveIn
  <2>6. activeOps' = IF exec' = "compact" THEN 1 ELSE 0
    BY <1>0, <2>1, <2>2 DEF OpsAfter, Execution
  <2>7. Execution'
    BY <1>0, <2>1, <2>2, <2>6 DEF Execution
  <2>8. Numbering'
    BY <2>1, <2>2, <2>3 DEF Numbering, RowSaved
  <2>9. Publication'
    BY <2>1, <2>2, <2>5 DEF Publication
  <2> QED BY <2>7, <2>8, <2>9 DEF SettledInv
<1> QED BY <1>2, <1>8, <1>9, <1>10, <1>11, <1>12, <1>13

\* Without a handler at work what subscribers hold follows the state; without a
\* prompt state it is all in the files.
LEMMA SettledPublished ==
    ASSUME CoreInv, SettledInv
    PROVE  /\ Len(state.turns) > 0 /\ pc = "free" => Follows(view, state)
           /\ Len(state.turns) = 0 => \A t \in view : t.fin /\ t.idx <= Len(files)
           /\ Terminal(state) => \A t \in view : t.fin
<1>0. /\ TypeOK /\ Numbering /\ Publication /\ WellFormed(state) /\ view \in SUBSET Turn
      /\ state \in PromptState /\ row.latest \in Nat /\ Len(files) \in Nat
      /\ state.next \in Nat \ {0} /\ Len(state.turns) \in Nat
      /\ Len(state.turns) > 0 => Len(state.turns) \in 1..Len(state.turns)
      /\ \A t \in view : t.idx \in Nat
  <2>1. /\ TypeOK /\ Numbering /\ Publication /\ WellFormed(state) /\ view \in SUBSET Turn
        /\ state \in PromptState /\ row \in Row /\ files \in Seq(Contents)
    BY DEF CoreInv, SettledInv, TypeOK, StateShape
  <2>2. row.latest \in Nat /\ Len(files) \in Nat /\ \A t \in view : t.idx \in Nat
    BY <2>1 DEF Row, Turn
  <2> QED BY <2>1, <2>2, LastTurn
<1>1. \A t \in view : LiveIn(state, t) \/ (t.fin /\ t.idx <= Len(files))
  BY <1>0 DEF Publication, InFiles
<1>2. ASSUME Len(state.turns) > 0, pc = "free" PROVE Follows(view, state)
  <2>1. row.latest = Len(files) /\ state.next > Len(files)
    <3>1. row.latest = Len(files) /\ state.turns[Len(state.turns)].idx = row.latest + Len(state.turns)
      BY <1>0, <1>2 DEF Numbering, RowSaved
    <3>2. state.turns[Len(state.turns)].idx + 1 = state.next
      BY <1>0, <1>2 DEF WellFormed
    <3> QED BY <1>0, <3>1, <3>2
  <2> SUFFICES ASSUME NEW t \in view
               PROVE  /\ ~t.fin => Len(state.turns) > 0 /\ t = state.turns[Len(state.turns)]
                      /\ t.idx < state.next
    BY DEF Follows
  <2>2. CASE LiveIn(state, t)
    <3>1. PICK i \in 1..Len(state.turns) : t = state.turns[i]
      BY <2>2 DEF LiveIn
    <3>2. t.idx < state.next /\ (~t.fin => i = Len(state.turns))
      BY <1>0, <3>1 DEF WellFormed
    <3> QED BY <1>2, <3>1, <3>2
  <2>3. CASE t.fin /\ t.idx <= Len(files)
    BY <1>0, <2>1, <2>3
  <2> QED BY <1>1, <2>2, <2>3
<1>3. ASSUME Len(state.turns) = 0 PROVE \A t \in view : t.fin /\ t.idx <= Len(files)
  BY <1>1, <1>3 DEF LiveIn
<1>4. ASSUME Terminal(state) PROVE \A t \in view : t.fin
  <2>1. Len(state.turns) \in 1..Len(state.turns) /\ state.turns[Len(state.turns)].method = "done"
    BY <1>0, <1>4 DEF Terminal
  <2>2. \A i \in 1..Len(state.turns) : state.turns[i].fin
    BY <1>0, <2>1 DEF WellFormed, TextMethods
  <2> QED BY <1>1, <2>2 DEF LiveIn
<1> QED BY <1>2, <1>3, <1>4

\* Every step of an undisturbed recorder keeps the invariant.
LEMMA SettledStep ==
    ASSUME Undisturbed, CoreInv, SettledInv, Next
    PROVE  SettledInv'
<1>0. CoreInv'
  BY CoreStep
<1>1. ASSUME AgentUpdate PROVE \E m \in AgentMethods, k \in Tags : UpdateMessage(m, k)
  <2>1. \A m \in UpdateMethods : m \in AgentMethods
    BY ConstantsAssumption
  <2>2. NoTag \in Tags /\ \A k \in ToolCalls : k \in Tags
    BY DEF Tags
  <2> QED BY <1>1, <2>1, <2>2 DEF AgentUpdate, AgentMethods
<1>2. ASSUME Handler PROVE SettledInv'
  BY <1>0, <1>2, SettledQuietStep, SettledStateStep DEF Handler
<1>3. ASSUME \/ AgentUpdate \/ PromptStarted \/ PromptStartedInterrupting \/ ReplyAndEnd \/ ArtifactWriteFails
             \/ \E reason \in StopReasons \ {"interrupted"} : PromptFinished(reason)
             \/ Crash
      PROVE  SettledInv'
  BY <1>0, <1>1, <1>3, SettledStateStep
<1>4. ASSUME \/ PromptStartLost \/ SessionInfoUpdate \/ PromptFinishedIgnored
             \/ OperationStarted \/ OperationEnded \/ StoreFails
      PROVE  SettledInv'
  BY <1>0, <1>4, SettledQuietStep
<1>5. Clients = {}
  BY DEF Undisturbed
<1> QED BY <1>2, <1>3, <1>4, <1>5 DEF Next

\* Nothing is persisted, published or running initially.
LEMMA SettledInit ==
    ASSUME Init
    PROVE  SettledInv
<1>1. Len(state.turns) = 0 /\ ~state.live /\ task.kind = "none" /\ row.latest = 0 /\ Len(files) = 0
  BY DEF Init, NoState, NoTask, NewRow
<1>2. Execution
  BY <1>1 DEF Init, Execution
<1>3. Numbering
  BY <1>1 DEF Init, Numbering, RowSaved
<1>4. Publication
  BY <1>1 DEF Init, Publication
<1> QED BY <1>2, <1>3, <1>4 DEF SettledInv

\* An undisturbed recorder keeps the core invariant and the settled one.
THEOREM SettledInvariance ==
    ASSUME Undisturbed
    PROVE  Spec => [](CoreInv /\ SettledInv)
<1>1. Init => CoreInv /\ SettledInv
  BY CoreInit, SettledInit
<1>2. CoreInv /\ SettledInv /\ [Next]_vars => SettledInv'
  <2> SUFFICES ASSUME CoreInv, SettledInv, [Next]_vars PROVE SettledInv'
    OBVIOUS
  <2>1. CASE Next
    BY <2>1, SettledStep
  <2>2. CASE UNCHANGED vars
    <3>1. Execution'
      BY <2>2 DEF SettledInv, Execution, vars
    <3>2. Numbering'
      BY <2>2 DEF SettledInv, Numbering, RowSaved, vars
    <3>3. Publication'
      BY <2>2 DEF SettledInv, Publication, OpTurn, vars
    <3> QED BY <3>1, <3>2, <3>3 DEF SettledInv
  <2> QED BY <2>1, <2>2
<1> QED BY <1>1, <1>2, CoreInvariance, PTL DEF Spec

\* Between the handlers of an undisturbed recorder latestPersistedTurnIndex is the
\* last turn of the files, through prompts, compactions and title updates.
THEOREM RowMatchesFilesAlways ==
    ASSUME Undisturbed
    PROVE  Spec => []RowMatchesFiles
<1>1. SettledInv => RowMatchesFiles
  BY DEF SettledInv, Numbering, RowMatchesFiles
<1> QED BY <1>1, SettledInvariance, PTL

\* The live turns of an undisturbed recorder continue the files without a hole, so
\* that neither the persistence gap nor the refusal of WriteTurns ever happens.
THEOREM LiveTurnsFollowFilesAlways ==
    ASSUME Undisturbed
    PROVE  Spec => []LiveTurnsFollowFiles
<1>1. SettledInv => LiveTurnsFollowFiles
  BY DEF SettledInv, Numbering, RowSaved, LiveTurnsFollowFiles
<1> QED BY <1>1, SettledInvariance, PTL

\* In an undisturbed recorder the files hold every turn they have reached exactly
\* as it was last published.
THEOREM PublishedIsPersistedAlways ==
    ASSUME Undisturbed
    PROVE  Spec => []PublishedIsPersisted
<1>1. SettledInv => PublishedIsPersisted
  BY DEF SettledInv, Publication, PublishedIsPersisted, LiveIn, InFiles
<1> QED BY <1>1, SettledInvariance, PTL

\* An undisturbed recorder whose session executes nothing holds no turn and counts
\* no operation: it is not shown as running.
THEOREM IdleIsSettledAlways ==
    ASSUME Undisturbed
    PROVE  Spec => []IdleIsSettled
<1>1. CoreInv /\ SettledInv => IdleIsSettled
  BY DEF CoreInv, StateShape, WellFormed, SettledInv, Execution, IdleIsSettled, Running
<1> QED BY <1>1, SettledInvariance, PTL

\* Every step of an undisturbed recorder publishes in order.
LEMMA SettledInOrder ==
    ASSUME Undisturbed, CoreInv, SettledInv, Next
    PROVE  InOrder(view, out')
<1>0. /\ TypeOK /\ LockShape /\ Execution /\ Numbering
      /\ state \in PromptState /\ WellFormed(state) /\ view \in SUBSET Turn
      /\ row.latest \in Nat /\ nextIdx \in Nat /\ Len(state.turns) \in Nat /\ Len(files) \in Nat
      /\ MaxFaults = 0 /\ MaxCrashes = 0 /\ Clients = {} /\ faults \in Nat /\ crashes \in Nat
      /\ \A t \in view : t.idx \in Nat
  <2>1. /\ TypeOK /\ LockShape /\ Execution /\ Numbering
        /\ state \in PromptState /\ WellFormed(state) /\ view \in SUBSET Turn
        /\ row \in Row /\ nextIdx \in Nat /\ files \in Seq(Contents)
        /\ MaxFaults = 0 /\ MaxCrashes = 0 /\ Clients = {} /\ faults \in Nat /\ crashes \in Nat
    BY DEF CoreInv, SettledInv, TypeOK, StateShape, Undisturbed
  <2>2. row.latest \in Nat /\ Len(files) \in Nat /\ \A t \in view : t.idx \in Nat
    BY <2>1 DEF Row, Turn
  <2> QED BY <2>1, <2>2, LastTurn
<1>1. /\ Len(state.turns) > 0 /\ pc = "free" => Follows(view, state)
      /\ Len(state.turns) = 0 => \A t \in view : t.fin /\ t.idx <= Len(files)
      /\ Terminal(state) => \A t \in view : t.fin
  BY SettledPublished
<1>2. CASE out' = << >>
  BY <1>2, NoneInOrder
<1>3. CASE PromptStarted
  <2>1. pc = "free" /\ Len(state.turns) = 0
    BY <1>0, <1>3 DEF PromptStarted, Execution, WellFormed
  <2>2. NextSessionTurnIndex = row.latest + 1 /\ row.latest = Len(files)
    BY <1>0, <2>1 DEF NextSessionTurnIndex, Numbering, RowSaved
  <2> DEFINE n == row.latest + 1
  <2>3. out' = << >> \o AddEvents(newSessionPromptState(n), "request", NoTag)
    BY <1>3, <2>1, <2>2 DEF PromptStarted, StartRequest, Publish
  <2>4. n \in Nat \ {0} /\ SettledView(view, n)
    BY <1>0, <1>1, <2>1, <2>2 DEF SettledView
  <2>5. << >> \in Seq(Turn) /\ \A i \in 1..Len(<< >>) : <<>>[i].fin /\ <<>>[i].idx < n
    OBVIOUS
  <2> HIDE DEF n
  <2> QED BY <1>0, <2>3, <2>4, <2>5, StartPublishes
<1>4. ASSUME NEW m \in Methods, NEW k \in Tags, state.live, pc = "free",
             out' = AddEvents(state, m, k)
      PROVE  InOrder(view, out')
  <2>1. Follows(view, state)
    BY <1>0, <1>1, <1>4 DEF Execution
  <2> QED BY <1>0, <1>4, <2>1, AddMessageTurnFacts
<1>5. CASE AgentUpdate
  <2>1. \A m \in UpdateMethods : m \in Methods
    BY ConstantsAssumption DEF Methods
  <2>2. NoTag \in Tags /\ \A k \in ToolCalls : k \in Tags
    BY DEF Tags
  <2>3. PICK m \in Methods, k \in Tags : UpdateMessage(m, k)
    BY <1>5, <2>1, <2>2 DEF AgentUpdate
  <2> QED BY <1>4, <2>3 DEF UpdateMessage, Publish
<1>6. CASE ReplyAndEnd
  BY <1>0, <1>2, <1>6 DEF ReplyAndEnd, PublishNothing, Execution
<1>7. ASSUME NEW reason \in StopReasons, PromptFinished(reason) PROVE InOrder(view, out')
  <2>1. pc = "free" /\ state.live /\ Len(state.turns) > 0 /\ out' = SealEvents(state)
    BY <1>0, <1>7 DEF PromptFinished, EnsuredState, FinishPrompt, Publish, Execution
  <2> QED BY <1>0, <1>1, <1>7, <2>1, FinishedFacts
<1>8. CASE FinishSave
  <2>1. out' = DoneEvents(state) /\ Terminal(state)
    BY <1>0, <1>8 DEF FinishSave, Publish, LockShape
  <2>2. DoneEvents(state) \in Seq(Turn)
    BY <1>0, <2>1, DoneEventsType DEF Terminal
  <2>3. state.turns[Len(state.turns)].fin
    BY <1>0, <2>1 DEF Terminal, WellFormed, TextMethods
  <2>4. \A i \in 1..Len(DoneEvents(state)) : DoneEvents(state)[i].fin
    BY <2>3 DEF DoneEvents
  <2> QED BY <1>0, <1>1, <2>1, <2>2, <2>4, FinishedInOrder
<1>9. CASE OperationSave
  <2>1. out' = <<OpTurn(rec.latest)>> /\ Len(state.turns) = 0 /\ rec.latest \in Nat \ {0}
    BY <1>0, <1>9 DEF OperationSave, Publish, OpTurn, LockShape, Execution, WellFormed, TypeOK, Row
  <2>2. OpTurn(rec.latest) \in Turn /\ OpTurn(rec.latest).fin
    <3>1. "operation" \in Methods /\ "started" \in Tags /\ "completed" \in Tags /\ "operation" \notin TextMethods
      BY DEF Methods, Tags, OpStatuses, TextMethods
    <3> QED BY <2>1, <3>1, NewTurnType DEF OpTurn
  <2>3. out' \in Seq(Turn) /\ \A i \in 1..Len(out') : out'[i].fin
    BY <2>1, <2>2
  <2> QED BY <1>0, <1>1, <2>1, <2>3, FinishedInOrder
<1>10. ~PromptStartedInterrupting /\ ~InterruptSave /\ ~ArtifactWriteFails /\ ~Crash
  BY <1>0 DEF PromptStartedInterrupting, InterruptSave, ArtifactWriteFails, Crash, Execution, WellFormed
<1>11. CASE \/ PromptStartLost \/ SessionInfoUpdate \/ PromptFinishedIgnored \/ OperationStarted
            \/ OperationEnded \/ StoreFails \/ PersistLoad \/ PersistenceGap \/ WriteTurn
            \/ WriteRefused \/ PersistSave \/ UpsertLoad \/ UpsertSave
  <2>1. out' = << >>
    BY <1>11 DEF PromptStartLost, SessionInfoUpdate, PromptFinishedIgnored, OperationStarted,
          OperationEnded, Operation, StoreFails, PersistLoad, PersistenceGap, WriteTurn, WriteRefused,
          PersistSave, UpsertLoad, UpsertSave, PublishNothing
  <2> QED BY <1>2, <2>1
<1> QED BY <1>0, <1>3, <1>5, <1>6, <1>7, <1>8, <1>9, <1>10, <1>11 DEF Next, Handler

\* In an undisturbed recorder, compaction included, subscribers hold at most one
\* unfinished turn, the last one.
THEOREM UnfinishedTailSettled ==
    ASSUME Undisturbed
    PROVE  Spec => []UnfinishedTail
<1>1. CoreInv /\ SettledInv => UnfinishedTail
  <2> SUFFICES ASSUME CoreInv, SettledInv PROVE UnfinishedTail
    OBVIOUS
  <2>1. /\ state \in PromptState /\ WellFormed(state) /\ view \in SUBSET Turn /\ Publication
        /\ files \in Seq(Contents)
    BY DEF CoreInv, TypeOK, StateShape, SettledInv
  <2>2. OpenTurnIsLast
    BY <2>1 DEF WellFormed, OpenTurnIsLast
  <2>3. ASSUME NEW t \in view, ~t.fin, NEW u \in view PROVE u.idx <= t.idx
    <3>0. t.idx \in Nat /\ u.idx \in Nat /\ Len(files) \in Nat /\ Len(state.turns) \in Nat
      BY <2>1, LastTurn DEF Turn
    <3>1. PICK i \in 1..Len(state.turns) : t = state.turns[i]
      BY <2>1, <2>3 DEF Publication, LiveIn
    <3>2. i = Len(state.turns) /\ ~(t.idx <= Len(files))
      BY <2>1, <2>3, <3>1 DEF WellFormed, Publication
    <3>3. CASE LiveIn(state, u)
      <4>1. PICK j \in 1..Len(state.turns) : u = state.turns[j]
        BY <3>3 DEF LiveIn
      <4>2. j = i \/ state.turns[j].idx < state.turns[i].idx
        BY <2>1, <3>0, <3>2, <4>1 DEF WellFormed
      <4> QED BY <3>0, <3>1, <4>1, <4>2
    <3>4. CASE InFiles(files, u)
      BY <3>0, <3>2, <3>4 DEF InFiles
    <3> QED BY <2>1, <3>3, <3>4 DEF Publication
  <2> QED BY <2>2, <2>3 DEF UnfinishedTail
<1> QED BY <1>1, SettledInvariance, PTL

\* In an undisturbed recorder, compaction included, no turn is published beyond one
\* that subscribers still hold as unfinished.
THEOREM SealBeforeNextSettled ==
    ASSUME Undisturbed
    PROVE  Spec => SealBeforeNext
<1>1. CoreInv /\ SettledInv /\ [Next]_vars =>
        [\A i \in 1..Len(out') :
            \A t \in ViewAfter(view, SubSeq(out', 1, i - 1)) : t.idx < out'[i].idx => t.fin]_vars
  <2> SUFFICES ASSUME CoreInv, SettledInv, Next PROVE InOrder(view, out')
    BY DEF InOrder
  <2> QED BY SettledInOrder
<1> QED BY <1>1, SettledInvariance, PTL DEF Spec, SealBeforeNext

=============================================================================
