--------------------------- MODULE ChatSyncProofs ---------------------------
(***************************************************************************)
(* What ChatSync guarantees for any number of turns, publications, reads,  *)
(* connection losses, page reloads, hub restarts, failed requests and late *)
(* answers: the client's finished turns and its durable cache are          *)
(* continuous prefixes, the repair queue agrees with its read, and, until  *)
(* the hub loses turns, finished text is final and taken back only by an   *)
(* answer that the seal of a turn overtook.  Until an answer is overtaken  *)
(* or a read fails, a session with nothing on its way shows the whole log. *)
(***************************************************************************)
EXTENDS ChatSync, WellFoundedInduction, TLAPS

-----------------------------------------------------------------------------
(* The invariant *)

TurnMsg == [kind : {"turn"}, i : 1..MaxTurn, t : Turn]
ReadMsg == [kind : {"read"}, job : Jobs, latest : 0..MaxTurn, turns : TurnMap]
Queue == [inFlight : BOOLEAN, pending : BOOLEAN, cursor : 0..MaxTurn,
          nextCursor : 0..MaxTurn, run : Runs, nextRun : Runs]
Budget == [drops : Nat, reloads : Nat, restarts : Nat, fails : Nat,
           lates : Nat]

\* Only the last turn of the log is open, and the turn files hold a part of it.
HubInv ==
    /\ log \in Seq(Turn) /\ Len(log) <= MaxTurn
    /\ saved \in Nat /\ saved <= Len(log) /\ stamp \in 0..MaxStamp
    /\ \A i \in 1..Len(log) : i < Len(log) => log[i].f

WireInv ==
    /\ inbox \in Seq(TurnMsg \cup ReadMsg) /\ served \in SUBSET ReadMsg

FlagsInv ==
    /\ link \in [at : Phases, was : BOOLEAN] /\ sel \in BOOLEAN /\ dirty \in BOOLEAN
    /\ budget \in Budget
    /\ budget.restarts <= MaxRestarts /\ budget.fails <= MaxFails /\ budget.lates <= MaxLates

\* A store whose finished turns are a prefix that no live turn is part of.
StoreOK(s) ==
    /\ s \in [finished : TurnMap, live : TurnMap, cursor : 0..MaxTurn]
    /\ \A i \in DOMAIN s.finished : s.finished[i].f
    /\ \A i \in DOMAIN s.live : ~s.live[i].f
    /\ DOMAIN s.finished = 1..s.cursor
    /\ \A i \in DOMAIN s.live : i \notin DOMAIN s.finished

DurableOK(m) ==
    /\ m \in TurnMap
    /\ \E n \in 0..MaxTurn : DOMAIN m = 1..n /\ \A i \in 1..n : m[i].f

StoreInv ==
    /\ StoreOK(st) /\ DurableOK(durable)
    /\ fc \in 0..MaxTurn /\ savedCursor \in 0..MaxTurn

ReadsInv ==
    /\ reads \in [Jobs -> Reads] /\ rq \in Queue
    /\ RepairMatchesRead

\* An answer on its way belongs to the read that waits for it.
Fits(a, r) ==
    /\ r.state = "answered"
    /\ \A i \in DOMAIN a.turns : r.after < i /\ i <= a.latest

\* No read has two answers on the way, and none is on the way before the
\* connection is ready.
FlightInv ==
    /\ \A a \in served : Fits(a, reads[a.job])
    /\ \A k \in 1..Len(inbox) : inbox[k].kind = "read" => Fits(inbox[k], reads[inbox[k].job])
    /\ \A a, b \in served : a.job = b.job => a = b
    /\ \A k, l \in 1..Len(inbox) :
          inbox[k].kind = "read" /\ inbox[l].kind = "read" /\ inbox[k].job = inbox[l].job => k = l
    /\ \A k \in 1..Len(inbox), a \in served : inbox[k].kind = "read" => inbox[k].job # a.job
    /\ ~online => inbox = <<>>
    /\ ~ready => served = {} /\ \A j \in Jobs : reads[j].state = "none"

SyncInv == HubInv /\ WireInv /\ FlagsInv /\ StoreInv /\ ReadsInv /\ FlightInv

\* The log has this turn for good, as far as it is finished.
Final(i, t) == t.f => i \in 1..Len(log) /\ log[i] = t
FinalTurns(m) == \A i \in DOMAIN m : Final(i, m[i])

FinalInv ==
    /\ budget.restarts = MaxRestarts
    /\ \A a \in served : FinalTurns(a.turns)
    /\ \A k \in 1..Len(inbox) : /\ inbox[k].kind = "read" => FinalTurns(inbox[k].turns)
                                /\ inbox[k].kind = "turn" => Final(inbox[k].i, inbox[k].t)
    /\ FinalTurns(st.finished) /\ FinalTurns(durable)
-----------------------------------------------------------------------------
(* The turn store (chatTurnStores.ts) *)

\* A nonempty set of numbers has a least element.
LEMMA LeastExists ==
    ASSUME NEW S \in SUBSET Nat, S # {}
    PROVE  \E i \in S : \A j \in S : i <= j
<1> DEFINE Lt == {p \in Nat \X Nat : p[1] < p[2]}
<1>1. IsWellFoundedOn(Lt, Nat)
  BY NatLessThanWellFounded, Zenon DEF OpToRel
<1>2. PICK i \in S : \A j \in S : ~(<<j, i>> \in Lt)
  BY <1>1, WFMin, Zenon
<1>3. ASSUME NEW j \in S PROVE i <= j
  <2>1. i \in Nat /\ j \in Nat
    OBVIOUS
  <2>2. <<j, i>> \in Nat \X Nat /\ <<j, i>>[1] = j /\ <<j, i>>[2] = i
    BY <2>1
  <2>3. ~(j < i)
    BY <1>2, <2>2
  <2> QED BY <2>1, <2>3
<1> QED BY <1>2, <1>3

\* A turn map is a function on some of the indices.
LEMMA TurnMaps ==
    ASSUME NEW m
    PROVE  m \in TurnMap <=> DOMAIN m \subseteq 1..MaxTurn /\ m \in [DOMAIN m -> Turn]
<1>1. ASSUME m \in TurnMap PROVE DOMAIN m \subseteq 1..MaxTurn /\ m \in [DOMAIN m -> Turn]
  <2>1. PICK S \in SUBSET (1..MaxTurn) : m \in [S -> Turn]
    BY <1>1 DEF TurnMap
  <2> QED BY <2>1
<1>2. ASSUME DOMAIN m \subseteq 1..MaxTurn, m \in [DOMAIN m -> Turn] PROVE m \in TurnMap
  BY <1>2 DEF TurnMap
<1> QED BY <1>1, <1>2

\* So is every map that is put together from turns of such maps.
LEMMA MapFrom ==
    ASSUME NEW S \in SUBSET (1..MaxTurn), NEW m, m \in [S -> Turn]
    PROVE  m \in TurnMap /\ DOMAIN m = S /\ \A i \in S : m[i] \in Turn
BY TurnMaps

\* The turns of a map are turns.
LEMMA TurnsOf ==
    ASSUME NEW m \in TurnMap
    PROVE  DOMAIN m \in SUBSET (1..MaxTurn) /\ \A i \in DOMAIN m : m[i] \in Turn
BY TurnMaps

\* No turns are a turn map.
LEMMA NoTurnsMap ==
    NoTurns \in TurnMap /\ DOMAIN NoTurns = {}
<1>1. NoTurns \in [{} -> Turn] /\ DOMAIN NoTurns = {}
  BY DEF NoTurns
<1>2. {} \in SUBSET (1..MaxTurn)
  OBVIOUS
<1> QED BY <1>1, <1>2 DEF TurnMap

\* getFinishedCursor is the length of the longest finished prefix.
LEMMA FinishedCursor ==
    ASSUME MaxTurn \in Nat, NEW m \in TurnMap
    PROVE  /\ getFinishedCursor(m) \in 0..MaxTurn
           /\ \A i \in 1..getFinishedCursor(m) : i \in DOMAIN m /\ m[i].f
           /\ ~(getFinishedCursor(m) + 1 \in DOMAIN m /\ m[getFinishedCursor(m) + 1].f)
<1> DEFINE Good(i) == i \in DOMAIN m /\ m[i].f
           S == {n \in Nat : ~Good(n + 1)}
<1>1. DOMAIN m \subseteq 1..MaxTurn
  BY TurnMaps
<1>2. MaxTurn \in S
  <2>1. MaxTurn + 1 \notin 1..MaxTurn
    OBVIOUS
  <2> QED BY <1>1, <2>1
<1>3. PICK n \in S : \A j \in S : n <= j
  <2>1. S \in SUBSET Nat /\ S # {}
    BY <1>2
  <2> HIDE DEF S
  <2> QED BY <2>1, LeastExists
<1>4. n \in 0..MaxTurn /\ ~Good(n + 1)
  BY <1>2, <1>3
<1>5. ASSUME NEW i \in 1..n PROVE Good(i)
  <2>1. i - 1 \in Nat /\ (i - 1) + 1 = i /\ ~(n <= i - 1)
    BY <1>3
  <2>2. i - 1 \notin S
    BY <1>3, <2>1
  <2>3. Good((i - 1) + 1)
    BY <2>1, <2>2
  <2> QED BY <2>1, <2>3
<1>6. \E k \in 0..MaxTurn : /\ \A i \in 1..k : i \in DOMAIN m /\ m[i].f
                            /\ ~(k + 1 \in DOMAIN m /\ m[k + 1].f)
  BY <1>4, <1>5
<1> QED BY <1>6 DEF getFinishedCursor

\* Whatever is put into the store, Settled leaves a finished prefix of it.
LEMMA SettledFacts ==
    ASSUME MaxTurn \in Nat, NEW m \in TurnMap, NEW v, NEW s, s = Settled(m, v)
    PROVE  /\ s.cursor \in 0..MaxTurn /\ s.live = v
           /\ s = [finished |-> s.finished, live |-> v, cursor |-> s.cursor]
           /\ s.finished \in TurnMap /\ DOMAIN s.finished = 1..s.cursor
           /\ \A i \in DOMAIN s.finished : i \in DOMAIN m /\ s.finished[i] = m[i] /\ m[i].f
<1> DEFINE n == getFinishedCursor(m)
           D == {i \in DOMAIN m : i <= n /\ m[i].f}
           g == [i \in D |-> m[i]]
<1>1. n \in 0..MaxTurn /\ \A i \in 1..n : i \in DOMAIN m /\ m[i].f
  BY FinishedCursor
<1>2. s = [finished |-> g, live |-> v, cursor |-> n]
  BY DEF Settled, getDurableTurnPrefix, Restrict
<1>3. DOMAIN m \subseteq 1..MaxTurn /\ \A i \in DOMAIN m : m[i] \in Turn
  BY TurnMaps
<1> HIDE DEF n
<1>4. D = 1..n /\ D \in SUBSET (1..MaxTurn)
  BY <1>1, <1>3
<1>5. g \in [D -> Turn] /\ \A i \in D : g[i] = m[i] /\ m[i].f /\ i \in DOMAIN m
  BY <1>3
<1> HIDE DEF D, g
<1>6. g \in TurnMap /\ DOMAIN g = D
  BY <1>4, <1>5, MapFrom
<1> QED BY <1>1, <1>2, <1>4, <1>5, <1>6

\* A settled store is sound when no live turn is among the finished ones it was
\* given.
LEMMA SettledStore ==
    ASSUME MaxTurn \in Nat, NEW m \in TurnMap, NEW v \in TurnMap, NEW s, s = Settled(m, v),
           \A i \in DOMAIN v : ~v[i].f /\ i \notin DOMAIN m
    PROVE  StoreOK(s)
<1>1. /\ s.cursor \in 0..MaxTurn /\ s.live = v
      /\ s = [finished |-> s.finished, live |-> v, cursor |-> s.cursor]
      /\ s.finished \in TurnMap /\ DOMAIN s.finished = 1..s.cursor
      /\ \A i \in DOMAIN s.finished : i \in DOMAIN m /\ s.finished[i] = m[i] /\ m[i].f
  BY SettledFacts
<1>2. s \in [finished : TurnMap, live : TurnMap, cursor : 0..MaxTurn]
  BY <1>1
<1> QED BY <1>1, <1>2 DEF StoreOK

\* The finished turns of s were those of r or are finished turns of m.
ComesFrom(s, r, m) ==
    \A i \in DOMAIN s.finished :
        \/ i \in DOMAIN r.finished /\ s.finished[i] = r.finished[i]
        \/ i \in DOMAIN m /\ s.finished[i] = m[i] /\ m[i].f

\* One more turn in a map.
LEMMA Upserted ==
    ASSUME NEW m \in TurnMap, NEW i \in 1..MaxTurn, NEW t \in Turn
    PROVE  /\ upsertTurn(m, i, t) \in TurnMap /\ DOMAIN upsertTurn(m, i, t) = DOMAIN m \cup {i}
           /\ upsertTurn(m, i, t)[i] = t
           /\ \A j \in DOMAIN m : j # i => upsertTurn(m, i, t)[j] = m[j]
<1> DEFINE u == upsertTurn(m, i, t)
<1>1. DOMAIN m \subseteq 1..MaxTurn /\ \A j \in DOMAIN m : m[j] \in Turn
  BY TurnMaps
<1>2. u = [j \in DOMAIN m \cup {i} |-> IF j = i THEN t ELSE m[j]]
  BY DEF upsertTurn
<1>3. u \in [DOMAIN m \cup {i} -> Turn] /\ DOMAIN m \cup {i} \in SUBSET (1..MaxTurn)
  BY <1>1, <1>2
<1> QED BY <1>2, <1>3, MapFrom

\* mergeRealtimeTurn keeps the store sound, in whatever order turns arrive.
LEMMA MergeRealtime ==
    ASSUME MaxTurn \in Nat, NEW r, StoreOK(r), NEW i \in 1..MaxTurn, NEW t \in Turn,
           NEW s, s = mergeRealtimeTurn(r, i, t)
    PROVE  /\ StoreOK(s)
           /\ \A k \in DOMAIN s.finished :
                \/ k \in DOMAIN r.finished /\ s.finished[k] = r.finished[k]
                \/ k = i /\ s.finished[k] = t /\ t.f
<1>1. /\ r \in [finished : TurnMap, live : TurnMap, cursor : 0..MaxTurn]
      /\ r.finished \in TurnMap /\ r.live \in TurnMap
      /\ \A k \in DOMAIN r.finished : r.finished[k].f
      /\ \A k \in DOMAIN r.live : ~r.live[k].f /\ k \notin DOMAIN r.finished
  BY DEF StoreOK
<1> DEFINE Added(w, m) == /\ w \in TurnMap /\ DOMAIN w = DOMAIN m \cup {i} /\ w[i] = t
                          /\ \A j \in DOMAIN m : j # i => w[j] = m[j]
<1>2. Added(upsertTurn(r.finished, i, t), r.finished) /\ Added(upsertTurn(r.live, i, t), r.live)
  <2>1. ASSUME NEW m \in TurnMap PROVE Added(upsertTurn(m, i, t), m)
    BY Upserted, ZenonT(40)
  <2> HIDE DEF Added
  <2> QED BY <1>1, <2>1
<1>3. CASE t.f
  <2> DEFINE u == upsertTurn(r.finished, i, t)
             v == Restrict(r.live, DOMAIN r.live \ {i})
  <2>1. s = Settled(u, v)
    BY <1>3 DEF mergeRealtimeTurn
  <2>2. /\ u \in TurnMap /\ DOMAIN u = DOMAIN r.finished \cup {i} /\ u[i] = t
        /\ \A j \in DOMAIN r.finished : j # i => u[j] = r.finished[j]
    BY <1>2
  <2>3. v \in TurnMap /\ DOMAIN v = DOMAIN r.live \ {i} /\ \A k \in DOMAIN v : v[k] = r.live[k]
    <3>1. v = [k \in DOMAIN r.live \ {i} |-> r.live[k]]
      BY DEF Restrict
    <3>2. DOMAIN r.live \subseteq 1..MaxTurn /\ \A k \in DOMAIN r.live : r.live[k] \in Turn
      BY <1>1, TurnMaps
    <3> HIDE DEF v
    <3>3. v \in [DOMAIN r.live \ {i} -> Turn] /\ DOMAIN r.live \ {i} \in SUBSET (1..MaxTurn)
      BY <3>1, <3>2
    <3> QED BY <3>1, <3>3, MapFrom
  <2> HIDE DEF u, v
  <2>4. \A k \in DOMAIN v : ~v[k].f /\ k \notin DOMAIN u
    BY <1>1, <2>2, <2>3
  <2>5. StoreOK(s)
    BY <2>1, <2>2, <2>3, <2>4, SettledStore
  <2>6. \A k \in DOMAIN s.finished : k \in DOMAIN u /\ s.finished[k] = u[k]
    BY <2>1, <2>2, SettledFacts
  <2> QED BY <1>3, <2>2, <2>5, <2>6
<1>4. CASE ~t.f /\ i \in DOMAIN r.finished
  BY <1>4 DEF mergeRealtimeTurn
<1>5. CASE ~t.f /\ i \notin DOMAIN r.finished
  <2> DEFINE v == upsertTurn(r.live, i, t)
  <2>1. s = [r EXCEPT !.live = v]
    BY <1>5 DEF mergeRealtimeTurn
  <2>2. /\ v \in TurnMap /\ DOMAIN v = DOMAIN r.live \cup {i} /\ v[i] = t
        /\ \A j \in DOMAIN r.live : j # i => v[j] = r.live[j]
    BY <1>2
  <2> HIDE DEF v
  <2>3. s.finished = r.finished /\ s.live = v /\ s.cursor = r.cursor
    BY <1>1, <2>1
  <2>4. s \in [finished : TurnMap, live : TurnMap, cursor : 0..MaxTurn]
    BY <1>1, <2>1, <2>2
  <2>5. \A k \in DOMAIN v : ~v[k].f /\ k \notin DOMAIN r.finished
    BY <1>1, <1>5, <2>2
  <2>6. StoreOK(s)
    BY <1>1, <2>3, <2>4, <2>5 DEF StoreOK
  <2> QED BY <2>3, <2>6
<1> QED BY <1>3, <1>4, <1>5

\* The empty store is sound.
LEMMA EmptyStore ==
    ASSUME MaxTurn \in Nat
    PROVE  StoreOK(createEmptyChatTurnStore) /\ DOMAIN createEmptyChatTurnStore.finished = {}
<1>1. createEmptyChatTurnStore \in [finished : TurnMap, live : TurnMap, cursor : 0..MaxTurn]
  BY NoTurnsMap DEF createEmptyChatTurnStore
<1> QED BY <1>1, NoTurnsMap DEF createEmptyChatTurnStore, StoreOK

\* applySessionReadResult keeps the store sound when the answer holds turns
\* after the checkpoint only.
LEMMA ApplyResult ==
    ASSUME MaxTurn \in Nat, NEW r, StoreOK(r), NEW after \in 0..MaxTurn, NEW m \in TurnMap, NEW latest \in 0..MaxTurn,
           \A i \in DOMAIN m : after < i /\ i <= latest,
           NEW s, s = applySessionReadResult(r, after, m, latest)
    PROVE  StoreOK(s) /\ ComesFrom(s, r, m)
<1> DEFINE top == IF latest > after THEN latest ELSE after
           Outside(x) == {i \in DOMAIN x : i <= after \/ i > top}
           New(f) == {i \in DOMAIN m : m[i].f = f}
           Kept(x, f) == [i \in Outside(x) \cup New(f) |-> IF i \in New(f) THEN m[i] ELSE x[i]]
           u == Kept(r.finished, TRUE)
           v == Kept(r.live, FALSE)
<1>1. CASE isStaleSessionReadResult(after, latest)
  <2>1. s = createEmptyChatTurnStore
    BY <1>1 DEF applySessionReadResult
  <2> QED BY <2>1, EmptyStore DEF ComesFrom
<1>2. CASE ~isStaleSessionReadResult(after, latest)
  <2>1. s = Settled(u, v)
    BY <1>2 DEF applySessionReadResult
  <2>2. /\ r.finished \in TurnMap /\ r.live \in TurnMap
        /\ \A k \in DOMAIN r.finished : r.finished[k].f
        /\ \A k \in DOMAIN r.live : ~r.live[k].f /\ k \notin DOMAIN r.finished
    BY DEF StoreOK
  <2>3. top \in Nat /\ latest <= top /\ after \in Nat /\ after <= top
    OBVIOUS
  <2> HIDE DEF top
  <2>4. /\ DOMAIN m \subseteq 1..MaxTurn /\ \A i \in DOMAIN m : m[i] \in Turn
        /\ DOMAIN r.finished \subseteq 1..MaxTurn /\ \A i \in DOMAIN r.finished : r.finished[i] \in Turn
        /\ DOMAIN r.live \subseteq 1..MaxTurn /\ \A i \in DOMAIN r.live : r.live[i] \in Turn
    BY <2>2, TurnMaps
  <2>5. \A i \in DOMAIN m : i \notin Outside(r.finished) /\ i \notin Outside(r.live)
    BY <2>3, <2>4
  <2>6. u \in TurnMap /\ DOMAIN u = Outside(r.finished) \cup New(TRUE)
    <3>1. u \in [Outside(r.finished) \cup New(TRUE) -> Turn]
      BY <2>4
    <3>2. Outside(r.finished) \cup New(TRUE) \in SUBSET (1..MaxTurn)
      BY <2>4
    <3> HIDE DEF u, Outside, New
    <3> QED BY <3>1, <3>2, MapFrom
  <2>7. v \in TurnMap /\ DOMAIN v = Outside(r.live) \cup New(FALSE)
    <3>1. v \in [Outside(r.live) \cup New(FALSE) -> Turn]
      BY <2>4
    <3>2. Outside(r.live) \cup New(FALSE) \in SUBSET (1..MaxTurn)
      BY <2>4
    <3> HIDE DEF v, Outside, New
    <3> QED BY <3>1, <3>2, MapFrom
  <2>8. \A i \in DOMAIN u : \/ i \in DOMAIN r.finished /\ u[i] = r.finished[i]
                            \/ i \in DOMAIN m /\ u[i] = m[i] /\ m[i].f
    BY <2>6
  <2>9. \A i \in DOMAIN v : ~v[i].f /\ i \notin DOMAIN u
    <3> SUFFICES ASSUME NEW i \in DOMAIN v PROVE ~v[i].f /\ i \notin DOMAIN u
      OBVIOUS
    <3>1. CASE i \in New(FALSE)
      <4>1. v[i] = m[i] /\ i \in DOMAIN m /\ m[i].f = FALSE
        BY <2>7, <3>1
      <4>2. i \notin New(TRUE) /\ i \notin Outside(r.finished)
        BY <2>5, <4>1
      <4> QED BY <2>6, <4>1, <4>2
    <3>2. CASE i \in Outside(r.live) /\ i \notin New(FALSE)
      <4>1. v[i] = r.live[i] /\ i \in DOMAIN r.live
        BY <2>7, <3>2
      <4>2. i \notin DOMAIN m
        BY <2>5, <3>2
      <4>3. i \notin New(TRUE) /\ i \notin Outside(r.finished)
        BY <2>2, <4>1, <4>2
      <4> QED BY <2>2, <2>6, <4>1, <4>3
    <3> QED BY <2>7, <3>1, <3>2
  <2> HIDE DEF u, v
  <2>10. StoreOK(s)
    BY <2>1, <2>6, <2>7, <2>9, SettledStore
  <2>11. \A i \in DOMAIN s.finished : i \in DOMAIN u /\ s.finished[i] = u[i]
    BY <2>1, <2>6, SettledFacts
  <2> QED BY <2>8, <2>10, <2>11 DEF ComesFrom
<1> QED BY <1>1, <1>2

\* mergeCachedTurnPrefix keeps the store sound.
LEMMA MergeCached ==
    ASSUME MaxTurn \in Nat, NEW r, StoreOK(r), NEW m \in TurnMap, NEW s, s = mergeCachedTurnPrefix(r, m)
    PROVE  StoreOK(s) /\ ComesFrom(s, r, m)
<1> DEFINE c == hydrateFinishedStore(m)
<1>1. /\ c.cursor \in 0..MaxTurn /\ c.finished \in TurnMap /\ DOMAIN c.finished = 1..c.cursor
      /\ \A i \in DOMAIN c.finished : i \in DOMAIN m /\ c.finished[i] = m[i] /\ m[i].f
  BY SettledFacts DEF hydrateFinishedStore
<1>2. s = IF c.cursor = 0 THEN r ELSE applySessionReadResult(r, 0, c.finished, c.cursor)
  BY DEF mergeCachedTurnPrefix
<1> HIDE DEF c
<1>3. CASE c.cursor = 0
  BY <1>2, <1>3 DEF ComesFrom
<1>4. CASE c.cursor # 0
  <2>1. \A i \in DOMAIN c.finished : 0 < i /\ i <= c.cursor
    BY <1>1
  <2>2. StoreOK(s) /\ ComesFrom(s, r, c.finished)
    BY <1>1, <1>2, <1>4, <2>1, ApplyResult
  <2> QED BY <1>1, <2>2 DEF ComesFrom
<1> QED BY <1>3, <1>4

\* The finished turns of a sound store can be kept.
LEMMA FinishedIsDurable ==
    ASSUME NEW s, StoreOK(s)
    PROVE  DurableOK(s.finished)
BY DEF StoreOK, DurableOK

-----------------------------------------------------------------------------
(* The groups of variables that a step leaves alone *)

\* The hub's variables.
LEMMA SameHub ==
    ASSUME HubInv, log' = log, saved' = saved, stamp' = stamp
    PROVE  HubInv'
BY DEF HubInv

\* The flags and the budget.
LEMMA SameFlags ==
    ASSUME FlagsInv, link' = link, sel' = sel, dirty' = dirty, budget' = budget
    PROVE  FlagsInv'
BY DEF FlagsInv

\* The store and the caches.
LEMMA SameStore ==
    ASSUME StoreInv, st' = st, durable' = durable, fc' = fc, savedCursor' = savedCursor
    PROVE  StoreInv'
BY DEF StoreInv

\* The reads and the repair queue.
LEMMA SameReads ==
    ASSUME ReadsInv, reads' = reads, rq' = rq
    PROVE  ReadsInv'
BY DEF ReadsInv, RepairMatchesRead

\* One more message.
LEMMA MessageAdded ==
    ASSUME WireInv, NEW m \in TurnMsg \cup ReadMsg, inbox' = Append(inbox, m)
    PROVE  /\ inbox' \in Seq(TurnMsg \cup ReadMsg) /\ Len(inbox) \in Nat /\ Len(inbox') = Len(inbox) + 1
           /\ \A k \in 1..Len(inbox') : inbox'[k] = IF k = Len(inbox) + 1 THEN m ELSE inbox[k]
           /\ \A k \in 1..Len(inbox') : k = Len(inbox) + 1 \/ k \in 1..Len(inbox)
BY DEF WireInv

\* The first message is taken.
LEMMA MessageTaken ==
    ASSUME WireInv, inbox # <<>>, inbox' = Tail(inbox)
    PROVE  /\ inbox' \in Seq(TurnMsg \cup ReadMsg)
           /\ Head(inbox) = inbox[1] /\ 1 \in 1..Len(inbox) /\ inbox[1] \in TurnMsg \cup ReadMsg
           /\ \A k \in 1..Len(inbox') : inbox'[k] = inbox[k + 1] /\ k + 1 \in 1..Len(inbox) /\ k + 1 # 1
BY DEF WireInv

-----------------------------------------------------------------------------
(* Answers on their way *)

\* No answer to this read is on its way.
Unheard(j, box, srv) ==
    /\ \A k \in 1..Len(box) : box[k].kind = "read" => box[k].job # j
    /\ \A a \in srv : a.job # j

\* Only a read that the hub has answered has an answer on its way.
LEMMA OnlyAnswered ==
    ASSUME FlightInv, NEW j \in Jobs, reads[j].state # "answered"
    PROVE  Unheard(j, inbox, served)
BY DEF FlightInv, Fits, Unheard

\* Reads may change as long as no answer to them is on its way.
LEMMA FlightShrinks ==
    ASSUME WireInv, FlightInv, link' = link, served' = served,
           inbox' = inbox \/ (inbox # <<>> /\ inbox' = Tail(inbox)),
           \A j \in Jobs : reads'[j] = reads[j] \/ Unheard(j, inbox', served),
           ~ready => \A j \in Jobs : reads'[j].state = "none"
    PROVE  FlightInv'
<1> DEFINE n == IF inbox' = inbox THEN 0 ELSE 1
<1>1. /\ Len(inbox) \in Nat /\ Len(inbox') \in Nat /\ n \in {0, 1}
      /\ \A k \in 1..Len(inbox') : inbox'[k] = inbox[k + n] /\ k + n \in 1..Len(inbox)
  <2>1. inbox \in Seq(TurnMsg \cup ReadMsg)
    BY DEF WireInv
  <2>2. CASE inbox' = inbox
    BY <2>1, <2>2
  <2>3. CASE inbox' # inbox
    BY <2>1, <2>3, MessageTaken
  <2> QED BY <2>2, <2>3
<1> HIDE DEF n
<1>2. /\ \A k \in 1..Len(inbox) : inbox[k].kind = "read" => inbox[k].job \in Jobs
      /\ \A a \in served : a.job \in Jobs
  BY DEF WireInv, TurnMsg, ReadMsg
<1>3. ASSUME NEW a \in served PROVE Fits(a, reads'[a.job])
  <2>1. reads'[a.job] = reads[a.job]
    BY <1>2 DEF Unheard
  <2> QED BY <2>1 DEF FlightInv
<1>4. ASSUME NEW k \in 1..Len(inbox'), inbox'[k].kind = "read" PROVE Fits(inbox'[k], reads'[inbox'[k].job])
  <2>1. inbox'[k] = inbox[k + n] /\ inbox[k + n].kind = "read" /\ k + n \in 1..Len(inbox)
    BY <1>1, <1>4
  <2>2. reads'[inbox'[k].job] = reads[inbox'[k].job]
    BY <1>2, <1>4, <2>1 DEF Unheard
  <2> QED BY <2>1, <2>2 DEF FlightInv
<1>5. \A a, b \in served : a.job = b.job => a = b
  BY DEF FlightInv
<1>6. \A k, l \in 1..Len(inbox') :
        inbox'[k].kind = "read" /\ inbox'[l].kind = "read" /\ inbox'[k].job = inbox'[l].job => k = l
  <2> SUFFICES ASSUME NEW k \in 1..Len(inbox'), NEW l \in 1..Len(inbox'), inbox'[k].kind = "read",
                      inbox'[l].kind = "read", inbox'[k].job = inbox'[l].job
               PROVE  k = l
    OBVIOUS
  <2>1. /\ k + n \in 1..Len(inbox) /\ inbox'[k] = inbox[k + n]
        /\ l + n \in 1..Len(inbox) /\ inbox'[l] = inbox[l + n]
    BY <1>1
  <2>2. \A p, q \in 1..Len(inbox) :
          inbox[p].kind = "read" /\ inbox[q].kind = "read" /\ inbox[p].job = inbox[q].job => p = q
    BY DEF FlightInv
  <2>3. k + n = l + n
    BY <2>1, <2>2
  <2> QED BY <1>1, <2>3
<1>7. \A k \in 1..Len(inbox'), a \in served : inbox'[k].kind = "read" => inbox'[k].job # a.job
  BY <1>1 DEF FlightInv
<1>8. /\ ~online => inbox' = <<>>
      /\ ~ready => served = {} /\ \A j \in Jobs : reads'[j].state = "none"
  BY DEF FlightInv
<1>9. online' = online /\ ready' = ready
  BY DEF online, ready
<1> QED BY <1>3, <1>4, <1>5, <1>6, <1>7, <1>8, <1>9 DEF FlightInv

-----------------------------------------------------------------------------
(* The hub *)

\* A publication: a turn after a sealed log, or one more version of the open
\* turn.
LEMMA PublishStep ==
    ASSUME ConstantsAssumption, SyncInv, NEW i, NEW f \in BOOLEAN, stamp < MaxStamp,
           Publish(i, [c |-> stamp + 1, f |-> f]),
           \/ i = Len(log) + 1 /\ Len(log) < MaxTurn /\ Sealed /\ (saved' = saved \/ saved' = Len(log) + 1)
           \/ i = Len(log) /\ ~Sealed /\ saved' = saved
    PROVE  SyncInv'
<1> DEFINE t == [c |-> stamp + 1, f |-> f]
<1>1. /\ log \in Seq(Turn) /\ Len(log) \in Nat /\ Len(log) <= MaxTurn /\ MaxTurn \in Nat /\ MaxStamp \in Nat
      /\ stamp \in 0..MaxStamp /\ saved \in Nat /\ saved <= Len(log)
      /\ \A k \in 1..Len(log) : k < Len(log) => log[k].f
  BY DEF SyncInv, HubInv, ConstantsAssumption
<1>2. t \in Turn /\ stamp + 1 \in 0..MaxStamp
  BY <1>1 DEF Turn
<1>3. /\ stamp' = stamp + 1 /\ log' = (IF i > Len(log) THEN Append(log, t) ELSE [log EXCEPT ![i] = t])
      /\ inbox' = (IF online THEN Append(inbox, [kind |-> "turn", i |-> i, t |-> t]) ELSE inbox)
      /\ link' = link /\ served' = served /\ budget' = budget
      /\ st' = st /\ fc' = fc /\ sel' = sel /\ reads' = reads /\ rq' = rq /\ dirty' = dirty
      /\ durable' = durable /\ savedCursor' = savedCursor
  BY DEF Publish, client
<1> HIDE DEF t
<1>4. HubInv' /\ i \in 1..MaxTurn
  <2>1. CASE i = Len(log) + 1
    <3>1. log' = Append(log, t) /\ Len(log) < MaxTurn /\ Sealed /\ (saved' = saved \/ saved' = Len(log) + 1)
      BY <1>1, <1>3, <2>1
    <3>2. log' \in Seq(Turn) /\ Len(log') = Len(log) + 1 /\ \A k \in 1..Len(log) : log'[k] = log[k]
      BY <1>1, <1>2, <3>1
    <3>3. \A k \in 1..Len(log') : k < Len(log') => log'[k].f
      BY <1>1, <3>1, <3>2 DEF Sealed
    <3> QED BY <1>1, <1>2, <1>3, <2>1, <3>1, <3>2, <3>3 DEF HubInv
  <2>2. CASE i = Len(log) /\ ~Sealed /\ saved' = saved
    <3>1. Len(log) > 0
      BY <1>1, <2>2 DEF Sealed
    <3>2. log' = [log EXCEPT ![i] = t] /\ i \in 1..Len(log)
      BY <1>1, <1>3, <2>2, <3>1
    <3>3. log' \in Seq(Turn) /\ Len(log') = Len(log) /\ \A k \in 1..Len(log) : k # i => log'[k] = log[k]
      BY <1>1, <1>2, <3>2
    <3>4. \A k \in 1..Len(log') : k < Len(log') => log'[k].f
      BY <1>1, <2>2, <3>3
    <3> QED BY <1>1, <1>2, <1>3, <2>2, <3>2, <3>3, <3>4 DEF HubInv
  <2> QED BY <2>1, <2>2
<1>5. WireInv' /\ FlightInv'
  <2> DEFINE m == [kind |-> "turn", i |-> i, t |-> t]
  <2>1. m \in TurnMsg /\ m.kind = "turn"
    BY <1>2, <1>4 DEF TurnMsg
  <2>2. CASE online
    <3>1. inbox' = Append(inbox, m)
      BY <1>3, <2>2
    <3> HIDE DEF m
    <3>2. /\ inbox' \in Seq(TurnMsg \cup ReadMsg) /\ Len(inbox) \in Nat /\ Len(inbox') = Len(inbox) + 1
          /\ \A k \in 1..Len(inbox') : inbox'[k] = IF k = Len(inbox) + 1 THEN m ELSE inbox[k]
          /\ \A k \in 1..Len(inbox') : k = Len(inbox) + 1 \/ k \in 1..Len(inbox)
      BY <2>1, <3>1, MessageAdded DEF SyncInv
    <3>3. WireInv'
      BY <1>3, <3>2 DEF SyncInv, WireInv
    <3>4. \A k \in 1..Len(inbox') : inbox'[k].kind = "read" => k \in 1..Len(inbox) /\ inbox'[k] = inbox[k]
      <4>1. "turn" # "read"
        OBVIOUS
      <4> QED BY <2>1, <3>2, <4>1
    <3>5. FlightInv'
      <4>1. served' = served /\ reads' = reads /\ online' = online /\ ready' = ready
        BY <1>3 DEF online, ready
      <4>2. \A k, l \in 1..Len(inbox') :
              inbox'[k].kind = "read" /\ inbox'[l].kind = "read" /\ inbox'[k].job = inbox'[l].job => k = l
        BY <3>4 DEF SyncInv, FlightInv
      <4>3. \A k \in 1..Len(inbox') : inbox'[k].kind = "read" => Fits(inbox'[k], reads[inbox'[k].job])
        BY <3>4 DEF SyncInv, FlightInv
      <4>4. \A k \in 1..Len(inbox'), a \in served : inbox'[k].kind = "read" => inbox'[k].job # a.job
        BY <3>4 DEF SyncInv, FlightInv
      <4>5. /\ (\A a \in served : Fits(a, reads[a.job])) /\ \A a, b \in served : a.job = b.job => a = b
            /\ ~ready => served = {} /\ \A j \in Jobs : reads[j].state = "none"
        BY DEF SyncInv, FlightInv
      <4> QED BY <2>2, <4>1, <4>2, <4>3, <4>4, <4>5 DEF FlightInv
    <3> QED BY <3>3, <3>5
  <2>3. CASE ~online
    BY <1>3, <2>3 DEF SyncInv, WireInv, FlightInv, online, ready
  <2> QED BY <2>2, <2>3
<1> QED BY <1>3, <1>4, <1>5, SameFlags, SameStore, SameReads DEF SyncInv

\* The hub restarts with the turns that were written.
LEMMA HubRestartStep ==
    ASSUME ConstantsAssumption, SyncInv, HubRestart
    PROVE  SyncInv'
<1>1. /\ log \in Seq(Turn) /\ Len(log) \in Nat /\ saved \in Nat /\ saved <= Len(log) /\ MaxTurn \in Nat
      /\ Len(log) <= MaxTurn /\ stamp \in 0..MaxStamp /\ \A k \in 1..Len(log) : k < Len(log) => log[k].f
  BY DEF SyncInv, HubInv, ConstantsAssumption
<1>2. /\ log' = SubSeq(log, 1, saved) /\ served' = {} /\ saved' = saved /\ stamp' = stamp /\ link' = link
      /\ inbox' = inbox /\ st' = st /\ fc' = fc /\ sel' = sel /\ reads' = reads /\ rq' = rq /\ dirty' = dirty
      /\ durable' = durable /\ savedCursor' = savedCursor
      /\ budget' = [budget EXCEPT !.restarts = budget.restarts - 1] /\ budget.restarts > 0
  BY DEF HubRestart, client
<1>3. log' \in Seq(Turn) /\ Len(log') = saved /\ \A k \in 1..saved : log'[k] = log[k]
  BY <1>1, <1>2
<1>4. HubInv'
  <2>1. \A k \in 1..Len(log') : k < Len(log') => k \in 1..Len(log) /\ k < Len(log) /\ log'[k] = log[k]
    BY <1>1, <1>3
  <2>2. \A k \in 1..Len(log') : k < Len(log') => log'[k].f
    BY <1>1, <2>1
  <2> QED BY <1>1, <1>2, <1>3, <2>2 DEF HubInv
<1>5. FlagsInv'
  <2>1. /\ budget' \in Budget /\ budget'.restarts <= MaxRestarts /\ budget'.fails <= MaxFails
        /\ budget'.lates <= MaxLates
    BY <1>2 DEF SyncInv, FlagsInv, Budget, ConstantsAssumption
  <2> QED BY <1>2, <2>1 DEF SyncInv, FlagsInv
<1>6. WireInv' /\ FlightInv'
  BY <1>2 DEF SyncInv, WireInv, FlightInv, online, ready
<1> QED BY <1>2, <1>4, <1>5, <1>6, SameStore, SameReads DEF SyncInv

-----------------------------------------------------------------------------
(* session.read calls *)

\* The forms of a read.
LEMMA ReadForms ==
    ASSUME MaxTurn \in Nat, NEW c \in 0..MaxTurn, NEW b \in BOOLEAN
    PROVE  /\ NoRead \in Reads /\ NoRead.state = "none"
           /\ StartRead(c, b) \in Reads /\ StartRead(c, b).state = "asked"
BY DEF NoRead, StartRead, Reads

\* A read that is repeated from the beginning.
LEMMA RetryForm ==
    ASSUME MaxTurn \in Nat, NEW r \in Reads
    PROVE  /\ [r EXCEPT !.state = "asked", !.after = 0, !.retried = TRUE] \in Reads
           /\ [r EXCEPT !.state = "asked", !.after = 0, !.retried = TRUE].state = "asked"
<1>1. 0 \in 0..MaxTurn
  OBVIOUS
<1>2. [r EXCEPT !.state = "asked", !.after = 0, !.retried = TRUE] \in Reads
  BY <1>1 DEF Reads
<1>3. [r EXCEPT !.state = "asked", !.after = 0, !.retried = TRUE].state = "asked"
  BY DEF Reads
<1> QED BY <1>2, <1>3

\* The next run of the repair queue is a read.
LEMMA RunReadForm ==
    ASSUME MaxTurn \in Nat, NEW s, StoreOK(s), NEW run
    PROVE  RunRead(run, s) \in Reads /\ RunRead(run, s).state = "asked"
<1>1. s.cursor \in 0..MaxTurn
  BY DEF StoreOK
<1>2. (run = "sync") \in BOOLEAN
  OBVIOUS
<1> QED BY <1>1, <1>2, ReadForms DEF RunRead

\* An idle queue has no run.
LEMMA IdleQueueForm ==
    ASSUME MaxTurn \in Nat
    PROVE  IdleQueue \in Queue /\ ~IdleQueue.inFlight /\ ~IdleQueue.pending
<1>1. IdleQueue.inFlight = FALSE /\ IdleQueue.pending = FALSE
  BY DEF IdleQueue
<1> QED BY <1>1 DEF IdleQueue, Queue, Runs

\* request(): the read of the queue is started only when there is none and the
\* connection is ready.
LEMMA RequestStep ==
    ASSUME ConstantsAssumption, ReadsInv, NEW s, StoreOK(s), NEW cursor \in 0..MaxTurn,
           NEW run \in Runs \ {"none"}, Request(cursor, run, s)
    PROVE  /\ ReadsInv' /\ fc' \in 0..MaxTurn
           /\ \A k \in Jobs : reads'[k] = reads[k] \/ (ready /\ k = "repair" /\ reads[k].state = "none")
<1>1. /\ MaxTurn \in Nat /\ "repair" \in Jobs /\ s.cursor \in 0..MaxTurn /\ reads \in [Jobs -> Reads] /\ rq \in Queue
      /\ rq.inFlight <=> reads["repair"].state # "none"
      /\ rq.pending => rq.inFlight /\ rq.nextRun # "none"
  BY DEF ConstantsAssumption, Jobs, StoreOK, ReadsInv, RepairMatchesRead
<1>2. CASE ~ready
  <2>1. reads' = reads /\ rq' = rq /\ fc' = (IF run = "gap" THEN cursor ELSE s.cursor)
    BY <1>2 DEF Request
  <2> QED BY <1>1, <2>1, SameReads
<1>3. CASE ready /\ rq.inFlight
  <2> DEFINE top == IF cursor > rq.nextCursor THEN cursor ELSE rq.nextCursor
  <2>1. /\ rq' = [rq EXCEPT !.nextCursor = top, !.nextRun = run, !.pending = TRUE]
        /\ fc' = s.cursor /\ reads' = reads
    BY <1>3 DEF Request
  <2>2. top \in 0..MaxTurn
    BY <1>1 DEF Queue
  <2> HIDE DEF top
  <2>3. rq' \in Queue
    BY <1>1, <2>1, <2>2 DEF Queue, Runs
  <2>4. rq'.inFlight = rq.inFlight /\ rq'.nextRun = run
    BY <1>1, <2>1 DEF Queue
  <2>5. RepairMatchesRead'
    BY <1>1, <1>3, <2>1, <2>4 DEF RepairMatchesRead
  <2> QED BY <1>1, <2>1, <2>3, <2>5 DEF ReadsInv
<1>4. CASE ready /\ ~rq.inFlight
  <2>1. /\ rq' = [IdleQueue EXCEPT !.inFlight = TRUE, !.cursor = cursor, !.nextCursor = cursor, !.run = run]
        /\ fc' = (IF run = "gap" THEN cursor ELSE s.cursor)
        /\ reads' = [reads EXCEPT !["repair"] = RunRead(run, s)]
    BY <1>4 DEF Request
  <2>2. RunRead(run, s) \in Reads /\ RunRead(run, s).state = "asked"
    BY <1>1, RunReadForm
  <2>3. reads' \in [Jobs -> Reads] /\ reads'["repair"].state = "asked"
    BY <1>1, <2>1, <2>2
  <2>4. rq' \in Queue /\ rq'.inFlight = TRUE /\ rq'.pending = FALSE
    BY <1>1, <2>1 DEF Queue, IdleQueue, Runs
  <2>5. RepairMatchesRead'
    BY <2>3, <2>4 DEF RepairMatchesRead
  <2> QED BY <1>1, <1>4, <2>1, <2>3, <2>4, <2>5 DEF ReadsInv
<1> QED BY <1>2, <1>3, <1>4

\* The end of a read, and of a run of the queue.
LEMMA EndReadStep ==
    ASSUME ConstantsAssumption, ReadsInv, NEW s, StoreOK(s), NEW c \in 0..MaxTurn, NEW j \in Jobs,
           reads[j].state # "none", EndRead(j, s, c)
    PROVE  /\ ReadsInv' /\ fc' \in 0..MaxTurn
           /\ \A k \in Jobs : k # j => reads'[k] = reads[k]
<1>1. /\ MaxTurn \in Nat /\ "repair" \in Jobs /\ reads \in [Jobs -> Reads] /\ rq \in Queue
      /\ rq.inFlight <=> reads["repair"].state # "none"
      /\ rq.pending => rq.inFlight /\ rq.nextRun # "none"
  BY DEF ConstantsAssumption, Jobs, ReadsInv, RepairMatchesRead
<1>2. NoRead \in Reads /\ NoRead.state = "none"
  BY <1>1, ReadForms
<1>3. CASE j # "repair"
  <2>1. reads' = [reads EXCEPT ![j] = NoRead] /\ fc' = c /\ rq' = rq
    BY <1>3 DEF EndRead
  <2>2. reads' \in [Jobs -> Reads] /\ \A k \in Jobs : k # j => reads'[k] = reads[k]
    BY <1>1, <1>2, <2>1
  <2>3. RepairMatchesRead'
    BY <1>1, <1>3, <2>1, <2>2 DEF RepairMatchesRead
  <2> QED BY <1>1, <2>1, <2>2, <2>3 DEF ReadsInv
<1>4. CASE j = "repair" /\ rq.pending
  <2>1. /\ rq' = [rq EXCEPT !.pending = FALSE, !.cursor = rq.nextCursor, !.run = rq.nextRun, !.nextRun = "none"]
        /\ fc' = (IF rq.nextRun = "gap" THEN rq.nextCursor ELSE c)
        /\ reads' = [reads EXCEPT !["repair"] = RunRead(rq.nextRun, s)]
    BY <1>4 DEF EndRead, Drain
  <2>2. RunRead(rq.nextRun, s) \in Reads /\ RunRead(rq.nextRun, s).state = "asked"
    BY <1>1, RunReadForm
  <2>3. /\ reads' \in [Jobs -> Reads] /\ reads'["repair"].state = "asked"
        /\ \A k \in Jobs : k # j => reads'[k] = reads[k]
    BY <1>1, <1>4, <2>1, <2>2
  <2>4. rq' \in Queue /\ rq'.pending = FALSE /\ rq'.inFlight = rq.inFlight
    BY <1>1, <2>1 DEF Queue, Runs
  <2>5. RepairMatchesRead'
    BY <1>1, <1>4, <2>3, <2>4 DEF RepairMatchesRead
  <2>6. fc' \in 0..MaxTurn
    BY <1>1, <2>1 DEF Queue
  <2> QED BY <2>3, <2>4, <2>5, <2>6 DEF ReadsInv
<1>5. CASE j = "repair" /\ ~rq.pending
  <2>1. rq' = IdleQueue /\ fc' = c /\ reads' = [reads EXCEPT !["repair"] = NoRead]
    BY <1>5 DEF EndRead, Drain
  <2>2. /\ reads' \in [Jobs -> Reads] /\ reads'["repair"].state = "none"
        /\ \A k \in Jobs : k # j => reads'[k] = reads[k]
    BY <1>1, <1>2, <1>5, <2>1
  <2>3. RepairMatchesRead' /\ rq' \in Queue
    BY <1>1, <2>1, <2>2, IdleQueueForm DEF RepairMatchesRead
  <2> QED BY <2>1, <2>2, <2>3 DEF ReadsInv
<1> QED BY <1>3, <1>4, <1>5

\* A read is under way on a connection that is ready only.
LEMMA ReadIsOnline ==
    ASSUME FlightInv, NEW j \in Jobs, reads[j].state # "none"
    PROVE  ready /\ online
BY DEF FlightInv, ready, online

\* What session.read returns is the log after the checkpoint.
LEMMA AnswerForm ==
    ASSUME ConstantsAssumption, HubInv, ReadsInv, NEW j \in Jobs
    PROVE  /\ Answer(j) \in ReadMsg /\ Answer(j).job = j /\ Answer(j).kind = "read" /\ Answer(j).latest = Len(log)
           /\ \A i \in DOMAIN Answer(j).turns : /\ reads[j].after < i /\ i \in 1..Len(log)
                                                /\ Answer(j).turns[i] = log[i]
<1> DEFINE D == {k \in 1..Len(log) : k > reads[j].after}
           m == [i \in D |-> log[i]]
<1>1. /\ log \in Seq(Turn) /\ Len(log) \in Nat /\ Len(log) <= MaxTurn /\ MaxTurn \in Nat /\ reads[j].after \in Nat
  BY DEF HubInv, ConstantsAssumption, ReadsInv, Reads
<1>2. Answer(j) = [kind |-> "read", job |-> j, latest |-> Len(log), turns |-> m]
  BY DEF Answer
<1>3. D \in SUBSET (1..MaxTurn) /\ m \in [D -> Turn]
  BY <1>1
<1>4. \A i \in D : reads[j].after < i /\ i \in 1..Len(log) /\ m[i] = log[i]
  BY <1>1
<1> HIDE DEF D, m
<1>5. m \in TurnMap /\ DOMAIN m = D
  BY <1>3, MapFrom
<1>6. Answer(j) \in ReadMsg
  BY <1>1, <1>2, <1>5 DEF ReadMsg
<1> QED BY <1>2, <1>4, <1>5, <1>6

\* The hub computes an answer, and sends it now or later.
LEMMA AnswerReadStep ==
    ASSUME ConstantsAssumption, SyncInv, NEW j \in Jobs, AnswerRead(j)
    PROVE  SyncInv'
<1> DEFINE a == Answer(j)
<1>1. /\ reads[j].state = "asked" /\ reads' = [reads EXCEPT ![j] = [reads[j] EXCEPT !.state = "answered"]]
      /\ log' = log /\ saved' = saved /\ stamp' = stamp /\ link' = link /\ st' = st /\ fc' = fc /\ sel' = sel
      /\ rq' = rq /\ dirty' = dirty /\ durable' = durable /\ savedCursor' = savedCursor
  BY DEF AnswerRead, Asked, hub
<1>2. \/ inbox' = Append(inbox, a) /\ served' = served /\ budget' = budget
      \/ /\ inbox' = inbox /\ served' = served \cup {a} /\ budget.lates > 0
         /\ budget' = [budget EXCEPT !.lates = budget.lates - 1]
  BY DEF AnswerRead
<1>3. /\ a \in ReadMsg /\ a.job = j /\ a.kind = "read" /\ a.latest = Len(log)
      /\ \A i \in DOMAIN a.turns : reads[j].after < i /\ i <= a.latest
  <2>1. Len(log) \in Nat
    BY DEF SyncInv, HubInv
  <2> QED BY <2>1, AnswerForm DEF SyncInv
<1> HIDE DEF a
<1>4. /\ reads \in [Jobs -> Reads] /\ reads[j] \in Reads
  BY DEF SyncInv, ReadsInv
<1>5. /\ reads'[j] \in Reads /\ reads'[j].state = "answered" /\ reads'[j].after = reads[j].after
      /\ \A k \in Jobs : k # j => reads'[k] = reads[k]
      /\ reads' \in [Jobs -> Reads]
  BY <1>1, <1>4 DEF Reads
<1>6. ReadsInv'
  <2>1. rq.inFlight <=> reads'["repair"].state # "none"
    BY <1>1, <1>5 DEF SyncInv, ReadsInv, RepairMatchesRead, Jobs
  <2> QED BY <1>1, <1>5, <2>1 DEF SyncInv, ReadsInv, RepairMatchesRead
<1>7. Fits(a, reads'[a.job])
  BY <1>3, <1>5 DEF Fits
<1>8. Unheard(j, inbox, served) /\ ready' /\ online'
  <2>1. Unheard(j, inbox, served) /\ ready /\ online
    BY <1>1, OnlyAnswered, ReadIsOnline DEF SyncInv
  <2> QED BY <1>1, <2>1 DEF ready, online
<1>9. \A b \in served : b.job \in Jobs /\ b.job # j /\ reads'[b.job] = reads[b.job] /\ Fits(b, reads'[b.job])
  BY <1>5, <1>8 DEF SyncInv, FlightInv, WireInv, ReadMsg, Unheard
<1>10. \A k \in 1..Len(inbox) : inbox[k].kind = "read" =>
          /\ inbox[k].job \in Jobs /\ inbox[k].job # j /\ reads'[inbox[k].job] = reads[inbox[k].job]
          /\ Fits(inbox[k], reads'[inbox[k].job])
  <2>1. \A k \in 1..Len(inbox) : inbox[k].kind = "read" => inbox[k].job \in Jobs /\ inbox[k].job # j
    BY <1>8 DEF SyncInv, WireInv, TurnMsg, ReadMsg, Unheard
  <2> QED BY <1>5, <2>1 DEF SyncInv, FlightInv
<1>11. WireInv' /\ FlightInv'
  <2>1. CASE inbox' = Append(inbox, a) /\ served' = served
    <3>1. /\ inbox' \in Seq(TurnMsg \cup ReadMsg) /\ Len(inbox) \in Nat /\ Len(inbox') = Len(inbox) + 1
          /\ \A k \in 1..Len(inbox') : inbox'[k] = IF k = Len(inbox) + 1 THEN a ELSE inbox[k]
          /\ \A k \in 1..Len(inbox') : k = Len(inbox) + 1 \/ k \in 1..Len(inbox)
      BY <1>3, <2>1, MessageAdded DEF SyncInv
    <3>2. WireInv'
      BY <2>1, <3>1 DEF SyncInv, WireInv
    <3>3. \A k \in 1..Len(inbox') : (k = Len(inbox) + 1 /\ inbox'[k] = a) \/ (k \in 1..Len(inbox) /\ inbox'[k] = inbox[k])
      BY <3>1
    <3>4. \A k \in 1..Len(inbox') : inbox'[k].kind = "read" => Fits(inbox'[k], reads'[inbox'[k].job])
      BY <1>7, <1>10, <3>3
    <3>5. \A k, l \in 1..Len(inbox') :
            inbox'[k].kind = "read" /\ inbox'[l].kind = "read" /\ inbox'[k].job = inbox'[l].job => k = l
      BY <1>3, <1>10, <3>3 DEF SyncInv, FlightInv
    <3>6. \A k \in 1..Len(inbox'), b \in served : inbox'[k].kind = "read" => inbox'[k].job # b.job
      BY <1>3, <1>9, <3>3 DEF SyncInv, FlightInv
    <3>7. \A b, c \in served : b.job = c.job => b = c
      BY DEF SyncInv, FlightInv
    <3> QED BY <1>1, <1>8, <1>9, <2>1, <3>2, <3>4, <3>5, <3>6, <3>7 DEF FlightInv
  <2>2. CASE inbox' = inbox /\ served' = served \cup {a}
    <3>1. WireInv'
      BY <1>3, <2>2 DEF SyncInv, WireInv
    <3>2. \A b \in served' : Fits(b, reads'[b.job])
      BY <1>7, <1>9, <2>2
    <3>3. \A b, c \in served' : b.job = c.job => b = c
      BY <1>3, <1>9, <2>2 DEF SyncInv, FlightInv
    <3>4. \A k \in 1..Len(inbox), b \in served' : inbox[k].kind = "read" => inbox[k].job # b.job
      BY <1>3, <1>10, <2>2 DEF SyncInv, FlightInv
    <3>5. \A k, l \in 1..Len(inbox) :
            inbox[k].kind = "read" /\ inbox[l].kind = "read" /\ inbox[k].job = inbox[l].job => k = l
      BY DEF SyncInv, FlightInv
    <3> QED BY <1>1, <1>8, <1>10, <2>2, <3>1, <3>2, <3>3, <3>4, <3>5 DEF FlightInv
  <2> QED BY <1>2, <2>1, <2>2
<1>12. FlagsInv'
  <2>1. CASE budget' = budget
    BY <1>1, <2>1, SameFlags DEF SyncInv
  <2>2. CASE budget.lates > 0 /\ budget' = [budget EXCEPT !.lates = budget.lates - 1]
    <3>1. /\ budget' \in Budget /\ budget'.restarts <= MaxRestarts /\ budget'.fails <= MaxFails
          /\ budget'.lates <= MaxLates
      BY <2>2 DEF SyncInv, FlagsInv, Budget, ConstantsAssumption
    <3> QED BY <1>1, <3>1 DEF SyncInv, FlagsInv
  <2> QED BY <1>2, <2>1, <2>2
<1> QED BY <1>1, <1>6, <1>11, <1>12, SameHub, SameStore DEF SyncInv

\* An answer that was computed before is sent.
LEMMA SendAnswerStep ==
    ASSUME ConstantsAssumption, SyncInv, SendAnswer
    PROVE  SyncInv'
<1>1. PICK a \in served : inbox' = Append(inbox, a) /\ served' = served \ {a}
  BY DEF SendAnswer
<1>2. /\ log' = log /\ saved' = saved /\ stamp' = stamp /\ link' = link /\ st' = st /\ fc' = fc /\ sel' = sel
      /\ rq' = rq /\ dirty' = dirty /\ durable' = durable /\ savedCursor' = savedCursor /\ budget' = budget
      /\ reads' = reads
  BY DEF SendAnswer, hub, client
<1>3. a \in ReadMsg /\ a.kind = "read" /\ ready' /\ online' /\ Fits(a, reads[a.job])
  <2>1. a \in ReadMsg
    BY DEF SyncInv, WireInv
  <2>2. ready' /\ online'
    BY <1>2 DEF SyncInv, FlightInv, ready, online
  <2> QED BY <2>1, <2>2 DEF ReadMsg, SyncInv, FlightInv
<1>4. /\ inbox' \in Seq(TurnMsg \cup ReadMsg) /\ Len(inbox) \in Nat /\ Len(inbox') = Len(inbox) + 1
      /\ \A k \in 1..Len(inbox') : inbox'[k] = IF k = Len(inbox) + 1 THEN a ELSE inbox[k]
      /\ \A k \in 1..Len(inbox') : k = Len(inbox) + 1 \/ k \in 1..Len(inbox)
  BY <1>1, <1>3, MessageAdded DEF SyncInv
<1>5. WireInv'
  BY <1>1, <1>4 DEF SyncInv, WireInv
<1>6. \A k \in 1..Len(inbox') : (k = Len(inbox) + 1 /\ inbox'[k] = a) \/ (k \in 1..Len(inbox) /\ inbox'[k] = inbox[k])
  BY <1>4
<1>7. \A k \in 1..Len(inbox') : inbox'[k].kind = "read" => Fits(inbox'[k], reads[inbox'[k].job])
  BY <1>3, <1>6 DEF SyncInv, FlightInv
<1>8. \A k, l \in 1..Len(inbox') :
        inbox'[k].kind = "read" /\ inbox'[l].kind = "read" /\ inbox'[k].job = inbox'[l].job => k = l
  BY <1>6 DEF SyncInv, FlightInv
<1>9. \A k \in 1..Len(inbox'), b \in served' : inbox'[k].kind = "read" => inbox'[k].job # b.job
  BY <1>1, <1>6 DEF SyncInv, FlightInv
<1>10. FlightInv'
  BY <1>1, <1>2, <1>3, <1>7, <1>8, <1>9 DEF SyncInv, FlightInv
<1> QED BY <1>2, <1>5, <1>10, SameHub, SameFlags, SameStore, SameReads DEF SyncInv

\* session.read is answered with an error.
LEMMA FailReadStep ==
    ASSUME ConstantsAssumption, SyncInv, NEW j \in Jobs, FailRead(j)
    PROVE  SyncInv'
<1>1. /\ reads[j].state = "asked" /\ budget.fails > 0 /\ budget' = [budget EXCEPT !.fails = budget.fails - 1]
      /\ EndRead(j, st, fc) /\ log' = log /\ saved' = saved /\ stamp' = stamp /\ link' = link /\ inbox' = inbox
      /\ served' = served /\ st' = st /\ sel' = sel /\ dirty' = dirty /\ durable' = durable /\ savedCursor' = savedCursor
  BY DEF FailRead, Asked, hub
<1>2. ReadsInv' /\ fc' \in 0..MaxTurn /\ \A k \in Jobs : k # j => reads'[k] = reads[k]
  BY <1>1, EndReadStep DEF SyncInv, StoreInv
<1>3. StoreInv'
  BY <1>1, <1>2 DEF SyncInv, StoreInv
<1>4. FlagsInv'
  <2>1. /\ budget' \in Budget /\ budget'.restarts <= MaxRestarts /\ budget'.fails <= MaxFails
        /\ budget'.lates <= MaxLates
    BY <1>1 DEF SyncInv, FlagsInv, Budget, ConstantsAssumption
  <2> QED BY <1>1, <2>1 DEF SyncInv, FlagsInv
<1>5. FlightInv'
  <2>1. Unheard(j, inbox', served) /\ ready
    BY <1>1, OnlyAnswered, ReadIsOnline DEF SyncInv
  <2> QED BY <1>1, <1>2, <2>1, FlightShrinks DEF SyncInv
<1> QED BY <1>1, <1>2, <1>3, <1>4, <1>5, SameHub DEF SyncInv, WireInv

-----------------------------------------------------------------------------
(* The handlers of the client *)

\* A published turn arrives.
LEMMA ReceiveTurnStep ==
    ASSUME ConstantsAssumption, SyncInv, Receive, Head(inbox).kind = "turn"
    PROVE  /\ SyncInv'
           /\ \A k \in DOMAIN st'.finished :
                \/ k \in DOMAIN st.finished /\ st'.finished[k] = st.finished[k]
                \/ k = Head(inbox).i /\ st'.finished[k] = Head(inbox).t /\ Head(inbox).t.f
<1> DEFINE m == Head(inbox)
           next == mergeRealtimeTurn(st, m.i, m.t)
<1>1. /\ inbox # <<>> /\ inbox' = Tail(inbox) /\ ReceiveTurn(m.i, m.t)
      /\ log' = log /\ saved' = saved /\ stamp' = stamp /\ link' = link /\ served' = served /\ sel' = sel
      /\ budget' = budget
  BY DEF Receive, hub
<1>2. /\ inbox' \in Seq(TurnMsg \cup ReadMsg) /\ m = inbox[1] /\ m \in TurnMsg \cup ReadMsg
  BY <1>1, MessageTaken DEF SyncInv
<1>3. m.i \in 1..MaxTurn /\ m.t \in Turn
  <2>1. m \notin ReadMsg
    BY DEF ReadMsg
  <2> QED BY <1>2, <2>1 DEF TurnMsg
<1>4. /\ st' = next /\ dirty' = (dirty \/ m.t.f) /\ durable' = durable /\ savedCursor' = savedCursor
      /\ \/ Request(st.cursor, "gap", next)
         \/ fc' = next.cursor /\ reads' = reads /\ rq' = rq
  BY <1>1 DEF ReceiveTurn
<1> HIDE DEF m
<1>5. /\ StoreOK(next) /\ MaxTurn \in Nat
      /\ \A k \in DOMAIN next.finished :
           \/ k \in DOMAIN st.finished /\ next.finished[k] = st.finished[k]
           \/ k = m.i /\ next.finished[k] = m.t /\ m.t.f
  BY <1>3, MergeRealtime DEF SyncInv, StoreInv, ConstantsAssumption
<1> HIDE DEF next
<1>6. st.cursor \in 0..MaxTurn /\ next.cursor \in 0..MaxTurn
  BY <1>5 DEF SyncInv, StoreInv, StoreOK
<1>7. /\ ReadsInv' /\ fc' \in 0..MaxTurn
      /\ \A k \in Jobs : reads'[k] = reads[k] \/ (ready /\ k = "repair" /\ reads[k].state = "none")
  <2>1. CASE Request(st.cursor, "gap", next)
    BY <1>5, <1>6, <2>1, RequestStep DEF SyncInv, Runs
  <2>2. CASE fc' = next.cursor /\ reads' = reads /\ rq' = rq
    BY <1>6, <2>2, SameReads DEF SyncInv
  <2> QED BY <1>4, <2>1, <2>2
<1>8. StoreInv'
  BY <1>4, <1>5, <1>7 DEF SyncInv, StoreInv
<1>9. FlagsInv'
  <2>1. dirty' \in BOOLEAN
    BY <1>4
  <2> QED BY <1>1, <2>1 DEF SyncInv, FlagsInv
<1>10. FlightInv'
  <2>1. \A k \in Jobs : reads'[k] = reads[k] \/ Unheard(k, inbox', served)
    <3> SUFFICES ASSUME NEW k \in Jobs, reads[k].state = "none" PROVE Unheard(k, inbox', served)
      BY <1>7
    <3>1. Unheard(k, inbox, served)
      BY OnlyAnswered DEF SyncInv
    <3>2. \A l \in 1..Len(inbox') : inbox'[l] = inbox[l + 1] /\ l + 1 \in 1..Len(inbox)
      BY <1>1, MessageTaken DEF SyncInv
    <3> QED BY <3>1, <3>2 DEF Unheard
  <2>2. ~ready => \A k \in Jobs : reads'[k].state = "none"
    BY <1>7 DEF SyncInv, FlightInv
  <2> QED BY <1>1, <2>1, <2>2, FlightShrinks DEF SyncInv
<1> QED BY <1>1, <1>2, <1>4, <1>5, <1>7, <1>8, <1>9, <1>10, SameHub DEF SyncInv, WireInv, m

\* An answer arrives: it is applied, or dropped, or the cache is reset.
LEMMA ReceiveAnswerStep ==
    ASSUME ConstantsAssumption, SyncInv, Receive, Head(inbox).kind # "turn"
    PROVE  /\ SyncInv'
           /\ ComesFrom(st', st, Head(inbox).turns)
           /\ durable' = durable \/ durable' = NoTurns \/ durable' = st'.finished
<1> DEFINE a == Head(inbox)
           j == a.job
           next == applySessionReadResult(st, reads[j].after, a.turns, a.latest)
<1>1. /\ inbox # <<>> /\ inbox' = Tail(inbox) /\ ReceiveAnswer(a)
      /\ log' = log /\ saved' = saved /\ stamp' = stamp /\ link' = link /\ served' = served /\ sel' = sel
      /\ budget' = budget
  BY DEF Receive, hub
<1>2. /\ inbox' \in Seq(TurnMsg \cup ReadMsg) /\ a = inbox[1] /\ 1 \in 1..Len(inbox) /\ a \in TurnMsg \cup ReadMsg
      /\ \A k \in 1..Len(inbox') : inbox'[k] = inbox[k + 1] /\ k + 1 \in 1..Len(inbox) /\ k + 1 # 1
  BY <1>1, MessageTaken DEF SyncInv
<1>3. a.kind = "read" /\ j \in Jobs /\ a.latest \in 0..MaxTurn /\ a.turns \in TurnMap
  <2>1. a \notin TurnMsg
    BY DEF TurnMsg
  <2> QED BY <1>2, <2>1 DEF ReadMsg
<1>4. /\ reads[j].state = "answered" /\ \A i \in DOMAIN a.turns : reads[j].after < i /\ i <= a.latest
  BY <1>2, <1>3 DEF SyncInv, FlightInv, Fits
<1>5. /\ MaxTurn \in Nat /\ StoreOK(st) /\ DurableOK(durable) /\ fc \in 0..MaxTurn /\ savedCursor \in 0..MaxTurn
      /\ reads \in [Jobs -> Reads] /\ reads[j] \in Reads /\ reads[j].after \in 0..MaxTurn /\ rq \in Queue
  BY <1>3 DEF SyncInv, StoreInv, ReadsInv, Reads, ConstantsAssumption
<1>6. Unheard(j, inbox', served) /\ ready
  <2>1. \A k \in 1..Len(inbox') : inbox'[k].kind = "read" => inbox'[k].job # j
    BY <1>2, <1>3 DEF SyncInv, FlightInv
  <2>2. \A b \in served : b.job # j
    BY <1>2, <1>3 DEF SyncInv, FlightInv
  <2>3. ready
    BY <1>3, <1>4, ReadIsOnline DEF SyncInv
  <2> QED BY <2>1, <2>2, <2>3 DEF Unheard
<1>7. \/ RetryStale(j)
      \/ EndRead(j, st, fc) /\ st' = st /\ dirty' = dirty /\ durable' = durable /\ savedCursor' = savedCursor
      \/ st' = next /\ EndRead(j, next, next.cursor) /\ persistChatSessionContent(next) /\ dirty' = dirty
  BY <1>1 DEF ReceiveAnswer, ApplyRead
<1> HIDE DEF a, j
<1>8. /\ ReadsInv' /\ StoreInv' /\ dirty' = dirty
      /\ \A k \in Jobs : k # j => reads'[k] = reads[k]
      /\ ComesFrom(st', st, a.turns)
      /\ durable' = durable \/ durable' = NoTurns \/ durable' = st'.finished
  <2>1. CASE RetryStale(j)
    <3>1. /\ st' = createEmptyChatTurnStore /\ fc' = 0 /\ durable' = NoTurns /\ savedCursor' = 0 /\ rq' = rq /\ dirty' = dirty
          /\ reads' = [reads EXCEPT ![j] = [reads[j] EXCEPT !.state = "asked", !.after = 0, !.retried = TRUE]]
      BY <2>1 DEF RetryStale, ClearCache
    <3>2. StoreOK(st') /\ DOMAIN st'.finished = {}
      BY <1>5, <3>1, EmptyStore
    <3>3. DurableOK(NoTurns)
      <4>1. DOMAIN NoTurns = 1..0 /\ \A i \in 1..0 : NoTurns[i].f
        BY NoTurnsMap
      <4> QED BY <1>5, <4>1, NoTurnsMap DEF DurableOK
    <3>4. StoreInv'
      BY <1>5, <3>1, <3>2, <3>3 DEF StoreInv
    <3>5. /\ reads' \in [Jobs -> Reads] /\ reads'[j].state = "asked"
          /\ \A k \in Jobs : k # j => reads'[k] = reads[k]
      <4> DEFINE again == [reads[j] EXCEPT !.state = "asked", !.after = 0, !.retried = TRUE]
      <4>1. again \in Reads /\ again.state = "asked"
        BY <1>5, RetryForm
      <4>2. reads' = [reads EXCEPT ![j] = again]
        BY <3>1
      <4> HIDE DEF again
      <4> QED BY <1>3, <1>5, <4>1, <4>2
    <3>6. rq.inFlight <=> reads'["repair"].state # "none"
      BY <1>4, <3>5 DEF SyncInv, ReadsInv, RepairMatchesRead, Jobs
    <3>7. ReadsInv'
      BY <3>1, <3>5, <3>6 DEF SyncInv, ReadsInv, RepairMatchesRead
    <3> QED BY <3>1, <3>2, <3>4, <3>5, <3>7 DEF ComesFrom
  <2>2. CASE EndRead(j, st, fc) /\ st' = st /\ dirty' = dirty /\ durable' = durable /\ savedCursor' = savedCursor
    <3>1. ReadsInv' /\ fc' \in 0..MaxTurn /\ \A k \in Jobs : k # j => reads'[k] = reads[k]
      BY <1>3, <1>4, <1>5, <2>2, EndReadStep DEF SyncInv
    <3> QED BY <2>2, <3>1 DEF SyncInv, StoreInv, ComesFrom
  <2>3. CASE st' = next /\ EndRead(j, next, next.cursor) /\ persistChatSessionContent(next) /\ dirty' = dirty
    <3>1. StoreOK(next) /\ ComesFrom(next, st, a.turns)
      BY <1>3, <1>4, <1>5, ApplyResult
    <3> HIDE DEF next
    <3>2. next.cursor \in 0..MaxTurn
      BY <3>1 DEF StoreOK
    <3>3. ReadsInv' /\ fc' \in 0..MaxTurn /\ \A k \in Jobs : k # j => reads'[k] = reads[k]
      BY <1>3, <1>4, <2>3, <3>1, <3>2, EndReadStep DEF SyncInv
    <3>4. durable' = st'.finished /\ savedCursor' = next.cursor
      BY <2>3 DEF persistChatSessionContent
    <3>5. DurableOK(durable')
      BY <2>3, <3>1, <3>4, FinishedIsDurable
    <3> QED BY <2>3, <3>1, <3>2, <3>3, <3>4, <3>5 DEF StoreInv
  <2> QED BY <1>7, <2>1, <2>2, <2>3
<1>9. FlightInv'
  BY <1>1, <1>6, <1>8, FlightShrinks DEF SyncInv
<1>10. FlagsInv'
  BY <1>1, <1>8, SameFlags DEF SyncInv
<1> QED BY <1>1, <1>2, <1>8, <1>9, <1>10, SameHub DEF SyncInv, WireInv, a

\* The session is selected: the cache is merged and a read started.
LEMMA SelectStep ==
    ASSUME ConstantsAssumption, SyncInv, NEW j \in Loads, NEW full \in BOOLEAN, SelectSession(j, full)
    PROVE  SyncInv' /\ ComesFrom(st', st, durable)
<1>1. /\ reads[j].state = "none" /\ sel' = TRUE /\ st' = Hydrated /\ fc' = Hydrated.cursor
      /\ reads' = (IF ready THEN [reads EXCEPT ![j] = loadChatSession(Hydrated, full)] ELSE reads)
      /\ log' = log /\ saved' = saved /\ stamp' = stamp /\ link' = link /\ inbox' = inbox /\ served' = served
      /\ rq' = rq /\ dirty' = dirty /\ durable' = durable /\ savedCursor' = savedCursor /\ budget' = budget
  BY DEF SelectSession, hub
<1>2. /\ MaxTurn \in Nat /\ j \in Jobs /\ "repair" \in Jobs /\ j # "repair" /\ durable \in TurnMap
      /\ reads \in [Jobs -> Reads]
  BY DEF ConstantsAssumption, Jobs, SyncInv, StoreInv, DurableOK, ReadsInv
<1>3. StoreOK(Hydrated) /\ ComesFrom(Hydrated, st, durable)
  BY <1>2, MergeCached DEF Hydrated, SyncInv, StoreInv
<1>4. Hydrated.cursor \in 0..MaxTurn
  BY <1>3 DEF StoreOK
<1>5. StoreInv'
  BY <1>1, <1>3, <1>4 DEF SyncInv, StoreInv
<1>6. loadChatSession(Hydrated, full) \in Reads
  <2>1. (IF full THEN 0 ELSE Hydrated.cursor) \in 0..MaxTurn /\ TRUE \in BOOLEAN
    BY <1>2, <1>4
  <2> QED BY <1>2, <2>1, ReadForms DEF loadChatSession
<1>7. reads' \in [Jobs -> Reads] /\ \A k \in Jobs : k # j => reads'[k] = reads[k]
  BY <1>1, <1>2, <1>6
<1>8. ReadsInv'
  BY <1>1, <1>2, <1>7 DEF SyncInv, ReadsInv, RepairMatchesRead
<1>9. FlagsInv'
  BY <1>1 DEF SyncInv, FlagsInv
<1>10. FlightInv'
  <2>1. Unheard(j, inbox', served)
    BY <1>1, <1>2, OnlyAnswered DEF SyncInv
  <2>2. ~ready => \A k \in Jobs : reads'[k].state = "none"
    BY <1>1 DEF SyncInv, FlightInv
  <2> QED BY <1>1, <1>7, <2>1, <2>2, FlightShrinks DEF SyncInv
<1> QED BY <1>1, <1>3, <1>5, <1>8, <1>9, <1>10, SameHub DEF SyncInv, WireInv

\* The steps that keep a copy of something or forget the selection.
LEMMA SmallStep ==
    ASSUME ConstantsAssumption, SyncInv, Deselect \/ Flush \/ SummaryUpdated
    PROVE  SyncInv'
<1>1. /\ log' = log /\ saved' = saved /\ stamp' = stamp /\ link' = link /\ inbox' = inbox /\ served' = served
      /\ st' = st /\ fc' = fc /\ reads' = reads /\ rq' = rq /\ budget' = budget
  BY DEF Deselect, Flush, SummaryUpdated, hub
<1>2. durable' \in {durable, st.finished} /\ savedCursor' \in {savedCursor, fc}
  BY DEF Deselect, Flush, SummaryUpdated
<1>3. (sel' = sel \/ sel' = FALSE) /\ (dirty' = dirty \/ dirty' = FALSE)
  BY DEF Deselect, Flush, SummaryUpdated
<1>4. StoreInv'
  BY <1>1, <1>2, FinishedIsDurable DEF SyncInv, StoreInv
<1>5. FlagsInv'
  BY <1>1, <1>3 DEF SyncInv, FlagsInv
<1>6. WireInv' /\ FlightInv'
  BY <1>1 DEF SyncInv, WireInv, FlightInv, online, ready
<1> QED BY <1>1, <1>4, <1>5, <1>6, SameHub, SameReads DEF SyncInv

\* The connection closes.
LEMMA ConnectionLostStep ==
    ASSUME ConstantsAssumption, SyncInv, ConnectionLost
    PROVE  SyncInv'
<1>1. /\ budget.drops > 0 /\ budget' = [budget EXCEPT !.drops = budget.drops - 1]
      /\ link' = [link EXCEPT !.at = "down"] /\ inbox' = <<>>
      /\ served' = {} /\ reads' = [j \in Jobs |-> NoRead] /\ rq' = IdleQueue
      /\ fc' = (IF rq.pending /\ rq.nextRun = "gap" THEN rq.nextCursor ELSE fc)
      /\ log' = log /\ saved' = saved /\ stamp' = stamp /\ st' = st /\ sel' = sel /\ dirty' = dirty
      /\ durable' = durable /\ savedCursor' = savedCursor
  BY DEF ConnectionLost, hub
<1>2. MaxTurn \in Nat /\ "repair" \in Jobs
  BY DEF ConstantsAssumption, Jobs
<1>3. NoRead \in Reads /\ NoRead.state = "none"
  BY <1>2 DEF NoRead, Reads
<1>4. StoreInv'
  <2>1. fc' \in 0..MaxTurn
    BY <1>1 DEF SyncInv, StoreInv, ReadsInv, Queue
  <2> QED BY <1>1, <2>1 DEF SyncInv, StoreInv
<1>5. ReadsInv'
  BY <1>1, <1>2, <1>3, IdleQueueForm DEF ReadsInv, RepairMatchesRead
<1>6. WireInv' /\ FlightInv'
  BY <1>1, <1>3 DEF WireInv, FlightInv
<1>7. FlagsInv'
  <2>1. /\ budget' \in Budget /\ budget'.restarts <= MaxRestarts /\ budget'.fails <= MaxFails
        /\ budget'.lates <= MaxLates
    BY <1>1 DEF SyncInv, FlagsInv, Budget, ConstantsAssumption
  <2>2. link' \in [at : Phases, was : BOOLEAN]
    BY <1>1 DEF SyncInv, FlagsInv, Phases
  <2> QED BY <1>1, <2>1, <2>2 DEF SyncInv, FlagsInv
<1> QED BY <1>1, <1>4, <1>5, <1>6, <1>7, SameHub DEF SyncInv

\* connect() comes one step further.
LEMMA LinkStep ==
    ASSUME ConstantsAssumption, SyncInv, Connect \/ bindRepository \/ RepositoryInPlace
    PROVE  SyncInv'
<1>1. /\ log' = log /\ saved' = saved /\ stamp' = stamp /\ inbox' = inbox /\ served' = served /\ st' = st /\ fc' = fc
      /\ sel' = sel /\ reads' = reads /\ rq' = rq /\ dirty' = dirty /\ durable' = durable
      /\ savedCursor' = savedCursor /\ budget' = budget
  BY DEF Connect, bindRepository, RepositoryInPlace, hub, client
<1>2. /\ link' \in [at : Phases, was : BOOLEAN] /\ (online => online') /\ (ready => ready')
  BY DEF Connect, bindRepository, RepositoryInPlace, Advance, SyncInv, FlagsInv, Phases, online, ready
<1>3. FlagsInv'
  BY <1>1, <1>2 DEF SyncInv, FlagsInv
<1>4. WireInv' /\ FlightInv'
  BY <1>1, <1>2 DEF SyncInv, WireInv, FlightInv
<1> QED BY <1>1, <1>3, <1>4, SameHub, SameStore, SameReads DEF SyncInv

\* The end of connect(): the session is read.
LEMMA ResyncStep ==
    ASSUME ConstantsAssumption, SyncInv, syncChatSessionsAfterReconnect
    PROVE  SyncInv'
<1> DEFINE run == IF link.was THEN "sync" ELSE "other"
<1>1. /\ link.at = "open" /\ link' = [link EXCEPT !.at = "synced"] /\ Request(st.cursor, run, st)
      /\ log' = log /\ saved' = saved /\ stamp' = stamp /\ inbox' = inbox /\ served' = served /\ st' = st
      /\ sel' = sel /\ dirty' = dirty /\ durable' = durable /\ savedCursor' = savedCursor /\ budget' = budget
  BY DEF syncChatSessionsAfterReconnect, Advance, hub
<1>2. run \in Runs \ {"none"}
  BY DEF Runs
<1> HIDE DEF run
<1>3. StoreOK(st) /\ st.cursor \in 0..MaxTurn /\ ReadsInv
  BY DEF SyncInv, StoreInv, StoreOK
<1>4. /\ ReadsInv' /\ fc' \in 0..MaxTurn
      /\ \A k \in Jobs : reads'[k] = reads[k] \/ (ready /\ k = "repair" /\ reads[k].state = "none")
  BY <1>1, <1>2, <1>3, RequestStep
<1>5. StoreInv'
  BY <1>1, <1>4 DEF SyncInv, StoreInv
<1>6. /\ link' \in [at : Phases, was : BOOLEAN] /\ link'.at = "synced"
  BY <1>1 DEF SyncInv, FlagsInv, Phases
<1>7. FlagsInv'
  BY <1>1, <1>6 DEF SyncInv, FlagsInv
<1>8. \A k \in Jobs : reads[k].state = "answered" => reads'[k] = reads[k]
  BY <1>4
<1>9. ready' /\ online'
  BY <1>6 DEF ready, online
<1>10. FlightInv'
  <2>1. \A a \in served : a.job \in Jobs /\ Fits(a, reads[a.job]) /\ Fits(a, reads'[a.job])
    BY <1>8 DEF SyncInv, WireInv, ReadMsg, FlightInv, Fits
  <2>2. \A k \in 1..Len(inbox) : inbox[k].kind = "read" => inbox[k].job \in Jobs
    BY DEF SyncInv, WireInv, TurnMsg, ReadMsg
  <2>3. \A k \in 1..Len(inbox) : inbox[k].kind = "read" => Fits(inbox[k], reads'[inbox[k].job])
    BY <1>8, <2>2 DEF SyncInv, FlightInv, Fits
  <2> QED BY <1>1, <1>9, <2>1, <2>3 DEF SyncInv, FlightInv
<1> QED BY <1>1, <1>4, <1>5, <1>7, <1>10, SameHub DEF SyncInv, WireInv

\* The page is loaded again from its durable cache.
LEMMA PageReloadStep ==
    ASSUME ConstantsAssumption, SyncInv, NEW j \in Loads, PageReload(j)
    PROVE  SyncInv' /\ ComesFrom(st', createEmptyChatTurnStore, durable)
<1>1. /\ budget.reloads > 0 /\ budget' = [budget EXCEPT !.reloads = budget.reloads - 1]
      /\ link' = [link EXCEPT !.at = "synced"] /\ inbox' = <<>>
      /\ served' = {} /\ st' = mergeCachedTurnPrefix(createEmptyChatTurnStore, durable) /\ fc' = st'.cursor
      /\ savedCursor' = (IF durable = NoTurns THEN savedCursor ELSE st'.cursor) /\ sel' = TRUE /\ rq' = IdleQueue
      /\ dirty' = FALSE /\ reads' = [k \in Jobs |-> IF k = j THEN loadChatSession(st', FALSE) ELSE NoRead]
      /\ log' = log /\ saved' = saved /\ stamp' = stamp /\ durable' = durable
  BY DEF PageReload, hub
<1>2. /\ MaxTurn \in Nat /\ j \in Jobs /\ "repair" \in Jobs /\ j # "repair" /\ durable \in TurnMap
  BY DEF ConstantsAssumption, Jobs, SyncInv, StoreInv, DurableOK
<1>3. StoreOK(st') /\ ComesFrom(st', createEmptyChatTurnStore, durable)
  BY <1>1, <1>2, EmptyStore, MergeCached
<1>4. st'.cursor \in 0..MaxTurn
  BY <1>3 DEF StoreOK
<1>5. StoreInv'
  BY <1>1, <1>3, <1>4 DEF SyncInv, StoreInv
<1>6. NoRead \in Reads /\ NoRead.state = "none" /\ loadChatSession(st', FALSE) \in Reads
  <2>1. FALSE \in BOOLEAN /\ TRUE \in BOOLEAN
    OBVIOUS
  <2> QED BY <1>2, <1>4, <2>1, ReadForms DEF loadChatSession
<1>7. ReadsInv'
  <2>1. reads' \in [Jobs -> Reads] /\ reads'["repair"].state = "none"
    BY <1>1, <1>2, <1>6
  <2> QED BY <1>1, <1>2, <2>1, IdleQueueForm DEF ReadsInv, RepairMatchesRead
<1>8. WireInv' /\ FlightInv'
  <2>1. ready' /\ online'
    BY <1>1 DEF SyncInv, FlagsInv, ready, online
  <2> QED BY <1>1, <2>1 DEF WireInv, FlightInv
<1>9. FlagsInv'
  <2>1. /\ budget' \in Budget /\ budget'.restarts <= MaxRestarts /\ budget'.fails <= MaxFails
        /\ budget'.lates <= MaxLates
    <3>1. /\ budget \in Budget /\ budget.reloads - 1 \in Nat
          /\ budget.restarts <= MaxRestarts /\ budget.fails <= MaxFails /\ budget.lates <= MaxLates
      BY <1>1 DEF SyncInv, FlagsInv, Budget
    <3> QED BY <1>1, <3>1 DEF Budget
  <2>2. link' \in [at : Phases, was : BOOLEAN]
    BY <1>1 DEF SyncInv, FlagsInv, Phases
  <2> QED BY <1>1, <2>1, <2>2 DEF SyncInv, FlagsInv
<1> QED BY <1>1, <1>3, <1>5, <1>7, <1>8, <1>9, SameHub DEF SyncInv

-----------------------------------------------------------------------------
(* The theorems *)

\* The program starts with nothing published, shown or kept.
LEMMA SyncInit ==
    ASSUME ConstantsAssumption, Init
    PROVE  SyncInv
<1>1. MaxTurn \in Nat /\ MaxStamp \in Nat /\ "repair" \in Jobs
  BY DEF ConstantsAssumption, Jobs
<1>2. HubInv
  BY <1>1 DEF Init, HubInv
<1>3. WireInv
  BY DEF Init, WireInv
<1>4. FlagsInv
  <2>1. /\ budget \in Budget
        /\ budget.restarts <= MaxRestarts /\ budget.fails <= MaxFails /\ budget.lates <= MaxLates
    BY DEF Init, Budget, ConstantsAssumption
  <2>2. link \in [at : Phases, was : BOOLEAN]
    BY DEF Init, Phases
  <2> QED BY <2>1, <2>2 DEF Init, FlagsInv
<1>5. StoreInv
  <2>1. StoreOK(st)
    BY <1>1, EmptyStore DEF Init
  <2>2. DurableOK(durable)
    <3>1. DOMAIN NoTurns = 1..0 /\ \A i \in 1..0 : NoTurns[i].f
      BY NoTurnsMap
    <3> QED BY <1>1, <3>1, NoTurnsMap DEF DurableOK, Init
  <2> QED BY <1>1, <2>1, <2>2 DEF Init, StoreInv
<1>6. NoRead \in Reads /\ NoRead.state = "none"
  BY <1>1 DEF NoRead, Reads
<1>7. ReadsInv
  BY <1>1, <1>6, IdleQueueForm DEF Init, ReadsInv, RepairMatchesRead
<1>8. FlightInv
  BY <1>6 DEF Init, FlightInv, online, ready
<1> QED BY <1>2, <1>3, <1>4, <1>5, <1>7, <1>8 DEF SyncInv

\* The publications of the hub.
Published(i, f) ==
    /\ stamp < MaxStamp /\ Publish(i, [c |-> stamp + 1, f |-> f])
    /\ \/ i = Len(log) + 1 /\ Len(log) < MaxTurn /\ Sealed /\ (saved' = saved \/ saved' = Len(log) + 1)
       \/ i = Len(log) /\ ~Sealed /\ saved' = saved

\* A step of the hub publishes a turn or is a restart.
LEMMA HubSteps ==
    ASSUME Hub
    PROVE  HubRestart \/ \E f \in BOOLEAN : Published(Len(log) + 1, f) \/ Published(Len(log), f)
<1>1. ASSUME NEW f \in BOOLEAN, NewTurn(f) PROVE Published(Len(log) + 1, f)
  BY <1>1 DEF NewTurn, Published
<1>2. ASSUME NEW f \in BOOLEAN, UpdateTurn(f) PROVE Published(Len(log), f)
  BY <1>2 DEF UpdateTurn, Published
<1>3. ASSUME PromptDone PROVE Published(Len(log) + 1, TRUE)
  BY <1>3 DEF PromptDone, Published
<1> QED BY <1>1, <1>2, <1>3 DEF Hub

\* Every step keeps the invariant.
LEMMA SyncNext ==
    ASSUME ConstantsAssumption, SyncInv, [Next]_vars
    PROVE  SyncInv'
<1>1. CASE Hub
  <2>1. ASSUME NEW i, NEW f \in BOOLEAN, Published(i, f) PROVE SyncInv'
    BY <2>1, PublishStep DEF Published
  <2> QED BY <1>1, <2>1, HubSteps, HubRestartStep
<1>2. CASE \E j \in Jobs : AnswerRead(j) \/ FailRead(j)
  BY <1>2, AnswerReadStep, FailReadStep
<1>3. CASE SendAnswer
  BY <1>3, SendAnswerStep
<1>4. CASE Receive
  BY <1>4, ReceiveTurnStep, ReceiveAnswerStep
<1>5. CASE \E j \in Loads, full \in BOOLEAN : SelectSession(j, full)
  BY <1>5, SelectStep
<1>6. CASE Deselect \/ Flush \/ SummaryUpdated
  BY <1>6, SmallStep
<1>7. CASE ConnectionLost \/ Connect \/ bindRepository \/ RepositoryInPlace \/ syncChatSessionsAfterReconnect
  BY <1>7, ConnectionLostStep, LinkStep, ResyncStep
<1>8. CASE \E j \in Loads : PageReload(j)
  BY <1>8, PageReloadStep
<1>9. CASE UNCHANGED vars
  <2>1. /\ log' = log /\ saved' = saved /\ stamp' = stamp /\ link' = link /\ inbox' = inbox /\ served' = served
        /\ st' = st /\ fc' = fc /\ sel' = sel /\ reads' = reads /\ rq' = rq /\ dirty' = dirty /\ durable' = durable
        /\ savedCursor' = savedCursor /\ budget' = budget
    BY <1>9 DEF vars
  <2>2. WireInv' /\ FlightInv'
    BY <2>1 DEF SyncInv, WireInv, FlightInv, online, ready
  <2> QED BY <2>1, <2>2, SameHub, SameFlags, SameStore, SameReads DEF SyncInv
<1> QED BY <1>1, <1>2, <1>3, <1>4, <1>5, <1>6, <1>7, <1>8, <1>9 DEF Next

\* In every state the log, the connection, the store, the caches and the reads
\* fit together as SyncInv says, whatever is lost, late, retried or reloaded.
THEOREM SyncInvariance ==
    ASSUME ConstantsAssumption
    PROVE  Spec => []SyncInv
BY SyncInit, SyncNext, PTL DEF Spec

\* The variables keep their types, and the finished turns of the client's store
\* are finished, the live ones are not.
THEOREM TypeCorrect ==
    ASSUME ConstantsAssumption
    PROVE  Spec => []TypeOK
<1>1. SyncInv => TypeOK
  <2> SUFFICES ASSUME SyncInv PROVE TypeOK
    OBVIOUS
  <2>1. /\ log \in Seq(Turn) /\ Len(log) <= MaxTurn /\ saved \in 0..MaxTurn /\ stamp \in 0..MaxStamp
    BY DEF SyncInv, HubInv, ConstantsAssumption
  <2>2. /\ st \in [finished : TurnMap, live : TurnMap, cursor : 0..MaxTurn]
        /\ \A i \in DOMAIN st.finished : st.finished[i].f
        /\ \A i \in DOMAIN st.live : ~st.live[i].f
        /\ fc \in 0..MaxTurn /\ savedCursor \in 0..MaxTurn /\ durable \in TurnMap
    BY DEF SyncInv, StoreInv, StoreOK, DurableOK
  <2>3. link \in [at : Phases, was : BOOLEAN] /\ sel \in BOOLEAN /\ dirty \in BOOLEAN
    BY DEF SyncInv, FlagsInv
  <2>4. reads \in [Jobs -> Reads] /\ rq \in Queue
    BY DEF SyncInv, ReadsInv
  <2> QED BY <2>1, <2>2, <2>3, <2>4 DEF TypeOK, Queue
<1> QED BY <1>1, SyncInvariance, PTL

\* CLT-010, CLT-011, CLT-014, for every number of turns, calls, losses, reloads
\* and hub restarts, late answers included: the finished turns of the client's
\* store are exactly 1..cursor and no turn is both finished and live, whatever
\* order mergeRealtimeTurn, applySessionReadResult, the cache merge and the cache
\* reset come in.
THEOREM PrefixStoreAlways ==
    ASSUME ConstantsAssumption
    PROVE  Spec => []PrefixStore
<1>1. SyncInv => PrefixStore
  BY DEF SyncInv, StoreInv, StoreOK, PrefixStore
<1> QED BY <1>1, SyncInvariance, PTL

\* DB-004: what flush, the end of a read and the cache reset leave in IndexedDB is
\* always a continuous prefix of finished turns.
THEOREM DurablePrefixAlways ==
    ASSUME ConstantsAssumption
    PROVE  Spec => []DurablePrefix
<1>1. SyncInv => DurablePrefix
  BY DEF SyncInv, StoreInv, DurableOK, DurablePrefix
<1> QED BY <1>1, SyncInvariance, PTL

\* The entry of ChatReadRepairQueue is in flight exactly while its session.read
\* is outstanding: a lost connection, an error, a stale cache or a hub restart
\* never leaves a request parked behind a read that has ended.
THEOREM RepairMatchesReadAlways ==
    ASSUME ConstantsAssumption
    PROVE  Spec => []RepairMatchesRead
<1>1. SyncInv => RepairMatchesRead
  BY DEF SyncInv, ReadsInv
<1> QED BY <1>1, SyncInvariance, PTL

-----------------------------------------------------------------------------
(* Finished text is final *)

\* A publication keeps every finished turn of the log, and the log has the turn
\* that it publishes.
LEMMA PublicationKeepsFinished ==
    ASSUME SyncInv, NEW i, NEW f \in BOOLEAN, Published(i, f)
    PROVE  /\ \A k \in 1..Len(log) : log[k].f => k \in 1..Len(log') /\ log'[k] = log[k]
           /\ i \in 1..Len(log') /\ log'[i] = [c |-> stamp + 1, f |-> f]
<1> DEFINE t == [c |-> stamp + 1, f |-> f]
<1>1. /\ log \in Seq(Turn) /\ Len(log) \in Nat /\ \A k \in 1..Len(log) : k < Len(log) => log[k].f
  BY DEF SyncInv, HubInv
<1>2. log' = IF i > Len(log) THEN Append(log, t) ELSE [log EXCEPT ![i] = t]
  BY DEF Published, Publish
<1> HIDE DEF t
<1>3. CASE i = Len(log) + 1
  <2>1. log' = Append(log, t)
    BY <1>1, <1>2, <1>3
  <2>2. Len(log') = Len(log) + 1 /\ log'[Len(log) + 1] = t /\ \A k \in 1..Len(log) : log'[k] = log[k]
    BY <1>1, <2>1
  <2> QED BY <1>1, <1>3, <2>2 DEF t
<1>4. CASE i = Len(log) /\ ~Sealed
  <2>1. PICK k \in 1..Len(log) : ~log[k].f
    BY <1>4 DEF Sealed
  <2>2. k = Len(log) /\ i \in 1..Len(log) /\ ~log[i].f
    BY <1>1, <1>4, <2>1
  <2>3. log' = [log EXCEPT ![i] = t]
    BY <1>1, <1>2, <2>2
  <2>4. Len(log') = Len(log) /\ log'[i] = t /\ \A l \in 1..Len(log) : l # i => log'[l] = log[l]
    BY <1>1, <2>2, <2>3
  <2> QED BY <2>2, <2>4 DEF t
<1> QED BY <1>3, <1>4 DEF Published

\* Finished turns that come from final ones are final.
LEMMA FinalFrom ==
    ASSUME NEW s, NEW r, NEW m, ComesFrom(s, r, m), FinalTurns(r.finished), FinalTurns(m)
    PROVE  FinalTurns(s.finished)
BY DEF ComesFrom, FinalTurns, Final

\* While the log stays, it is enough that new answers, the store and the cache
\* have only final turns.
LEMMA FinalKept ==
    ASSUME SyncInv, FinalInv, log' = log, budget'.restarts = budget.restarts,
           \A a \in served' : a \in served \/ FinalTurns(a.turns),
           \A k \in 1..Len(inbox') : \/ \E l \in 1..Len(inbox) : inbox'[k] = inbox[l]
                                     \/ inbox'[k].kind = "read" /\ FinalTurns(inbox'[k].turns),
           FinalTurns(st'.finished), FinalTurns(durable')
    PROVE  FinalInv'
<1>1. \A a \in served' : FinalTurns(a.turns)
  BY DEF FinalInv
<1>2. \A k \in 1..Len(inbox') : /\ inbox'[k].kind = "read" => FinalTurns(inbox'[k].turns)
                                /\ inbox'[k].kind = "turn" => Final(inbox'[k].i, inbox'[k].t)
  BY DEF FinalInv
<1> QED BY <1>1, <1>2 DEF FinalInv, FinalTurns, Final

\* The step neither loses turns of the hub nor lets an answer be overtaken.
InTime == budget'.restarts = budget.restarts /\ budget'.lates = budget.lates

\* Faults only happen: what is left of them never grows, and the steps that are
\* not in time leave the store alone.
LEMMA BudgetStep ==
    ASSUME ConstantsAssumption, SyncInv, [Next]_vars
    PROVE  /\ budget'.fails <= budget.fails
           /\ \/ InTime
              \/ st' = st /\ budget'.restarts < budget.restarts /\ budget'.lates = budget.lates
              \/ st' = st /\ budget'.lates < budget.lates /\ budget'.restarts = budget.restarts
<1>1. /\ budget \in Budget /\ budget.restarts \in Nat /\ budget.lates \in Nat /\ budget.fails \in Nat
  BY DEF SyncInv, FlagsInv, Budget
<1>2. CASE budget' = budget
  BY <1>1, <1>2 DEF InTime
<1>3. CASE HubRestart
  <2>1. st' = st /\ budget.restarts > 0 /\ budget' = [budget EXCEPT !.restarts = budget.restarts - 1]
    BY <1>3 DEF HubRestart, client
  <2> QED BY <1>1, <2>1 DEF Budget
<1>4. ASSUME NEW j \in Jobs, AnswerRead(j), budget' # budget
      PROVE  /\ budget'.fails <= budget.fails
             /\ st' = st /\ budget'.lates < budget.lates /\ budget'.restarts = budget.restarts
  <2>1. st' = st /\ budget' = [budget EXCEPT !.lates = budget.lates - 1]
    BY <1>4 DEF AnswerRead
  <2> QED BY <1>1, <2>1 DEF Budget
<1>5. ASSUME NEW j \in Jobs, FailRead(j) PROVE budget'.fails <= budget.fails /\ InTime
  <2>1. budget' = [budget EXCEPT !.fails = budget.fails - 1]
    BY <1>5 DEF FailRead
  <2> QED BY <1>1, <2>1 DEF Budget, InTime
<1>6. CASE ConnectionLost
  <2>1. budget' = [budget EXCEPT !.drops = budget.drops - 1]
    BY <1>6 DEF ConnectionLost
  <2> QED BY <1>1, <2>1 DEF Budget, InTime
<1>7. ASSUME NEW j \in Loads, PageReload(j) PROVE budget'.fails <= budget.fails /\ InTime
  <2>1. budget' = [budget EXCEPT !.reloads = budget.reloads - 1]
    BY <1>7 DEF PageReload
  <2> QED BY <1>1, <2>1 DEF Budget, InTime
<1>8. ASSUME Hub, ~HubRestart PROVE budget' = budget
  BY <1>8 DEF Hub, NewTurn, UpdateTurn, PromptDone, Publish
<1>9. ASSUME SendAnswer \/ Receive \/ Deselect \/ Flush \/ SummaryUpdated \/ Connect \/ bindRepository
             \/ RepositoryInPlace \/ syncChatSessionsAfterReconnect \/ UNCHANGED vars
      PROVE  budget' = budget
  BY <1>9 DEF SendAnswer, Receive, Deselect, Flush, SummaryUpdated, Connect, bindRepository, RepositoryInPlace,
              syncChatSessionsAfterReconnect, vars
<1>10. ASSUME NEW j \in Loads, NEW full \in BOOLEAN, SelectSession(j, full) PROVE budget' = budget
  BY <1>10 DEF SelectSession
<1> QED BY <1>2, <1>3, <1>4, <1>5, <1>6, <1>7, <1>8, <1>9, <1>10 DEF Next

\* Every step keeps FinalInv when the hub loses nothing.
LEMMA FinalNext ==
    ASSUME ConstantsAssumption, SyncInv, FinalInv, [Next]_vars, budget'.restarts = budget.restarts
    PROVE  FinalInv'
<1>1. CASE Hub
  <2>1. ~HubRestart
    BY DEF HubRestart, SyncInv, FlagsInv, Budget
  <2>2. ASSUME NEW i, NEW f \in BOOLEAN, Published(i, f) PROVE FinalInv'
    <3> DEFINE t == [c |-> stamp + 1, f |-> f]
               m == [kind |-> "turn", i |-> i, t |-> t]
    <3>1. /\ inbox' = IF online THEN Append(inbox, m) ELSE inbox
          /\ served' = served /\ st' = st /\ durable' = durable /\ budget' = budget
      BY <2>2 DEF Published, Publish, client
    <3>2. /\ \A k \in 1..Len(log) : log[k].f => k \in 1..Len(log') /\ log'[k] = log[k]
          /\ i \in 1..Len(log') /\ log'[i] = t
      BY <2>2, PublicationKeepsFinished
    <3>3. m.kind = "turn" /\ m.i = i /\ m.t = t
      OBVIOUS
    <3> HIDE DEF t, m
    <3>4. \A k, u : Final(k, u) => (u.f => k \in 1..Len(log') /\ log'[k] = u)
      BY <3>2 DEF Final
    <3>5. \A n : FinalTurns(n) => \A k \in DOMAIN n : n[k].f => k \in 1..Len(log') /\ log'[k] = n[k]
      BY <3>4 DEF FinalTurns
    <3>6. \A k \in 1..Len(inbox') : inbox'[k] = m \/ (k \in 1..Len(inbox) /\ inbox'[k] = inbox[k])
      <4>1. inbox \in Seq(TurnMsg \cup ReadMsg)
        BY DEF SyncInv, WireInv
      <4> QED BY <3>1, <4>1
    <3>7. \A k \in 1..Len(inbox') :
             /\ inbox'[k].kind = "read" =>
                  \A l \in DOMAIN inbox'[k].turns :
                    inbox'[k].turns[l].f => l \in 1..Len(log') /\ log'[l] = inbox'[k].turns[l]
             /\ inbox'[k].kind = "turn" =>
                  (inbox'[k].t.f => inbox'[k].i \in 1..Len(log') /\ log'[inbox'[k].i] = inbox'[k].t)
      <4> SUFFICES ASSUME NEW k \in 1..Len(inbox')
                   PROVE  /\ inbox'[k].kind = "read" =>
                               \A l \in DOMAIN inbox'[k].turns :
                                 inbox'[k].turns[l].f => l \in 1..Len(log') /\ log'[l] = inbox'[k].turns[l]
                          /\ inbox'[k].kind = "turn" =>
                               (inbox'[k].t.f => inbox'[k].i \in 1..Len(log') /\ log'[inbox'[k].i] = inbox'[k].t)
        OBVIOUS
      <4>1. CASE inbox'[k] = m
        BY <3>2, <3>3, <4>1
      <4>2. CASE k \in 1..Len(inbox) /\ inbox'[k] = inbox[k]
        BY <3>4, <3>5, <4>2 DEF FinalInv
      <4> QED BY <3>6, <4>1, <4>2
    <3> QED BY <3>1, <3>5, <3>7 DEF FinalInv, FinalTurns, Final
  <2> QED BY <1>1, <2>1, <2>2, HubSteps
<1>2. FinalTurns(st.finished) /\ FinalTurns(durable) /\ FinalTurns(NoTurns)
  BY NoTurnsMap DEF FinalInv, FinalTurns
<1>3. ASSUME NEW j \in Jobs, AnswerRead(j) PROVE FinalInv'
  <2>1. /\ log' = log /\ st' = st /\ durable' = durable
        /\ \/ inbox' = Append(inbox, Answer(j)) /\ served' = served
           \/ inbox' = inbox /\ served' = served \cup {Answer(j)}
    BY <1>3 DEF AnswerRead, hub
  <2>2. Answer(j).kind = "read" /\ FinalTurns(Answer(j).turns)
    BY AnswerForm DEF SyncInv, FinalTurns, Final
  <2>3. \A k \in 1..Len(inbox') : inbox'[k] = Answer(j) \/ \E l \in 1..Len(inbox) : inbox'[k] = inbox[l]
    BY <2>1 DEF SyncInv, WireInv
  <2>4. \A a \in served' : a \in served \/ a = Answer(j)
    BY <2>1
  <2> QED BY <1>2, <2>1, <2>2, <2>3, <2>4, FinalKept
<1>4. ASSUME NEW j \in Jobs, FailRead(j) PROVE FinalInv'
  <2>1. /\ log' = log /\ st' = st /\ durable' = durable /\ inbox' = inbox /\ served' = served
        /\ budget' = [budget EXCEPT !.fails = budget.fails - 1]
    BY <1>4 DEF FailRead, hub
  <2>2. budget'.restarts = budget.restarts
    BY <2>1 DEF SyncInv, FlagsInv, Budget
  <2> QED BY <1>2, <2>1, <2>2, FinalKept
<1>5. CASE SendAnswer
  <2>1. PICK a \in served : inbox' = Append(inbox, a) /\ served' = served \ {a}
    BY <1>5 DEF SendAnswer
  <2>2. log' = log /\ st' = st /\ durable' = durable /\ budget' = budget
    BY <1>5 DEF SendAnswer, hub, client
  <2>3. a.kind = "read" /\ FinalTurns(a.turns)
    BY DEF SyncInv, WireInv, ReadMsg, FinalInv
  <2>4. \A k \in 1..Len(inbox') : inbox'[k] = a \/ \E l \in 1..Len(inbox) : inbox'[k] = inbox[l]
    <3>1. a \in TurnMsg \cup ReadMsg
      BY DEF SyncInv, WireInv
    <3> QED BY <2>1, <3>1, MessageAdded DEF SyncInv
  <2>5. \A b \in served' : b \in served
    BY <2>1
  <2> QED BY <1>2, <2>2, <2>3, <2>4, <2>5, FinalKept
<1>6. CASE Receive
  <2>1. /\ inbox # <<>> /\ inbox' = Tail(inbox) /\ log' = log /\ served' = served /\ budget' = budget
    BY <1>6 DEF Receive, hub
  <2>2. /\ Head(inbox) = inbox[1] /\ 1 \in 1..Len(inbox) /\ inbox[1] \in TurnMsg \cup ReadMsg
        /\ \A k \in 1..Len(inbox') : \E l \in 1..Len(inbox) : inbox'[k] = inbox[l]
    BY <2>1, MessageTaken DEF SyncInv
  <2>3. FinalTurns(st'.finished) /\ FinalTurns(durable')
    <3>1. CASE Head(inbox).kind = "turn"
      <4>1. durable' = durable
        BY <1>6, <3>1 DEF Receive, ReceiveTurn
      <4>2. Final(Head(inbox).i, Head(inbox).t)
        BY <2>2, <3>1 DEF FinalInv
      <4>3. \A k \in DOMAIN st'.finished :
              \/ k \in DOMAIN st.finished /\ st'.finished[k] = st.finished[k]
              \/ k = Head(inbox).i /\ st'.finished[k] = Head(inbox).t /\ Head(inbox).t.f
        BY <1>6, <3>1, ReceiveTurnStep
      <4> QED BY <1>2, <4>1, <4>2, <4>3 DEF FinalTurns
    <3>2. CASE Head(inbox).kind # "turn"
      <4>1. Head(inbox).kind = "read"
        BY <2>2, <3>2 DEF TurnMsg, ReadMsg
      <4>2. FinalTurns(Head(inbox).turns)
        BY <2>2, <4>1 DEF FinalInv
      <4>3. /\ ComesFrom(st', st, Head(inbox).turns)
            /\ durable' = durable \/ durable' = NoTurns \/ durable' = st'.finished
        BY <1>6, <3>2, ReceiveAnswerStep
      <4>4. FinalTurns(st'.finished)
        BY <1>2, <4>2, <4>3, FinalFrom
      <4> QED BY <1>2, <4>3, <4>4
    <3> QED BY <3>1, <3>2
  <2> QED BY <2>1, <2>2, <2>3, FinalKept
<1>7. ASSUME NEW j \in Loads, NEW full \in BOOLEAN, SelectSession(j, full) PROVE FinalInv'
  <2>1. /\ log' = log /\ durable' = durable /\ inbox' = inbox /\ served' = served /\ budget' = budget
    BY <1>7 DEF SelectSession, hub
  <2>2. FinalTurns(st'.finished)
    BY <1>2, <1>7, SelectStep, FinalFrom
  <2> QED BY <1>2, <2>1, <2>2, FinalKept
<1>8. CASE Deselect \/ Flush \/ SummaryUpdated \/ Connect \/ bindRepository \/ RepositoryInPlace
           \/ syncChatSessionsAfterReconnect \/ UNCHANGED vars
  <2>1. /\ log' = log /\ inbox' = inbox /\ served' = served /\ budget' = budget /\ st' = st
        /\ durable' = durable \/ durable' = st.finished
    BY <1>8 DEF Deselect, Flush, SummaryUpdated, Connect, bindRepository, RepositoryInPlace,
                syncChatSessionsAfterReconnect, vars, hub, client
  <2> QED BY <1>2, <2>1, FinalKept
<1>9. CASE ConnectionLost
  <2>1. /\ log' = log /\ inbox' = <<>> /\ served' = {} /\ st' = st /\ durable' = durable
        /\ budget' = [budget EXCEPT !.drops = budget.drops - 1]
    BY <1>9 DEF ConnectionLost, hub
  <2>2. budget'.restarts = budget.restarts /\ 1..Len(inbox') = {}
    BY <2>1 DEF SyncInv, FlagsInv, Budget
  <2> QED BY <1>2, <2>1, <2>2, FinalKept
<1>10. ASSUME NEW j \in Loads, PageReload(j) PROVE FinalInv'
  <2>1. /\ log' = log /\ inbox' = <<>> /\ served' = {} /\ durable' = durable
        /\ budget' = [budget EXCEPT !.reloads = budget.reloads - 1]
    BY <1>10 DEF PageReload, hub
  <2>2. budget'.restarts = budget.restarts /\ 1..Len(inbox') = {}
    BY <2>1 DEF SyncInv, FlagsInv, Budget
  <2>3. FinalTurns(createEmptyChatTurnStore.finished)
    BY <1>2 DEF createEmptyChatTurnStore
  <2>4. FinalTurns(st'.finished)
    BY <1>2, <1>10, <2>3, PageReloadStep, FinalFrom
  <2> QED BY <1>2, <2>1, <2>2, <2>4, FinalKept
<1> QED BY <1>1, <1>3, <1>4, <1>5, <1>6, <1>7, <1>8, <1>9, <1>10 DEF Next

\* The program starts without a finished turn anywhere.
LEMMA FinalInit ==
    ASSUME Init
    PROVE  FinalInv
<1>1. /\ inbox = <<>> /\ served = {} /\ durable = NoTurns /\ st.finished = NoTurns
      /\ budget.restarts = MaxRestarts
  BY DEF Init, createEmptyChatTurnStore
<1>2. FinalTurns(NoTurns)
  BY NoTurnsMap DEF FinalTurns
<1>3. 1..Len(inbox) = {}
  BY <1>1
<1> QED BY <1>1, <1>2, <1>3 DEF FinalInv

\* Finished turns are final everywhere until the hub loses turns.
LEMMA FinalInvariance ==
    ASSUME ConstantsAssumption
    PROVE  Spec => [](~Restarted => FinalInv)
<1>1. Init => (~Restarted => FinalInv)
  BY FinalInit
<1>2. SyncInv /\ (~Restarted => FinalInv) /\ [Next]_vars => (~Restarted => FinalInv)'
  <2> SUFFICES ASSUME SyncInv, ~Restarted => FinalInv, [Next]_vars, ~Restarted' PROVE FinalInv'
    OBVIOUS
  <2>1. budget.restarts \in Nat /\ budget.restarts <= MaxRestarts /\ MaxRestarts \in Nat
    BY DEF SyncInv, FlagsInv, Budget, ConstantsAssumption
  <2>2. SyncInv'
    BY SyncNext
  <2>3. budget'.restarts \in Nat
    BY <2>2 DEF SyncInv, FlagsInv, Budget
  <2>4. budget'.restarts = budget.restarts /\ ~Restarted
    BY <2>1, <2>3, BudgetStep DEF Restarted, InTime
  <2> QED BY <2>4, FinalNext
<1> QED BY <1>1, <1>2, SyncInvariance, PTL DEF Spec

\* Every text that the client holds as finished, in memory or in IndexedDB, is the
\* hub's final text of that turn, although answers may be late, reads fail,
\* connections break and pages be reloaded.  This ends when the hub loses turns it
\* had not written, since their indices go to other turns then.
THEOREM SealedIsFinalAlways ==
    ASSUME ConstantsAssumption
    PROVE  Spec => []SealedIsFinal
<1>1. SyncInv /\ (~Restarted => FinalInv) => SealedIsFinal
  <2> SUFFICES ASSUME SyncInv, FinalInv PROVE SealedIsFinal
    BY DEF SealedIsFinal
  <2>1. /\ \A i \in DOMAIN st.finished : st.finished[i].f
        /\ \A i \in DOMAIN durable : durable[i].f
    BY DEF SyncInv, StoreInv, StoreOK, DurableOK
  <2> QED BY <2>1 DEF FinalInv, FinalTurns, Final, SealedIsFinal, SyncInv, HubInv
<1> QED BY <1>1, FinalInvariance, SyncInvariance, PTL
-----------------------------------------------------------------------------
(* Answers that arrive in the order of the publications *)

\* u is the same version of a turn as t, or a later one: a finished turn has no
\* later version.
Upto(t, u) == t = u \/ (~t.f /\ t.c < u.c)

\* The turns of a message.
Content(m) == IF m.kind = "turn" THEN [i \in {m.i} |-> m.t] ELSE m.turns

\* No turn of m is later than in n, or than in the log l.
Before(m, n) == \A i \in DOMAIN m \cap DOMAIN n : Upto(m[i], n[i])
BehindLog(m, l) == \A i \in DOMAIN m : i \in 1..Len(l) /\ Upto(m[i], l[i])

\* What is kept is not later than what the connection brings, nor is that
\* later than the log.
Ahead(m, box, l) == BehindLog(m, l) /\ \A k \in 1..Len(box) : Before(m, Content(box[k]))

\* An answer has all turns from the checkpoint of its read to the latest, and
\* only the last of them may be open.
Whole(a, after) ==
    /\ after <= a.latest /\ DOMAIN a.turns = {i \in 1..a.latest : after < i}
    /\ \A i \in DOMAIN a.turns : i < a.latest => a.turns[i].f

OrderInv ==
    /\ served = {}
    /\ \A i \in 1..Len(log) : log[i].c <= stamp
    /\ \A k \in 1..Len(inbox) : BehindLog(Content(inbox[k]), log)
    /\ \A k, l \in 1..Len(inbox) : k < l => Before(Content(inbox[k]), Content(inbox[l]))
    /\ \A k \in 1..Len(inbox) : inbox[k].kind = "read" => Whole(inbox[k], reads[inbox[k].job].after)
    /\ \A j \in Jobs : reads[j].state # "none" => reads[j].after <= st.cursor
    /\ Ahead(st.finished, inbox, log) /\ Ahead(st.live, inbox, log) /\ Ahead(durable, inbox, log)

ShownIn(s, i, t) ==
    (i \in DOMAIN s.finished /\ s.finished[i] = t) \/ (i \in DOMAIN s.live /\ s.live[i] = t)

\* A turn the page does not show comes with the connection, or with a read that
\* is asked or will be.
Coming(i, t, s, box, rd, q) ==
    \/ ShownIn(s, i, t)
    \/ \E k \in 1..Len(box) : i \in DOMAIN Content(box[k]) /\ Content(box[k])[i] = t
    \/ \E j \in Jobs : rd[j].state = "asked" /\ rd[j].after < i
    \/ q.pending

ComingInv ==
    link.at = "synced" /\ sel => \A i \in 1..Len(log) : Coming(i, log[i], st, inbox, reads, rq)

\* Versions of a turn are ordered.
LEMMA UptoTrans ==
    ASSUME MaxStamp \in Nat, NEW t \in Turn, NEW u \in Turn, NEW v \in Turn, Upto(t, u), Upto(u, v)
    PROVE  Upto(t, v)
BY DEF Upto, Turn

\* Two versions that are not later than each other are the same.
LEMMA UptoBoth ==
    ASSUME MaxStamp \in Nat, NEW t \in Turn, NEW u \in Turn, Upto(t, u), Upto(u, t)
    PROVE  t = u
BY DEF Upto, Turn

\* The turns of a message are a turn map.
LEMMA ContentMap ==
    ASSUME NEW x \in TurnMsg \cup ReadMsg
    PROVE  /\ Content(x) \in TurnMap
           /\ x.kind = "turn" => x \in TurnMsg /\ DOMAIN Content(x) = {x.i} /\ Content(x)[x.i] = x.t
           /\ x.kind # "turn" => x \in ReadMsg /\ x.kind = "read" /\ Content(x) = x.turns
<1>1. CASE x \in TurnMsg
  <2>1. x.kind = "turn" /\ x.i \in 1..MaxTurn /\ x.t \in Turn
    BY <1>1 DEF TurnMsg
  <2>2. Content(x) = [i \in {x.i} |-> x.t]
    BY <2>1 DEF Content
  <2>3. Content(x) \in [{x.i} -> Turn] /\ {x.i} \in SUBSET (1..MaxTurn)
    BY <2>1, <2>2
  <2>4. Content(x) \in TurnMap /\ DOMAIN Content(x) = {x.i}
    BY <2>3, MapFrom
  <2> QED BY <1>1, <2>1, <2>2, <2>4
<1>2. CASE x \in ReadMsg
  <2>1. x.kind = "read" /\ x.turns \in TurnMap
    BY <1>2 DEF ReadMsg
  <2>2. "read" # "turn"
    OBVIOUS
  <2> QED BY <1>2, <2>1, <2>2 DEF Content
<1> QED BY <1>1, <1>2

\* getFinishedCursor counts every finished prefix.
LEMMA CursorAtLeast ==
    ASSUME MaxTurn \in Nat, NEW m \in TurnMap, NEW v, NEW n \in 0..MaxTurn, \A i \in 1..n : i \in DOMAIN m /\ m[i].f
    PROVE  n <= Settled(m, v).cursor
<1>1. Settled(m, v).cursor = getFinishedCursor(m)
  BY DEF Settled
<1>2. /\ getFinishedCursor(m) \in 0..MaxTurn
      /\ ~(getFinishedCursor(m) + 1 \in DOMAIN m /\ m[getFinishedCursor(m) + 1].f)
  BY FinishedCursor
<1> DEFINE c == getFinishedCursor(m)
<1> HIDE DEF c
<1>3. c \in 0..MaxTurn /\ ~(c + 1 \in DOMAIN m /\ m[c + 1].f)
  BY <1>2 DEF c
<1>4. c < n => c + 1 \in 1..n
  BY <1>3
<1>5. n <= c
  BY <1>3, <1>4
<1> QED BY <1>1, <1>5 DEF c

\* mergeRealtimeTurn takes nothing back, and shows the turn unless it is a
\* finished one behind a hole.
LEMMA MergeRealtimeKeeps ==
    ASSUME MaxTurn \in Nat, NEW r, StoreOK(r), NEW i \in 1..MaxTurn, NEW t \in Turn,
           NEW s, s = mergeRealtimeTurn(r, i, t), i \in DOMAIN r.finished => r.finished[i] = t
    PROVE  /\ r.cursor <= s.cursor
           /\ \A k \in DOMAIN r.finished : k \in DOMAIN s.finished /\ s.finished[k] = r.finished[k]
           /\ \A k \in DOMAIN s.live : (k \in DOMAIN r.live /\ s.live[k] = r.live[k]) \/ (k = i /\ s.live[k] = t)
           /\ \A k \in DOMAIN r.live : k # i => k \in DOMAIN s.live /\ s.live[k] = r.live[k]
           /\ i <= r.cursor + 1 \/ ~t.f => ShownIn(s, i, t)
<1>1. /\ r \in [finished : TurnMap, live : TurnMap, cursor : 0..MaxTurn]
      /\ r.finished \in TurnMap /\ r.live \in TurnMap /\ r.cursor \in 0..MaxTurn /\ DOMAIN r.finished = 1..r.cursor
      /\ \A k \in DOMAIN r.finished : r.finished[k].f
      /\ \A k \in DOMAIN r.live : ~r.live[k].f /\ k \notin DOMAIN r.finished
  BY DEF StoreOK
<1> DEFINE Added(w, m) == /\ w \in TurnMap /\ DOMAIN w = DOMAIN m \cup {i} /\ w[i] = t
                          /\ \A j \in DOMAIN m : j # i => w[j] = m[j]
<1>2. Added(upsertTurn(r.finished, i, t), r.finished) /\ Added(upsertTurn(r.live, i, t), r.live)
  <2>1. ASSUME NEW m \in TurnMap PROVE Added(upsertTurn(m, i, t), m)
    BY Upserted, ZenonT(40)
  <2> HIDE DEF Added
  <2> QED BY <1>1, <2>1
<1>3. CASE t.f
  <2> DEFINE u == upsertTurn(r.finished, i, t)
             v == Restrict(r.live, DOMAIN r.live \ {i})
  <2>1. s = Settled(u, v)
    BY <1>3 DEF mergeRealtimeTurn
  <2>2. /\ u \in TurnMap /\ DOMAIN u = DOMAIN r.finished \cup {i} /\ u[i] = t
        /\ \A j \in DOMAIN r.finished : j # i => u[j] = r.finished[j]
    BY <1>2
  <2>3. DOMAIN v = DOMAIN r.live \ {i} /\ \A k \in DOMAIN v : v[k] = r.live[k]
    BY DEF Restrict
  <2> HIDE DEF u, v
  <2>4. /\ s.cursor \in 0..MaxTurn /\ s.live = v /\ DOMAIN s.finished = 1..s.cursor
        /\ \A k \in DOMAIN s.finished : k \in DOMAIN u /\ s.finished[k] = u[k]
    BY <2>1, <2>2, SettledFacts
  <2>5. \A k \in DOMAIN r.finished : u[k] = r.finished[k] /\ u[k].f
    BY <1>1, <2>2
  <2>6. r.cursor <= s.cursor
    <3>1. \A k \in 1..r.cursor : k \in DOMAIN u /\ u[k].f
      BY <1>1, <2>2, <2>5
    <3> QED BY <1>1, <2>1, <2>2, <3>1, CursorAtLeast
  <2>7. \A k \in DOMAIN r.finished : k \in DOMAIN s.finished /\ s.finished[k] = r.finished[k]
    BY <1>1, <2>4, <2>5, <2>6
  <2>8. ASSUME i <= r.cursor + 1 PROVE ShownIn(s, i, t)
    <3>1. \A k \in 1..i : k \in DOMAIN u /\ u[k].f
      BY <1>1, <1>3, <2>2, <2>5, <2>8
    <3>2. i <= s.cursor
      <4>1. i \in 0..MaxTurn
        OBVIOUS
      <4> QED BY <2>1, <2>2, <3>1, <4>1, CursorAtLeast
    <3> QED BY <2>2, <2>4, <3>2 DEF ShownIn
  <2> QED BY <1>3, <2>3, <2>4, <2>6, <2>7, <2>8
<1>4. CASE ~t.f
  <2>1. i \notin DOMAIN r.finished
    BY <1>1, <1>4
  <2> DEFINE v == upsertTurn(r.live, i, t)
  <2>2. s = [r EXCEPT !.live = v]
    BY <1>4, <2>1 DEF mergeRealtimeTurn
  <2>3. /\ DOMAIN v = DOMAIN r.live \cup {i} /\ v[i] = t /\ \A j \in DOMAIN r.live : j # i => v[j] = r.live[j]
    BY <1>2
  <2> HIDE DEF v
  <2>4. s.finished = r.finished /\ s.live = v /\ s.cursor = r.cursor
    BY <1>1, <2>2
  <2> QED BY <1>1, <2>3, <2>4 DEF ShownIn
<1> QED BY <1>3, <1>4

\* s keeps what r has outside of the answer m and takes what m has.
Applied(s, r, after, m, latest) ==
    /\ \A n \in 0..MaxTurn :
          (\A i \in 1..n : \/ i \in DOMAIN r.finished /\ (i <= after \/ i > latest)
                           \/ i \in DOMAIN m /\ m[i].f)
            => n <= s.cursor
    /\ \A i \in DOMAIN s.finished : s.finished[i] = IF i \in DOMAIN m THEN m[i] ELSE r.finished[i]
    /\ \A i \in DOMAIN s.live : \/ i \in DOMAIN r.live /\ s.live[i] = r.live[i]
                                \/ i \in DOMAIN m /\ s.live[i] = m[i]
    /\ \A i \in DOMAIN m : ~m[i].f => i \in DOMAIN s.live /\ s.live[i] = m[i]
    /\ \A i \in DOMAIN r.live : (i <= after \/ i > latest) => i \in DOMAIN s.live /\ s.live[i] = r.live[i]

\* What applySessionReadResult does with an answer that is not stale.
LEMMA ApplyKeeps ==
    ASSUME MaxTurn \in Nat, NEW r, StoreOK(r), NEW after \in 0..MaxTurn, NEW m \in TurnMap, NEW latest \in 0..MaxTurn,
           after <= latest, \A i \in DOMAIN m : after < i /\ i <= latest,
           NEW s, s = applySessionReadResult(r, after, m, latest)
    PROVE  Applied(s, r, after, m, latest)
<1> DEFINE top == IF latest > after THEN latest ELSE after
           Outside(x) == {i \in DOMAIN x : i <= after \/ i > top}
           New(f) == {i \in DOMAIN m : m[i].f = f}
           Kept(x, f) == [i \in Outside(x) \cup New(f) |-> IF i \in New(f) THEN m[i] ELSE x[i]]
           u == Kept(r.finished, TRUE)
           v == Kept(r.live, FALSE)
<1>1. s = Settled(u, v)
  <2>1. ~isStaleSessionReadResult(after, latest)
    BY DEF isStaleSessionReadResult
  <2> QED BY <2>1 DEF applySessionReadResult
<1>2. /\ r.finished \in TurnMap /\ r.live \in TurnMap /\ \A k \in DOMAIN r.finished : r.finished[k].f
  BY DEF StoreOK
<1>3. /\ DOMAIN m \subseteq 1..MaxTurn /\ \A i \in DOMAIN m : m[i] \in Turn
      /\ DOMAIN r.finished \subseteq 1..MaxTurn /\ \A i \in DOMAIN r.finished : r.finished[i] \in Turn
      /\ DOMAIN r.live \subseteq 1..MaxTurn
  BY <1>2, TurnMaps
<1>4. top = latest
  OBVIOUS
<1> HIDE DEF top
<1>5. /\ \A i \in DOMAIN m : m[i].f \in BOOLEAN /\ i \notin Outside(r.finished) /\ i \notin Outside(r.live)
  BY <1>3, <1>4 DEF Turn
<1>6. u \in TurnMap /\ DOMAIN u = Outside(r.finished) \cup New(TRUE)
  <2>1. u \in [Outside(r.finished) \cup New(TRUE) -> Turn]
    BY <1>3
  <2>2. Outside(r.finished) \cup New(TRUE) \in SUBSET (1..MaxTurn)
    BY <1>3
  <2> HIDE DEF u, Outside, New
  <2> QED BY <2>1, <2>2, MapFrom
<1>7. \A i \in DOMAIN u : (i \in DOMAIN m => u[i] = m[i]) /\ (i \notin DOMAIN m => u[i] = r.finished[i]) 
  BY <1>5
<1>8. \A i : (i \in DOMAIN r.finished /\ (i <= after \/ i > latest)) => i \in DOMAIN u /\ u[i].f
  BY <1>2, <1>4, <1>5, <1>7
<1>9. \A i : i \in DOMAIN m /\ m[i].f => i \in DOMAIN u /\ u[i].f
  BY <1>5, <1>7
<1>10. DOMAIN v = Outside(r.live) \cup New(FALSE) /\ \A i \in DOMAIN v : v[i] = IF i \in New(FALSE) THEN m[i] ELSE r.live[i]
  OBVIOUS
<1> HIDE DEF u, v
<1>11. /\ s.live = v /\ \A i \in DOMAIN s.finished : i \in DOMAIN u /\ s.finished[i] = u[i]
  BY <1>1, <1>6, SettledFacts
<1>12. ASSUME NEW n \in 0..MaxTurn, \A i \in 1..n : \/ i \in DOMAIN r.finished /\ (i <= after \/ i > latest)
                                                    \/ i \in DOMAIN m /\ m[i].f
       PROVE  n <= s.cursor
  <2>1. \A i \in 1..n : i \in DOMAIN u /\ u[i].f
    BY <1>8, <1>9, <1>12
  <2> QED BY <1>1, <1>6, <2>1, CursorAtLeast
<1>13. \A i \in DOMAIN s.finished : s.finished[i] = IF i \in DOMAIN m THEN m[i] ELSE r.finished[i]
  BY <1>7, <1>11
<1>14. \A i \in DOMAIN s.live : \/ i \in DOMAIN r.live /\ s.live[i] = r.live[i]
                                \/ i \in DOMAIN m /\ s.live[i] = m[i]
  BY <1>10, <1>11
<1>15. \A i \in DOMAIN m : ~m[i].f => i \in DOMAIN s.live /\ s.live[i] = m[i]
  BY <1>5, <1>10, <1>11
<1>16. \A i \in DOMAIN r.live : (i <= after \/ i > latest) => i \in DOMAIN s.live /\ s.live[i] = r.live[i]
  BY <1>4, <1>5, <1>10, <1>11
<1> QED BY <1>12, <1>13, <1>14, <1>15, <1>16 DEF Applied

\* The cached prefix takes no finished turn back.
LEMMA MergeCachedKeeps ==
    ASSUME MaxTurn \in Nat, NEW r, StoreOK(r), NEW m \in TurnMap, NEW s, s = mergeCachedTurnPrefix(r, m)
    PROVE  /\ r.cursor <= s.cursor
           /\ \A i \in DOMAIN s.live : \/ i \in DOMAIN r.live /\ s.live[i] = r.live[i]
                                       \/ i \in DOMAIN m /\ s.live[i] = m[i]
<1> DEFINE c == hydrateFinishedStore(m)
<1>1. /\ c.cursor \in 0..MaxTurn /\ c.finished \in TurnMap /\ DOMAIN c.finished = 1..c.cursor
      /\ \A i \in DOMAIN c.finished : i \in DOMAIN m /\ c.finished[i] = m[i] /\ m[i].f
  BY SettledFacts DEF hydrateFinishedStore
<1>2. s = IF c.cursor = 0 THEN r ELSE applySessionReadResult(r, 0, c.finished, c.cursor)
  BY DEF mergeCachedTurnPrefix
<1>3. r.cursor \in 0..MaxTurn /\ DOMAIN r.finished = 1..r.cursor
  BY DEF StoreOK
<1> HIDE DEF c
<1>4. CASE c.cursor = 0
  BY <1>2, <1>3, <1>4
<1>5. CASE c.cursor # 0
  <2>1. Applied(s, r, 0, c.finished, c.cursor)
    <3>1. 0 \in 0..MaxTurn /\ 0 <= c.cursor /\ \A i \in DOMAIN c.finished : 0 < i /\ i <= c.cursor
      BY <1>1
    <3>2. s = applySessionReadResult(r, 0, c.finished, c.cursor)
      BY <1>2, <1>5
    <3> QED BY <1>1, <3>1, <3>2, ApplyKeeps
  <2>2. \A i \in 1..r.cursor : \/ i \in DOMAIN r.finished /\ (i <= 0 \/ i > c.cursor)
                               \/ i \in DOMAIN c.finished /\ c.finished[i].f
    BY <1>1, <1>3
  <2> QED BY <1>1, <1>3, <2>1, <2>2 DEF Applied
<1> QED BY <1>4, <1>5

\* What comes from maps that are not ahead is not ahead.
LEMMA AheadFrom ==
    ASSUME NEW n, NEW a, NEW b, NEW box, NEW l, Ahead(a, box, l), Ahead(b, box, l),
           \A i \in DOMAIN n : (i \in DOMAIN a /\ n[i] = a[i]) \/ (i \in DOMAIN b /\ n[i] = b[i])
    PROVE  Ahead(n, box, l)
BY DEF Ahead, BehindLog, Before

\* Nor is it with fewer messages.
LEMMA AheadShorter ==
    ASSUME NEW m, NEW l, NEW box, NEW rest, NEW n \in Nat, Ahead(m, box, l),
           \A k \in 1..Len(rest) : k + n \in 1..Len(box) /\ rest[k] = box[k + n]
    PROVE  Ahead(m, rest, l)
BY DEF Ahead

\* A finished prefix that is not ahead of the log shows its turns.
LEMMA FinalShown ==
    ASSUME NEW s, StoreOK(s), NEW l, BehindLog(s.finished, l)
    PROVE  \A i \in 1..s.cursor : i \in 1..Len(l) /\ ShownIn(s, i, l[i])
BY DEF StoreOK, BehindLog, Upto, ShownIn

\* A read that starts at the cursor brings everything else.
LEMMA ReadCovers ==
    ASSUME MaxTurn \in Nat, NEW s, StoreOK(s), NEW l \in Seq(Turn), BehindLog(s.finished, l), NEW rd, NEW q, NEW box,
           NEW j \in Jobs, rd[j].state = "asked", rd[j].after \in Nat, rd[j].after <= s.cursor
    PROVE  \A i \in 1..Len(l) : Coming(i, l[i], s, box, rd, q)
<1> SUFFICES ASSUME NEW i \in 1..Len(l) PROVE Coming(i, l[i], s, box, rd, q)
  OBVIOUS
<1>1. s.cursor \in 0..MaxTurn
  BY DEF StoreOK
<1>2. CASE i <= s.cursor
  <2>1. i \in 1..s.cursor
    BY <1>1, <1>2
  <2> QED BY <2>1, FinalShown DEF Coming
<1>3. CASE ~(i <= s.cursor)
  <2>1. rd[j].after < i
    BY <1>1, <1>3
  <2> QED BY <2>1 DEF Coming
<1> QED BY <1>2, <1>3

\* A step that publishes nothing and answers nothing keeps the order when the
\* store and the cache stay behind and no read is ahead of the store.
LEMMA OrderKept ==
    ASSUME SyncInv, OrderInv, log' = log, stamp' = stamp, served' = {}, NEW n \in Nat,
           \A k \in 1..Len(inbox') : k + n \in 1..Len(inbox) /\ inbox'[k] = inbox[k + n],
           \A k \in 1..Len(inbox') : inbox'[k].kind = "read" => reads'[inbox'[k].job].after = reads[inbox'[k].job].after,
           \A j \in Jobs : reads'[j].state # "none" => reads'[j].after <= st'.cursor,
           Ahead(st'.finished, inbox', log), Ahead(st'.live, inbox', log), Ahead(durable', inbox', log)
    PROVE  OrderInv'
<1>1. \A k, l \in 1..Len(inbox') : k < l => Before(Content(inbox'[k]), Content(inbox'[l]))
  <2> SUFFICES ASSUME NEW k \in 1..Len(inbox'), NEW l \in 1..Len(inbox'), k < l
               PROVE  Before(Content(inbox'[k]), Content(inbox'[l]))
    OBVIOUS
  <2>1. k + n < l + n
    <3>1. k \in Nat /\ l \in Nat
      BY DEF SyncInv, WireInv
    <3> QED BY <3>1
  <2> QED BY <2>1 DEF OrderInv
<1>2. \A k \in 1..Len(inbox') : BehindLog(Content(inbox'[k]), log)
  BY DEF OrderInv
<1>3. \A k \in 1..Len(inbox') : inbox'[k].kind = "read" => Whole(inbox'[k], reads'[inbox'[k].job].after)
  BY DEF OrderInv
<1>4. \A i \in 1..Len(log) : log[i].c <= stamp
  BY DEF OrderInv
<1> QED BY <1>1, <1>2, <1>3, <1>4 DEF OrderInv

-----------------------------------------------------------------------------
(* Publications and answers *)

\* The log after a publication.
LEMMA PublicationForm ==
    ASSUME ConstantsAssumption, SyncInv, OrderInv, NEW i, NEW f \in BOOLEAN, Published(i, f)
    PROVE  /\ [c |-> stamp + 1, f |-> f] \in Turn /\ i \in 1..Len(log') /\ log'[i] = [c |-> stamp + 1, f |-> f]
           /\ \A k \in 1..Len(log') : k # i => k \in 1..Len(log) /\ log'[k] = log[k]
           /\ \A k \in 1..Len(log) : k \in 1..Len(log') /\ Upto(log[k], log'[k])
<1> DEFINE t == [c |-> stamp + 1, f |-> f]
<1>1. /\ log \in Seq(Turn) /\ Len(log) \in Nat /\ \A k \in 1..Len(log) : k < Len(log) => log[k].f
      /\ stamp \in Nat /\ stamp < MaxStamp /\ MaxStamp \in Nat
  BY DEF SyncInv, HubInv, Published, ConstantsAssumption
<1>2. log' = IF i > Len(log) THEN Append(log, t) ELSE [log EXCEPT ![i] = t]
  BY DEF Published, Publish
<1>3. t \in Turn /\ t.c = stamp + 1
  BY <1>1 DEF Turn
<1>4. \A k \in 1..Len(log) : log[k].c <= stamp /\ log[k].c \in Nat
  <2>1. \A u \in Turn : u.c \in Nat
    BY <1>1 DEF Turn
  <2>2. \A k \in 1..Len(log) : log[k] \in Turn
    BY <1>1
  <2> QED BY <2>1, <2>2 DEF OrderInv
<1> HIDE DEF t
<1>5. CASE i = Len(log) + 1
  <2>1. log' = Append(log, t)
    BY <1>1, <1>2, <1>5
  <2>2. Len(log') = Len(log) + 1 /\ log'[Len(log) + 1] = t /\ \A k \in 1..Len(log) : log'[k] = log[k]
    BY <1>1, <2>1
  <2> QED BY <1>1, <1>3, <1>5, <2>2 DEF t, Upto
<1>6. CASE i = Len(log) /\ ~Sealed
  <2>1. PICK k \in 1..Len(log) : ~log[k].f
    BY <1>6 DEF Sealed
  <2>2. k = Len(log) /\ i \in 1..Len(log) /\ ~log[i].f
    BY <1>1, <1>6, <2>1
  <2>3. log' = [log EXCEPT ![i] = t]
    BY <1>1, <1>2, <2>2
  <2>4. Len(log') = Len(log) /\ log'[i] = t /\ \A l \in 1..Len(log) : l # i => log'[l] = log[l]
    BY <1>1, <2>2, <2>3
  <2>5. Upto(log[i], log'[i])
    <3>1. log[i].c < t.c
      BY <1>1, <1>3, <1>4, <2>2
    <3> QED BY <2>2, <2>4, <3>1 DEF Upto
  <2>6. \A l \in 1..Len(log) : Upto(log[l], log'[l])
    BY <2>4, <2>5 DEF Upto
  <2> QED BY <1>3, <2>2, <2>4, <2>6 DEF t
<1> QED BY <1>5, <1>6 DEF Published

\* A map that is behind the log stays behind it.
LEMMA StillBehind ==
    ASSUME ConstantsAssumption, SyncInv, SyncInv', NEW m \in TurnMap, BehindLog(m, log),
           \A k \in 1..Len(log) : k \in 1..Len(log') /\ Upto(log[k], log'[k])
    PROVE  BehindLog(m, log')
<1> SUFFICES ASSUME NEW i \in DOMAIN m PROVE i \in 1..Len(log') /\ Upto(m[i], log'[i])
  BY DEF BehindLog
<1>1. i \in 1..Len(log) /\ Upto(m[i], log[i]) /\ i \in 1..Len(log') /\ Upto(log[i], log'[i])
  BY DEF BehindLog
<1>2. m[i] \in Turn /\ log[i] \in Turn /\ log'[i] \in Turn /\ MaxStamp \in Nat
  BY <1>1, TurnsOf DEF SyncInv, HubInv, ConstantsAssumption
<1> QED BY <1>1, <1>2, UptoTrans

\* The maps of the client and of the messages.
LEMMA AllMaps ==
    ASSUME SyncInv
    PROVE  /\ st.finished \in TurnMap /\ st.live \in TurnMap /\ durable \in TurnMap
           /\ \A k \in 1..Len(inbox) : inbox[k] \in TurnMsg \cup ReadMsg /\ Content(inbox[k]) \in TurnMap
           /\ log \in Seq(Turn) /\ inbox \in Seq(TurnMsg \cup ReadMsg) /\ StoreOK(st)
<1>1. inbox \in Seq(TurnMsg \cup ReadMsg)
  BY DEF SyncInv, WireInv
<1>2. \A k \in 1..Len(inbox) : inbox[k] \in TurnMsg \cup ReadMsg
  BY <1>1
<1>3. \A k \in 1..Len(inbox) : Content(inbox[k]) \in TurnMap
  BY <1>2, ContentMap
<1> QED BY <1>1, <1>2, <1>3 DEF SyncInv, HubInv, StoreInv, StoreOK, DurableOK

\* A message that is as late as the log comes last.
LEMMA OrderAdded ==
    ASSUME ConstantsAssumption, SyncInv, OrderInv, SyncInv', NEW m \in TurnMsg \cup ReadMsg, inbox' = Append(inbox, m),
           \A k \in 1..Len(log) : k \in 1..Len(log') /\ Upto(log[k], log'[k]),
           \A i \in DOMAIN Content(m) : i \in 1..Len(log') /\ Content(m)[i] = log'[i],
           \A i \in 1..Len(log') : log'[i].c <= stamp',
           m.kind = "read" => Whole(m, reads'[m.job].after),
           st' = st, durable' = durable, served' = served,
           \A j \in Jobs : reads'[j].after = reads[j].after /\ (reads'[j].state # "none" => reads[j].state # "none")
    PROVE  OrderInv'
<1>1. /\ Len(inbox) \in Nat /\ Len(inbox') = Len(inbox) + 1
      /\ \A k \in 1..Len(inbox') : inbox'[k] = IF k = Len(inbox) + 1 THEN m ELSE inbox[k]
      /\ \A k \in 1..Len(inbox') : k = Len(inbox) + 1 \/ k \in 1..Len(inbox)
  BY MessageAdded DEF SyncInv
<1>2. \A n \in TurnMap : BehindLog(n, log) => BehindLog(n, log') /\ Before(n, Content(m))
  <2> SUFFICES ASSUME NEW n \in TurnMap, BehindLog(n, log) PROVE BehindLog(n, log') /\ Before(n, Content(m))
    OBVIOUS
  <2>1. BehindLog(n, log')
    BY StillBehind
  <2> QED BY <2>1 DEF BehindLog, Before
<1>3. ASSUME NEW n \in TurnMap, Ahead(n, inbox, log) PROVE Ahead(n, inbox', log')
  <2>1. BehindLog(n, log') /\ Before(n, Content(m))
    BY <1>2, <1>3 DEF Ahead
  <2>2. ASSUME NEW k \in 1..Len(inbox') PROVE Before(n, Content(inbox'[k]))
    <3>1. CASE k = Len(inbox) + 1
      BY <1>1, <2>1, <3>1
    <3>2. CASE k \in 1..Len(inbox)
      BY <1>1, <1>3, <3>2 DEF Ahead
    <3> QED BY <1>1, <3>1, <3>2
  <2> QED BY <2>1, <2>2 DEF Ahead
<1>4. \A k \in 1..Len(inbox') : BehindLog(Content(inbox'[k]), log')
  <2> SUFFICES ASSUME NEW k \in 1..Len(inbox') PROVE BehindLog(Content(inbox'[k]), log')
    OBVIOUS
  <2>1. CASE k = Len(inbox) + 1
    BY <1>1, <2>1 DEF BehindLog, Upto
  <2>2. CASE k \in 1..Len(inbox)
    <3>1. inbox'[k] = inbox[k]
      BY <1>1, <2>2
    <3>2. Content(inbox[k]) \in TurnMap /\ BehindLog(Content(inbox[k]), log)
      BY <2>2, AllMaps DEF OrderInv
    <3> QED BY <1>2, <3>1, <3>2
  <2> QED BY <1>1, <2>1, <2>2
<1>5. \A k, l \in 1..Len(inbox') : k < l => Before(Content(inbox'[k]), Content(inbox'[l]))
  <2> SUFFICES ASSUME NEW k \in 1..Len(inbox'), NEW l \in 1..Len(inbox'), k < l
               PROVE  Before(Content(inbox'[k]), Content(inbox'[l]))
    OBVIOUS
  <2>1. k \in 1..Len(inbox) /\ inbox'[k] = inbox[k]
    BY <1>1
  <2>2. CASE l = Len(inbox) + 1
    <3>1. Content(inbox[k]) \in TurnMap /\ BehindLog(Content(inbox[k]), log)
      BY <2>1, AllMaps DEF OrderInv
    <3> QED BY <1>1, <1>2, <2>1, <2>2, <3>1
  <2>3. CASE l \in 1..Len(inbox)
    BY <1>1, <2>1, <2>3 DEF OrderInv
  <2> QED BY <1>1, <2>2, <2>3
<1>6. \A k \in 1..Len(inbox') : inbox'[k].kind = "read" => Whole(inbox'[k], reads'[inbox'[k].job].after)
  <2> SUFFICES ASSUME NEW k \in 1..Len(inbox'), inbox'[k].kind = "read" PROVE Whole(inbox'[k], reads'[inbox'[k].job].after)
    OBVIOUS
  <2>1. CASE k = Len(inbox) + 1
    BY <1>1, <2>1
  <2>2. CASE k \in 1..Len(inbox)
    <3>1. inbox'[k] = inbox[k]
      BY <1>1, <2>2
    <3>2. inbox[k].job \in Jobs
      BY <2>2, <3>1, AllMaps DEF TurnMsg, ReadMsg
    <3> QED BY <2>2, <3>1, <3>2 DEF OrderInv
  <2> QED BY <1>1, <2>1, <2>2
<1>7. \A j \in Jobs : reads'[j].state # "none" => reads'[j].after <= st'.cursor
  BY DEF OrderInv
<1>8. Ahead(st.finished, inbox', log') /\ Ahead(st.live, inbox', log') /\ Ahead(durable, inbox', log')
  BY <1>3, AllMaps DEF OrderInv
<1>9. served' = {}
  BY DEF OrderInv
<1> QED BY <1>4, <1>5, <1>6, <1>7, <1>8, <1>9 DEF OrderInv

-----------------------------------------------------------------------------
(* What the reads leave to come *)

\* What was coming is coming still when nothing of it is taken away.
LEMMA ComingKept ==
    ASSUME NEW i, NEW t, NEW s, NEW box, NEW rd, NEW q, NEW s1, NEW box1, NEW rd1, NEW q1, Coming(i, t, s, box, rd, q),
           ShownIn(s, i, t) => Coming(i, t, s1, box1, rd1, q1),
           \A k \in 1..Len(box) : \/ \E l \in 1..Len(box1) : box1[l] = box[k]
                                  \/ i \in DOMAIN Content(box[k]) /\ Content(box[k])[i] = t => Coming(i, t, s1, box1, rd1, q1),
           \A j \in Jobs : rd[j].state = "asked" /\ rd[j].after < i =>
                             \/ rd1[j].state = "asked" /\ rd1[j].after = rd[j].after
                             \/ Coming(i, t, s1, box1, rd1, q1),
           q.pending => Coming(i, t, s1, box1, rd1, q1)
    PROVE  Coming(i, t, s1, box1, rd1, q1)
<1>1. CASE ShownIn(s, i, t)
  BY <1>1
<1>2. CASE \E k \in 1..Len(box) : i \in DOMAIN Content(box[k]) /\ Content(box[k])[i] = t
  <2>1. PICK k \in 1..Len(box) : i \in DOMAIN Content(box[k]) /\ Content(box[k])[i] = t
    BY <1>2
  <2>2. CASE \E l \in 1..Len(box1) : box1[l] = box[k]
    <3>1. PICK l \in 1..Len(box1) : box1[l] = box[k]
      BY <2>2
    <3>2. i \in DOMAIN Content(box1[l]) /\ Content(box1[l])[i] = t
      BY <2>1, <3>1
    <3> QED BY <3>2 DEF Coming
  <2> QED BY <2>1, <2>2
<1>3. CASE \E j \in Jobs : rd[j].state = "asked" /\ rd[j].after < i
  <2>1. PICK j \in Jobs : rd[j].state = "asked" /\ rd[j].after < i
    BY <1>3
  <2>2. CASE rd1[j].state = "asked" /\ rd1[j].after = rd[j].after
    BY <2>1, <2>2 DEF Coming
  <2> QED BY <2>1, <2>2
<1>4. CASE q.pending
  BY <1>4
<1> QED BY <1>1, <1>2, <1>3, <1>4 DEF Coming

\* request() on a connection that is ready: a read from the cursor is asked now or
\* follows the one under way.
LEMMA RequestEffect ==
    ASSUME ConstantsAssumption, ReadsInv, NEW s, StoreOK(s), NEW cursor, NEW run, Request(cursor, run, s)
    PROVE  /\ \A k \in Jobs : k # "repair" => reads'[k] = reads[k]
           /\ reads' = reads \/ (reads["repair"].state = "none" /\ reads'["repair"].after = s.cursor)
           /\ \/ ~ready
              \/ rq'.pending
              \/ reads'["repair"].state = "asked" /\ reads'["repair"].after = s.cursor
<1>1. /\ "repair" \in Jobs /\ reads \in [Jobs -> Reads] /\ rq \in Queue /\ (rq.inFlight <=> reads["repair"].state # "none")
  BY DEF Jobs, ReadsInv, RepairMatchesRead
<1>2. CASE ~ready
  BY <1>2 DEF Request
<1>3. CASE ready /\ rq.inFlight
  <2>1. reads' = reads
    BY <1>3 DEF Request
  <2>2. rq'.pending = TRUE
    <3>1. rq' = [rq EXCEPT !.nextCursor = IF cursor > rq.nextCursor THEN cursor ELSE rq.nextCursor,
                           !.nextRun = run, !.pending = TRUE]
      BY <1>3 DEF Request
    <3> QED BY <1>1, <3>1 DEF Queue
  <2> QED BY <2>1, <2>2
<1>4. CASE ready /\ ~rq.inFlight
  <2>1. reads' = [reads EXCEPT !["repair"] = RunRead(run, s)]
    BY <1>4 DEF Request
  <2>2. RunRead(run, s).state = "asked" /\ RunRead(run, s).after = s.cursor
    BY DEF RunRead, StartRead
  <2> QED BY <1>1, <1>4, <2>1, <2>2
<1> QED BY <1>2, <1>3, <1>4

\* The end of a read: it starts again from the cursor when it was asked for
\* meanwhile.
LEMMA EndReadEffect ==
    ASSUME ConstantsAssumption, ReadsInv, NEW s, NEW c, NEW j \in Jobs, EndRead(j, s, c)
    PROVE  /\ \A k \in Jobs : k # j => reads'[k] = reads[k]
           /\ reads'[j].state = "none" \/ (reads'[j].state = "asked" /\ reads'[j].after = s.cursor)
           /\ rq.pending => rq'.pending \/ (reads'[j].state = "asked" /\ reads'[j].after = s.cursor)
<1>1. /\ "repair" \in Jobs /\ reads \in [Jobs -> Reads] /\ NoRead.state = "none"
  BY DEF Jobs, ReadsInv, NoRead
<1>2. CASE j # "repair"
  <2>1. reads' = [reads EXCEPT ![j] = NoRead] /\ rq' = rq
    BY <1>2 DEF EndRead
  <2> QED BY <1>1, <2>1
<1>3. CASE j = "repair" /\ rq.pending
  <2>1. reads' = [reads EXCEPT !["repair"] = RunRead(rq.nextRun, s)]
    BY <1>3 DEF EndRead, Drain
  <2>2. RunRead(rq.nextRun, s).state = "asked" /\ RunRead(rq.nextRun, s).after = s.cursor
    BY DEF RunRead, StartRead
  <2> QED BY <1>1, <1>3, <2>1, <2>2
<1>4. CASE j = "repair" /\ ~rq.pending
  <2>1. reads' = [reads EXCEPT !["repair"] = NoRead]
    BY <1>4 DEF EndRead, Drain
  <2> QED BY <1>1, <1>4, <2>1
<1> QED BY <1>2, <1>3, <1>4

\* The reads whose answers are on their way stay as they are.
LEMMA HeardReadsStay ==
    ASSUME SyncInv, NEW j \in Jobs, \A k \in Jobs : k # j => reads'[k] = reads[k], NEW n \in Nat,
           \A k \in 1..Len(inbox') : k + n \in 1..Len(inbox) /\ inbox'[k] = inbox[k + n],
           \/ reads'[j] = reads[j]
           \/ reads[j].state # "answered"
           \/ n = 1 /\ 1 \in 1..Len(inbox) /\ inbox[1].kind = "read" /\ inbox[1].job = j
    PROVE  \A k \in 1..Len(inbox') : inbox'[k].kind = "read" =>
              reads'[inbox'[k].job] = reads[inbox'[k].job] /\ reads[inbox'[k].job].state = "answered"
<1> SUFFICES ASSUME NEW k \in 1..Len(inbox'), inbox'[k].kind = "read"
             PROVE  reads'[inbox'[k].job] = reads[inbox'[k].job] /\ reads[inbox'[k].job].state = "answered"
  OBVIOUS
<1>1. k + n \in 1..Len(inbox) /\ inbox'[k] = inbox[k + n]
  OBVIOUS
<1>2. inbox'[k].job \in Jobs /\ reads[inbox'[k].job].state = "answered"
  BY <1>1, AllMaps DEF TurnMsg, ReadMsg, SyncInv, FlightInv, Fits
<1>3. CASE n = 1 /\ 1 \in 1..Len(inbox) /\ inbox[1].kind = "read" /\ inbox[1].job = j
  <2>1. k + n # 1
    <3>1. k \in Nat /\ k >= 1
      BY <1>1, <1>3
    <3> QED BY <1>3, <3>1
  <2>2. inbox'[k].job # j
    BY <1>1, <1>3, <2>1 DEF SyncInv, FlightInv
  <2> QED BY <1>2, <2>2
<1> QED BY <1>2, <1>3

-----------------------------------------------------------------------------
(* The steps of the hub *)

\* A publication is behind everything that is on its way, and it is on its way
\* itself.
LEMMA PublishOrder ==
    ASSUME ConstantsAssumption, SyncInv, SyncInv', OrderInv, NEW i, NEW f \in BOOLEAN, Published(i, f)
    PROVE  OrderInv' /\ st' = st /\ (ComingInv => ComingInv')
<1> DEFINE t == [c |-> stamp + 1, f |-> f]
           m == [kind |-> "turn", i |-> i, t |-> t]
<1>1. /\ stamp' = stamp + 1 /\ inbox' = (IF online THEN Append(inbox, m) ELSE inbox)
      /\ link' = link /\ served' = served /\ budget' = budget /\ st' = st /\ sel' = sel /\ reads' = reads /\ rq' = rq
      /\ durable' = durable
  BY DEF Published, Publish, client
<1>2. /\ t \in Turn /\ i \in 1..Len(log') /\ log'[i] = t
      /\ \A k \in 1..Len(log') : k # i => k \in 1..Len(log) /\ log'[k] = log[k]
      /\ \A k \in 1..Len(log) : k \in 1..Len(log') /\ Upto(log[k], log'[k])
  BY PublicationForm
<1>3. \A k \in 1..Len(log') : log'[k].c <= stamp'
  <2>1. stamp \in Nat /\ t.c = stamp + 1
    BY DEF SyncInv, HubInv
  <2>2. \A k \in 1..Len(log) : log[k].c <= stamp /\ log[k].c \in Nat
    <3>1. \A u \in Turn : u.c \in Nat
      BY DEF Turn
    <3> QED BY <3>1, AllMaps DEF OrderInv
  <2> HIDE DEF t
  <2> QED BY <1>1, <1>2, <2>1, <2>2
<1>4. m \in TurnMsg /\ m.kind = "turn" /\ m.i = i /\ m.t = t
  <2>1. i \in 1..MaxTurn
    BY <1>2 DEF SyncInv, HubInv, ConstantsAssumption
  <2> HIDE DEF t
  <2> QED BY <1>2, <2>1 DEF TurnMsg
<1> HIDE DEF m, t
<1>5. CASE online
  <2>1. inbox' = Append(inbox, m)
    BY <1>1, <1>5
  <2>2. DOMAIN Content(m) = {i} /\ Content(m)[i] = t
    BY <1>4, ContentMap
  <2>3. OrderInv'
    <3>1. \A l \in DOMAIN Content(m) : l \in 1..Len(log') /\ Content(m)[l] = log'[l]
      BY <1>2, <2>2
    <3>2. m \in TurnMsg \cup ReadMsg /\ m.kind # "read"
      BY <1>4
    <3> QED BY <1>1, <1>2, <1>3, <2>1, <3>1, <3>2, OrderAdded
  <2>4. ASSUME ComingInv PROVE ComingInv'
    <3>1. /\ Len(inbox) \in Nat /\ Len(inbox') = Len(inbox) + 1
          /\ \A k \in 1..Len(inbox') : inbox'[k] = IF k = Len(inbox) + 1 THEN m ELSE inbox[k]
      BY <1>4, <2>1, MessageAdded DEF SyncInv
    <3>2. /\ \A k \in 1..Len(inbox) : \E l \in 1..Len(inbox') : inbox'[l] = inbox[k]
          /\ Len(inbox') \in 1..Len(inbox') /\ inbox'[Len(inbox')] = m
      BY <3>1
    <3>3. ASSUME NEW k \in 1..Len(log'), link.at = "synced", sel PROVE Coming(k, log'[k], st, inbox', reads, rq)
      <4>1. CASE k = i
        <5>1. k \in DOMAIN Content(inbox'[Len(inbox')]) /\ Content(inbox'[Len(inbox')])[k] = log'[k]
          BY <1>2, <2>2, <3>2, <4>1
        <5> QED BY <3>2, <5>1 DEF Coming
      <4>2. CASE k # i
        <5>1. k \in 1..Len(log) /\ log'[k] = log[k]
          BY <1>2, <4>2
        <5>2. Coming(k, log'[k], st, inbox, reads, rq)
          BY <2>4, <3>3, <5>1 DEF ComingInv
        <5>3. ShownIn(st, k, log'[k]) => Coming(k, log'[k], st, inbox', reads, rq)
          BY DEF Coming
        <5>4. rq.pending => Coming(k, log'[k], st, inbox', reads, rq)
          BY DEF Coming
        <5> QED BY <3>2, <5>2, <5>3, <5>4, ComingKept
      <4> QED BY <4>1, <4>2
    <3> QED BY <1>1, <2>4, <3>3 DEF ComingInv
  <2> QED BY <1>1, <2>3, <2>4
<1>6. CASE ~online
  <2>1. inbox' = <<>> /\ inbox = <<>> /\ 1..Len(inbox') = {}
    BY <1>1, <1>6 DEF SyncInv, FlightInv
  <2>2. ASSUME NEW n \in TurnMap, Ahead(n, inbox, log) PROVE Ahead(n, inbox', log')
    <3>1. BehindLog(n, log')
      BY <1>2, <2>2, StillBehind DEF Ahead
    <3> QED BY <2>1, <3>1 DEF Ahead
  <2>3. Ahead(st.finished, inbox', log') /\ Ahead(st.live, inbox', log') /\ Ahead(durable, inbox', log')
    BY <2>2, AllMaps DEF OrderInv
  <2>4. OrderInv'
    BY <1>1, <1>3, <2>1, <2>3 DEF OrderInv
  <2>5. ComingInv => ComingInv'
    BY <1>1, <1>6 DEF ComingInv, online
  <2> QED BY <1>1, <2>4, <2>5
<1> QED BY <1>5, <1>6

\* A finished prefix that is not ahead of the log is not longer.
LEMMA CursorInLog ==
    ASSUME SyncInv, OrderInv
    PROVE  st.cursor <= Len(log) /\ st.cursor \in Nat /\ Len(log) \in Nat
<1>1. st.cursor \in Nat /\ DOMAIN st.finished = 1..st.cursor /\ Len(log) \in Nat
  BY DEF SyncInv, StoreInv, StoreOK, HubInv
<1>2. \A i \in 1..st.cursor : i \in 1..Len(log)
  BY <1>1 DEF OrderInv, Ahead, BehindLog
<1>3. CASE st.cursor = 0
  BY <1>1, <1>3
<1>4. CASE st.cursor # 0
  <2>1. st.cursor \in 1..st.cursor
    BY <1>1, <1>4
  <2> QED BY <1>1, <1>2, <2>1
<1> QED BY <1>1, <1>3, <1>4

\* An answer has all turns after the checkpoint, as the log has them.
LEMMA AnswerWhole ==
    ASSUME SyncInv, NEW j \in Jobs, reads[j].after <= Len(log)
    PROVE  Whole(Answer(j), reads[j].after)
<1> DEFINE D == {k \in 1..Len(log) : k > reads[j].after}
<1>1. Answer(j).latest = Len(log) /\ Answer(j).turns = [i \in D |-> log[i]]
  BY DEF Answer
<1>2. /\ reads[j].after \in Nat /\ Len(log) \in Nat /\ \A k \in 1..Len(log) : k < Len(log) => log[k].f
  BY DEF SyncInv, HubInv, ReadsInv, Reads
<1>4. DOMAIN Answer(j).turns = D /\ \A i \in D : i \in 1..Len(log) /\ Answer(j).turns[i] = log[i]
  BY <1>1
<1>5. D = {i \in 1..Len(log) : reads[j].after < i}
  BY <1>2
<1> HIDE DEF D
<1>6. \A i \in DOMAIN Answer(j).turns : i < Len(log) => Answer(j).turns[i].f
  BY <1>2, <1>4
<1> QED BY <1>1, <1>4, <1>5, <1>6 DEF Whole

\* An answer that is sent at once brings what its read was asked for.
LEMMA AnswerOrder ==
    ASSUME ConstantsAssumption, SyncInv, SyncInv', OrderInv, NEW j \in Jobs, AnswerRead(j), InTime
    PROVE  OrderInv' /\ st' = st /\ (ComingInv => ComingInv')
<1> DEFINE a == Answer(j)
<1>1. /\ reads[j].state = "asked" /\ reads' = [reads EXCEPT ![j] = [reads[j] EXCEPT !.state = "answered"]]
      /\ log' = log /\ stamp' = stamp /\ link' = link /\ st' = st /\ sel' = sel /\ rq' = rq
      /\ durable' = durable /\ inbox' = Append(inbox, a) /\ served' = served
  <2>1. budget \in Budget
    BY DEF SyncInv, FlagsInv
  <2>2. ~(budget.lates > 0 /\ budget' = [budget EXCEPT !.lates = budget.lates - 1])
    BY <2>1 DEF InTime, Budget
  <2> QED BY <2>2 DEF AnswerRead, Asked, hub
<1>2. /\ a \in ReadMsg /\ a.job = j /\ a.kind = "read" /\ a.latest = Len(log)
      /\ \A i \in DOMAIN a.turns : i \in 1..Len(log) /\ a.turns[i] = log[i]
  BY AnswerForm DEF SyncInv
<1>3. Whole(a, reads[j].after)
  <2>1. reads[j].after \in Nat /\ reads[j].after <= st.cursor
    BY <1>1 DEF OrderInv, SyncInv, ReadsInv, Reads
  <2>2. reads[j].after <= Len(log)
    BY <2>1, CursorInLog
  <2> QED BY <2>2, AnswerWhole
<1> HIDE DEF a
<1>4. Content(a) = a.turns /\ a \in TurnMsg \cup ReadMsg
  <2>1. "read" # "turn"
    OBVIOUS
  <2> QED BY <1>2, <2>1 DEF Content
<1>5. /\ reads'[j].after = reads[j].after /\ \A k \in Jobs : k # j => reads'[k] = reads[k]
  BY <1>1 DEF SyncInv, ReadsInv, Reads
<1>6. OrderInv'
  <2>1. \A k \in 1..Len(log) : k \in 1..Len(log') /\ Upto(log[k], log'[k])
    BY <1>1 DEF Upto
  <2>2. \A k \in 1..Len(log') : log'[k].c <= stamp'
    BY <1>1 DEF OrderInv
  <2>3. \A i \in DOMAIN Content(a) : i \in 1..Len(log') /\ Content(a)[i] = log'[i]
    BY <1>1, <1>2, <1>4
  <2>4. \A k \in Jobs : reads'[k].after = reads[k].after /\ (reads'[k].state # "none" => reads[k].state # "none")
    BY <1>1, <1>5
  <2>5. a.kind = "read" => Whole(a, reads'[a.job].after)
    BY <1>2, <1>3, <1>5
  <2> QED BY <1>1, <1>4, <2>1, <2>2, <2>3, <2>4, <2>5, OrderAdded
<1>7. ASSUME ComingInv PROVE ComingInv'
  <2>1. /\ Len(inbox) \in Nat /\ Len(inbox') = Len(inbox) + 1
        /\ \A k \in 1..Len(inbox') : inbox'[k] = IF k = Len(inbox) + 1 THEN a ELSE inbox[k]
    BY <1>1, <1>4, MessageAdded DEF SyncInv
  <2>2. /\ \A k \in 1..Len(inbox) : \E l \in 1..Len(inbox') : inbox'[l] = inbox[k]
        /\ Len(inbox') \in 1..Len(inbox') /\ inbox'[Len(inbox')] = a
    BY <2>1
  <2>3. ASSUME NEW i \in 1..Len(log), link.at = "synced", sel PROVE Coming(i, log[i], st, inbox', reads', rq)
    <3>1. Coming(i, log[i], st, inbox, reads, rq)
      BY <1>7, <2>3 DEF ComingInv
    <3>2. ASSUME reads[j].after < i PROVE Coming(i, log[i], st, inbox', reads', rq)
      <4>1. i \in DOMAIN Content(a) /\ Content(a)[i] = log[i]
        BY <1>2, <1>3, <1>4, <3>2 DEF Whole
      <4> QED BY <2>2, <4>1 DEF Coming
    <3>3. \A k \in Jobs : reads[k].state = "asked" /\ reads[k].after < i =>
                            \/ reads'[k].state = "asked" /\ reads'[k].after = reads[k].after
                            \/ Coming(i, log[i], st, inbox', reads', rq)
      BY <1>5, <3>2
    <3>4. ShownIn(st, i, log[i]) => Coming(i, log[i], st, inbox', reads', rq)
      BY DEF Coming
    <3>5. rq.pending => Coming(i, log[i], st, inbox', reads', rq)
      BY DEF Coming
    <3> QED BY <2>2, <3>1, <3>3, <3>4, <3>5, ComingKept
  <2> QED BY <1>1, <1>7, <2>3 DEF ComingInv
<1> QED BY <1>1, <1>6, <1>7

-----------------------------------------------------------------------------
(* The messages arrive *)

\* What is taken from the connection is not ahead of the rest.
LEMMA HeadAhead ==
    ASSUME SyncInv, OrderInv, inbox # <<>>, inbox' = Tail(inbox)
    PROVE  /\ Head(inbox) = inbox[1] /\ 1 \in 1..Len(inbox) /\ inbox[1] \in TurnMsg \cup ReadMsg
           /\ \A k \in 1..Len(inbox') : k + 1 \in 1..Len(inbox) /\ inbox'[k] = inbox[k + 1]
           /\ \A k \in 1..Len(inbox) : k = 1 \/ \E l \in 1..Len(inbox') : inbox'[l] = inbox[k]
           /\ Ahead(Content(inbox[1]), inbox', log)
           /\ Ahead(st.finished, inbox', log) /\ Ahead(st.live, inbox', log) /\ Ahead(durable, inbox', log)
<1>1. /\ Head(inbox) = inbox[1] /\ 1 \in 1..Len(inbox) /\ inbox[1] \in TurnMsg \cup ReadMsg
      /\ \A k \in 1..Len(inbox') : inbox'[k] = inbox[k + 1] /\ k + 1 \in 1..Len(inbox) /\ k + 1 # 1
  BY MessageTaken DEF SyncInv
<1>2. \A k \in 1..Len(inbox') : 1 < k + 1
  <2>1. \A k \in 1..Len(inbox') : k \in Nat /\ k >= 1
    BY DEF SyncInv, WireInv
  <2> QED BY <2>1
<1>3. Ahead(Content(inbox[1]), inbox', log)
  <2>1. BehindLog(Content(inbox[1]), log)
    BY <1>1 DEF OrderInv
  <2>2. \A k \in 1..Len(inbox') : Before(Content(inbox[1]), Content(inbox'[k]))
    BY <1>1, <1>2 DEF OrderInv
  <2> QED BY <2>1, <2>2 DEF Ahead
<1>4. ASSUME NEW m, Ahead(m, inbox, log) PROVE Ahead(m, inbox', log)
  BY <1>1, <1>4 DEF Ahead
<1>5. ASSUME NEW k \in 1..Len(inbox), k # 1 PROVE \E l \in 1..Len(inbox') : inbox'[l] = inbox[k]
  <2>1. inbox \in Seq(TurnMsg \cup ReadMsg) /\ Len(inbox) \in Nat
    BY DEF SyncInv, WireInv
  <2>2. Len(inbox') = Len(inbox) - 1
    BY <2>1
  <2>3. k - 1 \in 1..Len(inbox') /\ (k - 1) + 1 = k
    BY <1>5, <2>1, <2>2
  <2> QED BY <1>1, <2>3
<1> QED BY <1>1, <1>3, <1>4, <1>5 DEF OrderInv

\* A published turn arrives: nothing later is overwritten, and a hole is read.
LEMMA ReceiveTurnOrder ==
    ASSUME ConstantsAssumption, SyncInv, SyncInv', OrderInv, Receive, Head(inbox).kind = "turn"
    PROVE  OrderInv' /\ st.cursor <= st'.cursor /\ (ComingInv => ComingInv')
<1> DEFINE m == Head(inbox)
<1>1. /\ inbox # <<>> /\ inbox' = Tail(inbox) /\ ReceiveTurn(m.i, m.t) /\ log' = log /\ stamp' = stamp
      /\ link' = link /\ served' = served /\ sel' = sel /\ budget' = budget
  BY DEF Receive, hub
<1>2. /\ m = inbox[1] /\ 1 \in 1..Len(inbox) /\ m \in TurnMsg \cup ReadMsg
      /\ \A k \in 1..Len(inbox') : k + 1 \in 1..Len(inbox) /\ inbox'[k] = inbox[k + 1]
      /\ \A k \in 1..Len(inbox) : k = 1 \/ \E l \in 1..Len(inbox') : inbox'[l] = inbox[k]
      /\ Ahead(Content(m), inbox', log)
      /\ Ahead(st.finished, inbox', log) /\ Ahead(st.live, inbox', log) /\ Ahead(durable, inbox', log)
  BY <1>1, HeadAhead
<1>3. m.i \in 1..MaxTurn /\ m.t \in Turn /\ DOMAIN Content(m) = {m.i} /\ Content(m)[m.i] = m.t
  BY <1>2, ContentMap DEF TurnMsg
<1>4. /\ st' = mergeRealtimeTurn(st, m.i, m.t) /\ durable' = durable
      /\ \/ m.i > st.cursor + 1 /\ Request(st.cursor, "gap", st')
         \/ ~(m.i > st.cursor + 1) /\ reads' = reads /\ rq' = rq
  BY <1>1 DEF ReceiveTurn, shouldReadRepairForIncomingTurn
<1> HIDE DEF m
<1>5. /\ MaxTurn \in Nat /\ MaxStamp \in Nat /\ StoreOK(st) /\ StoreOK(st') /\ st.cursor \in Nat /\ st'.cursor \in Nat
  BY DEF ConstantsAssumption, SyncInv, StoreInv, StoreOK
<1>6. m.i \in DOMAIN st.finished => st.finished[m.i] = m.t
  <2>1. Before(st.finished, Content(m)) /\ \A k \in DOMAIN st.finished : st.finished[k].f
    BY <1>2, <1>5 DEF OrderInv, Ahead, StoreOK
  <2> QED BY <1>3, <2>1 DEF Before, Upto
<1>7. /\ st.cursor <= st'.cursor
      /\ \A k \in DOMAIN st.finished : k \in DOMAIN st'.finished /\ st'.finished[k] = st.finished[k]
      /\ \A k \in DOMAIN st'.live : (k \in DOMAIN st.live /\ st'.live[k] = st.live[k]) \/ (k = m.i /\ st'.live[k] = m.t)
      /\ \A k \in DOMAIN st.live : k # m.i => k \in DOMAIN st'.live /\ st'.live[k] = st.live[k]
      /\ m.i <= st.cursor + 1 \/ ~m.t.f => ShownIn(st', m.i, m.t)
  BY <1>3, <1>4, <1>5, <1>6, MergeRealtimeKeeps
<1>8. /\ \A k \in DOMAIN st'.finished :
           \/ k \in DOMAIN st.finished /\ st'.finished[k] = st.finished[k]
           \/ k = m.i /\ st'.finished[k] = m.t
  BY <1>3, <1>4, <1>5, MergeRealtime
<1>9. Ahead(st'.finished, inbox', log) /\ Ahead(st'.live, inbox', log)
  <2>1. Ahead(st'.finished, inbox', log)
    <3>1. \A k \in DOMAIN st'.finished : \/ k \in DOMAIN st.finished /\ st'.finished[k] = st.finished[k]
                                         \/ k \in DOMAIN Content(m) /\ st'.finished[k] = Content(m)[k]
      BY <1>3, <1>8
    <3> QED BY <1>2, <3>1, AheadFrom
  <2>2. Ahead(st'.live, inbox', log)
    <3>1. \A k \in DOMAIN st'.live : \/ k \in DOMAIN st.live /\ st'.live[k] = st.live[k]
                                     \/ k \in DOMAIN Content(m) /\ st'.live[k] = Content(m)[k]
      BY <1>3, <1>7
    <3> QED BY <1>2, <3>1, AheadFrom
  <2> QED BY <2>1, <2>2
<1>10. /\ \A k \in Jobs : k # "repair" => reads'[k] = reads[k]
       /\ reads' = reads \/ (reads["repair"].state = "none" /\ reads'["repair"].after = st'.cursor)
       /\ \/ ~(m.i > st.cursor + 1) /\ reads' = reads /\ rq' = rq
          \/ ~ready
          \/ rq'.pending
          \/ reads'["repair"].state = "asked" /\ reads'["repair"].after = st'.cursor
  <2>1. CASE m.i > st.cursor + 1 /\ Request(st.cursor, "gap", st')
    BY <1>5, <2>1, RequestEffect DEF SyncInv
  <2> QED BY <1>4, <2>1
<1>11. "repair" \in Jobs /\ \A j \in Jobs : reads[j].after \in Nat
  BY DEF Jobs, SyncInv, ReadsInv, Reads
<1>12. OrderInv'
  <2>1. \A j \in Jobs : reads'[j].state # "none" => reads'[j].after <= st'.cursor
    <3> SUFFICES ASSUME NEW j \in Jobs, reads'[j].state # "none" PROVE reads'[j].after <= st'.cursor
      OBVIOUS
    <3>1. CASE reads'[j] = reads[j]
      BY <1>5, <1>7, <1>11, <3>1 DEF OrderInv
    <3>2. CASE reads'[j] # reads[j]
      BY <1>5, <1>10, <3>2
    <3> QED BY <3>1, <3>2
  <2>2. \A k \in 1..Len(inbox') : inbox'[k].kind = "read" => reads'[inbox'[k].job].after = reads[inbox'[k].job].after
    <3>1. reads'["repair"] = reads["repair"] \/ reads["repair"].state # "answered"
      BY <1>10
    <3>2. 1 \in Nat
      OBVIOUS
    <3>3. \A k \in 1..Len(inbox') : inbox'[k].kind = "read" =>
              reads'[inbox'[k].job] = reads[inbox'[k].job] /\ reads[inbox'[k].job].state = "answered"
      BY <1>2, <1>10, <1>11, <3>1, <3>2, HeardReadsStay
    <3> QED BY <3>3
  <2>3. served' = {} /\ Ahead(durable', inbox', log)
    BY <1>1, <1>2, <1>4 DEF OrderInv
  <2>4. 1 \in Nat
    OBVIOUS
  <2> QED BY <1>1, <1>2, <1>9, <2>1, <2>2, <2>3, <2>4, OrderKept
<1>13. ASSUME ComingInv PROVE ComingInv'
  <2>1. ASSUME NEW i \in 1..Len(log), link.at = "synced", sel PROVE Coming(i, log[i], st', inbox', reads', rq')
    <3>1. CASE rq'.pending
      BY <3>1 DEF Coming
    <3>2. CASE reads'["repair"].state = "asked" /\ reads'["repair"].after = st'.cursor
      <4>1. BehindLog(st'.finished, log) /\ log \in Seq(Turn)
        BY <1>9, AllMaps DEF Ahead
      <4>2. reads'["repair"].after \in Nat /\ reads'["repair"].after <= st'.cursor
        BY <1>5, <3>2
      <4> QED BY <1>5, <1>11, <3>2, <4>1, <4>2, ReadCovers
    <3>3. CASE ~(m.i > st.cursor + 1) /\ reads' = reads /\ rq' = rq
      <4>1. Coming(i, log[i], st, inbox, reads, rq)
        BY <1>13, <2>1 DEF ComingInv
      <4>2. ShownIn(st', m.i, m.t)
        <5>1. m.i <= st.cursor + 1
          BY <1>3, <1>5, <3>3
        <5> QED BY <1>7, <5>1
      <4>3. ASSUME ShownIn(st, i, log[i]) PROVE ShownIn(st', i, log[i])
        <5>1. CASE i \in DOMAIN st.finished /\ st.finished[i] = log[i]
          BY <1>7, <5>1 DEF ShownIn
        <5>2. CASE i \in DOMAIN st.live /\ st.live[i] = log[i] /\ i # m.i
          BY <1>7, <5>2 DEF ShownIn
        <5>3. CASE i \in DOMAIN st.live /\ st.live[i] = log[i] /\ i = m.i
          <6>1. Upto(log[i], m.t) /\ Upto(m.t, log[i])
            BY <1>2, <1>3, <5>3 DEF OrderInv, Ahead, Before, BehindLog
          <6>2. log[i] \in Turn
            BY <2>1, AllMaps
          <6>3. m.t = log[i]
            BY <1>3, <1>5, <6>1, <6>2, UptoBoth
          <6> QED BY <4>2, <5>3, <6>3
        <5> QED BY <4>3, <5>1, <5>2, <5>3 DEF ShownIn
      <4>4. i \in DOMAIN Content(m) /\ Content(m)[i] = log[i] => ShownIn(st', i, log[i])
        BY <1>3, <4>2
      <4>5. ShownIn(st', i, log[i]) => Coming(i, log[i], st', inbox', reads', rq')
        BY DEF Coming
      <4>6. rq.pending => Coming(i, log[i], st', inbox', reads', rq')
        BY <3>3 DEF Coming
      <4>7. \A k \in 1..Len(inbox) :
              \/ \E l \in 1..Len(inbox') : inbox'[l] = inbox[k]
              \/ i \in DOMAIN Content(inbox[k]) /\ Content(inbox[k])[i] = log[i] => Coming(i, log[i], st', inbox', reads', rq')
        BY <1>2, <4>4, <4>5
      <4>8. \A j \in Jobs : reads[j].state = "asked" /\ reads[j].after < i =>
                             \/ reads'[j].state = "asked" /\ reads'[j].after = reads[j].after
                             \/ Coming(i, log[i], st', inbox', reads', rq')
        BY <3>3
      <4> QED BY <4>1, <4>3, <4>5, <4>6, <4>7, <4>8, ComingKept
    <3>4. ready
      BY <2>1 DEF ready
    <3> QED BY <1>10, <3>1, <3>2, <3>3, <3>4
  <2> QED BY <1>1, <1>13, <2>1 DEF ComingInv
<1> QED BY <1>7, <1>12, <1>13

\* An answer arrives: what it brings is shown, and nothing is taken back.
LEMMA ReceiveAnswerOrder ==
    ASSUME ConstantsAssumption, SyncInv, SyncInv', OrderInv, Receive, Head(inbox).kind # "turn"
    PROVE  OrderInv' /\ st.cursor <= st'.cursor /\ (ComingInv => ComingInv')
<1> DEFINE a == Head(inbox)
           j == a.job
           after == reads[j].after
<1>1. /\ inbox # <<>> /\ inbox' = Tail(inbox) /\ ReceiveAnswer(a) /\ log' = log /\ stamp' = stamp
      /\ link' = link /\ served' = served /\ sel' = sel /\ budget' = budget
  BY DEF Receive, hub
<1>2. /\ a = inbox[1] /\ 1 \in 1..Len(inbox) /\ a \in TurnMsg \cup ReadMsg
      /\ \A k \in 1..Len(inbox') : k + 1 \in 1..Len(inbox) /\ inbox'[k] = inbox[k + 1]
      /\ \A k \in 1..Len(inbox) : k = 1 \/ \E l \in 1..Len(inbox') : inbox'[l] = inbox[k]
      /\ Ahead(Content(a), inbox', log)
      /\ Ahead(st.finished, inbox', log) /\ Ahead(st.live, inbox', log) /\ Ahead(durable, inbox', log)
  BY <1>1, HeadAhead
<1>3. /\ a.kind = "read" /\ Content(a) = a.turns /\ j \in Jobs /\ a.latest \in 0..MaxTurn /\ a.turns \in TurnMap
  BY <1>2, ContentMap DEF ReadMsg
<1>4. /\ MaxTurn \in Nat /\ MaxStamp \in Nat /\ StoreOK(st) /\ StoreOK(st') /\ st.cursor \in Nat /\ st'.cursor \in Nat
      /\ st.cursor \in 0..MaxTurn
      /\ after \in 0..MaxTurn /\ \A k \in Jobs : reads[k].after \in Nat
  BY <1>3 DEF ConstantsAssumption, SyncInv, StoreInv, StoreOK, ReadsInv, Reads
<1>5. /\ reads[j].state = "answered" /\ Whole(a, after) /\ after <= st.cursor
  <2>1. inbox[1].kind = "read" /\ a = inbox[1]
    BY <1>2, <1>3
  <2>2. Fits(inbox[1], reads[inbox[1].job]) /\ Whole(inbox[1], reads[inbox[1].job].after)
    BY <1>2, <2>1 DEF SyncInv, FlightInv, OrderInv
  <2>3. reads[j].state = "answered" /\ Whole(a, after)
    BY <2>1, <2>2 DEF Fits
  <2> HIDE DEF j
  <2>4. after <= st.cursor
    BY <1>3, <2>3 DEF OrderInv
  <2> QED BY <2>3, <2>4
<1>6. /\ after <= a.latest /\ DOMAIN a.turns = {i \in 1..a.latest : after < i}
      /\ \A i \in DOMAIN a.turns : i < a.latest => a.turns[i].f
  BY <1>5 DEF Whole
<1>7. WellFormedRead(a.turns)
  <2>1. \A i \in DOMAIN a.turns : i \in Nat /\ i <= a.latest
    BY <1>3, <1>6
  <2>2. \A i \in DOMAIN a.turns : i < a.latest \/ i = a.latest
    BY <1>3, <2>1
  <2> QED BY <1>6, <2>1, <2>2 DEF WellFormedRead
<1>8. ApplyRead(a)
  <2>1. ~isStaleSessionReadResult(after, a.latest)
    BY <1>3, <1>4, <1>6 DEF isStaleSessionReadResult
  <2> QED BY <1>1, <2>1 DEF ReceiveAnswer
<1>9. \/ /\ reads[j].snap /\ ~sel /\ EndRead(j, st, fc) /\ st' = st /\ durable' = durable
      \/ /\ st' = applySessionReadResult(st, after, a.turns, a.latest)
         /\ EndRead(j, st', st'.cursor) /\ durable' = st'.finished
  BY <1>7, <1>8 DEF ApplyRead, persistChatSessionContent
<1> HIDE DEF a, j, after
<1>10. /\ \A k \in Jobs : k # j => reads'[k] = reads[k]
       /\ reads'[j].state = "none" \/ (reads'[j].state = "asked" /\ reads'[j].after = st'.cursor)
       /\ rq.pending => rq'.pending \/ (reads'[j].state = "asked" /\ reads'[j].after = st'.cursor)
  <2>1. PICK c : EndRead(j, st', c)
    BY <1>9
  <2> QED BY <1>3, <2>1, EndReadEffect DEF SyncInv
<1>11. ASSUME st.cursor <= st'.cursor, Ahead(st'.finished, inbox', log), Ahead(st'.live, inbox', log),
              Ahead(durable', inbox', log)
       PROVE  OrderInv'
  <2>1. \A k \in Jobs : reads'[k].state # "none" => reads'[k].after <= st'.cursor
    <3> SUFFICES ASSUME NEW k \in Jobs, reads'[k].state # "none" PROVE reads'[k].after <= st'.cursor
      OBVIOUS
    <3>1. CASE k = j
      BY <1>4, <1>10, <3>1
    <3>2. CASE k # j
      BY <1>4, <1>10, <1>11, <3>2 DEF OrderInv
    <3> QED BY <3>1, <3>2
  <2>2. \A k \in 1..Len(inbox') : inbox'[k].kind = "read" => reads'[inbox'[k].job].after = reads[inbox'[k].job].after
    <3>1. 1 \in Nat /\ inbox[1].kind = "read" /\ inbox[1].job = j
      BY <1>2, <1>3 DEF j
    <3>2. \A k \in 1..Len(inbox') : inbox'[k].kind = "read" =>
              reads'[inbox'[k].job] = reads[inbox'[k].job] /\ reads[inbox'[k].job].state = "answered"
      BY <1>2, <1>3, <1>10, <3>1, HeardReadsStay
    <3> QED BY <3>2
  <2>3. served' = {} /\ 1 \in Nat
    BY <1>1 DEF OrderInv
  <2> QED BY <1>1, <1>2, <1>11, <2>1, <2>2, <2>3, OrderKept
<1>12. CASE reads[j].snap /\ ~sel /\ EndRead(j, st, fc) /\ st' = st /\ durable' = durable
  <2>1. OrderInv' /\ st.cursor <= st'.cursor
    BY <1>2, <1>4, <1>11, <1>12
  <2>2. ComingInv => ComingInv'
    BY <1>1, <1>12 DEF ComingInv
  <2> QED BY <2>1, <2>2
<1>13. CASE /\ st' = applySessionReadResult(st, after, a.turns, a.latest)
            /\ EndRead(j, st', st'.cursor) /\ durable' = st'.finished
  <2>1. Applied(st', st, after, a.turns, a.latest) /\ ComesFrom(st', st, a.turns)
    <3>1. \A i \in DOMAIN a.turns : after < i /\ i <= a.latest
      BY <1>3, <1>6
    <3> QED BY <1>3, <1>4, <1>6, <1>13, <3>1, ApplyKeeps, ApplyResult
  <2>2. /\ \A n \in 0..MaxTurn :
             (\A i \in 1..n : \/ i \in DOMAIN st.finished /\ (i <= after \/ i > a.latest)
                              \/ i \in DOMAIN a.turns /\ a.turns[i].f) => n <= st'.cursor
        /\ \A i \in DOMAIN st'.finished : st'.finished[i] = IF i \in DOMAIN a.turns THEN a.turns[i] ELSE st.finished[i]
        /\ \A i \in DOMAIN st'.live : \/ i \in DOMAIN st.live /\ st'.live[i] = st.live[i]
                                      \/ i \in DOMAIN a.turns /\ st'.live[i] = a.turns[i]
        /\ \A i \in DOMAIN a.turns : ~a.turns[i].f => i \in DOMAIN st'.live /\ st'.live[i] = a.turns[i]
        /\ \A i \in DOMAIN st.live : (i <= after \/ i > a.latest) => i \in DOMAIN st'.live /\ st'.live[i] = st.live[i]
    BY <2>1 DEF Applied
  <2>3. Before(st.finished, a.turns) /\ Before(st.live, a.turns) /\ BehindLog(a.turns, log)
    BY <1>2, <1>3 DEF OrderInv, Ahead
  <2>4. /\ DOMAIN st.finished = 1..st.cursor /\ DOMAIN st'.finished = 1..st'.cursor
        /\ \A i \in DOMAIN st.finished : st.finished[i].f
        /\ \A i \in DOMAIN st.live : ~st.live[i].f
    BY <1>4 DEF StoreOK
  <2>5. st.cursor <= st'.cursor
    <3>1. ASSUME NEW i \in 1..st.cursor
          PROVE  \/ i \in DOMAIN st.finished /\ (i <= after \/ i > a.latest)
                 \/ i \in DOMAIN a.turns /\ a.turns[i].f
      <4>1. CASE i <= after \/ i > a.latest
        BY <2>4, <4>1
      <4>2. CASE ~(i <= after \/ i > a.latest)
        <5>1. i \in DOMAIN a.turns
          BY <1>3, <1>4, <1>6, <4>2
        <5>2. a.turns[i] = st.finished[i] /\ st.finished[i].f
          BY <2>3, <2>4, <5>1 DEF Before, Upto
        <5> QED BY <5>1, <5>2
      <4> QED BY <4>1, <4>2
    <3> QED BY <1>4, <2>2, <3>1
  <2>6. Ahead(st'.finished, inbox', log) /\ Ahead(st'.live, inbox', log)
    <3>1. \A i \in DOMAIN st'.finished : \/ i \in DOMAIN st.finished /\ st'.finished[i] = st.finished[i]
                                         \/ i \in DOMAIN Content(a) /\ st'.finished[i] = Content(a)[i]
      BY <1>3, <2>1 DEF ComesFrom
    <3>2. \A i \in DOMAIN st'.live : \/ i \in DOMAIN st.live /\ st'.live[i] = st.live[i]
                                     \/ i \in DOMAIN Content(a) /\ st'.live[i] = Content(a)[i]
      BY <1>3, <2>2
    <3> QED BY <1>2, <3>1, <3>2, AheadFrom
  <2>7. OrderInv'
    BY <1>11, <1>13, <2>5, <2>6
  <2>8. ASSUME NEW i \in DOMAIN a.turns PROVE ShownIn(st', i, a.turns[i])
    <3>1. CASE ~a.turns[i].f
      BY <2>2, <3>1 DEF ShownIn
    <3>2. CASE a.turns[i].f
      <4>1. i \in 0..MaxTurn /\ i \in 1..a.latest /\ i \in Nat
        BY <1>3, <1>4, <1>6
      <4>2. ASSUME NEW l \in 1..i
            PROVE  \/ l \in DOMAIN st.finished /\ (l <= after \/ l > a.latest)
                   \/ l \in DOMAIN a.turns /\ a.turns[l].f
        <5>1. CASE l <= after
          BY <1>4, <1>5, <2>4, <4>1, <5>1
        <5>2. CASE l > after /\ l # i
          <6>1. l \in DOMAIN a.turns /\ l < a.latest
            BY <1>3, <1>4, <1>6, <4>1, <5>2
          <6> QED BY <1>6, <6>1
        <5>3. CASE l = i
          BY <3>2, <5>3
        <5> QED BY <1>4, <4>1, <5>1, <5>2, <5>3
      <4>3. i <= st'.cursor
        BY <2>2, <4>1, <4>2
      <4>4. i \in DOMAIN st'.finished
        BY <1>4, <2>4, <4>1, <4>3
      <4> QED BY <2>2, <4>4 DEF ShownIn
    <3> QED BY <3>1, <3>2
  <2>9. ASSUME ComingInv PROVE ComingInv'
    <3>1. ASSUME NEW i \in 1..Len(log), link.at = "synced", sel PROVE Coming(i, log[i], st', inbox', reads', rq')
      <4>1. Coming(i, log[i], st, inbox, reads, rq)
        BY <2>9, <3>1 DEF ComingInv
      <4>2. ShownIn(st', i, log[i]) => Coming(i, log[i], st', inbox', reads', rq')
        BY DEF Coming
      <4>3. ASSUME ShownIn(st, i, log[i]) PROVE ShownIn(st', i, log[i])
        <5>1. CASE i \in DOMAIN st.finished
          <6>1. i \in 1..st'.cursor
            BY <1>4, <2>4, <2>5, <5>1
          <6>2. BehindLog(st'.finished, log)
            BY <2>6 DEF Ahead
          <6> QED BY <1>4, <6>1, <6>2, FinalShown
        <5>2. CASE i \in DOMAIN st.live /\ st.live[i] = log[i] /\ (i <= after \/ i > a.latest)
          BY <2>2, <5>2 DEF ShownIn
        <5>3. CASE i \in DOMAIN st.live /\ st.live[i] = log[i] /\ ~(i <= after \/ i > a.latest)
          <6>1. i \in DOMAIN a.turns
            BY <1>3, <1>4, <1>6, <5>3
          <6>2. Upto(log[i], a.turns[i]) /\ Upto(a.turns[i], log[i])
            BY <2>3, <5>3, <6>1 DEF Before, BehindLog
          <6>3. a.turns[i] = log[i]
            BY <1>3, <1>4, <6>1, <6>2, AllMaps, TurnsOf, UptoBoth
          <6> QED BY <2>8, <6>1, <6>3
        <5> QED BY <4>3, <5>1, <5>2, <5>3 DEF ShownIn
      <4>4. \A k \in 1..Len(inbox) :
              \/ \E l \in 1..Len(inbox') : inbox'[l] = inbox[k]
              \/ i \in DOMAIN Content(inbox[k]) /\ Content(inbox[k])[i] = log[i] => Coming(i, log[i], st', inbox', reads', rq')
        BY <1>2, <1>3, <2>8, <4>2
      <4>5. \A k \in Jobs : reads[k].state = "asked" /\ reads[k].after < i =>
                             \/ reads'[k].state = "asked" /\ reads'[k].after = reads[k].after
                             \/ Coming(i, log[i], st', inbox', reads', rq')
        BY <1>5, <1>10
      <4>6. rq.pending => Coming(i, log[i], st', inbox', reads', rq')
        <5>1. CASE rq'.pending
          BY <5>1 DEF Coming
        <5>2. CASE reads'[j].state = "asked" /\ reads'[j].after = st'.cursor
          <6>1. BehindLog(st'.finished, log) /\ log \in Seq(Turn)
            BY <2>6, AllMaps DEF Ahead
          <6>2. reads'[j].after \in Nat /\ reads'[j].after <= st'.cursor
            BY <1>4, <5>2
          <6> QED BY <1>3, <1>4, <5>2, <6>1, <6>2, ReadCovers
        <5> QED BY <1>10, <5>1, <5>2
      <4> QED BY <4>1, <4>2, <4>3, <4>4, <4>5, <4>6, ComingKept
    <3> QED BY <1>1, <2>9, <3>1 DEF ComingInv
  <2> QED BY <2>5, <2>7, <2>9
<1> QED BY <1>9, <1>12, <1>13

-----------------------------------------------------------------------------
(* The other steps of the client *)

\* A read fails: nothing is shown or taken back.
LEMMA FailReadOrder ==
    ASSUME ConstantsAssumption, SyncInv, SyncInv', OrderInv, NEW j \in Jobs, FailRead(j)
    PROVE  OrderInv' /\ st' = st /\ budget'.fails # budget.fails
<1>1. /\ reads[j].state = "asked" /\ budget.fails > 0 /\ EndRead(j, st, fc) /\ log' = log /\ stamp' = stamp
      /\ inbox' = inbox /\ served' = served /\ st' = st /\ durable' = durable
  BY DEF FailRead, Asked, hub
<1>2. /\ \A k \in Jobs : k # j => reads'[k] = reads[k]
      /\ reads'[j].state = "none" \/ (reads'[j].state = "asked" /\ reads'[j].after = st.cursor)
  BY <1>1, EndReadEffect DEF SyncInv
<1>3. st.cursor \in Nat /\ 0 \in Nat /\ \A k \in 1..Len(inbox) : k \in Nat
  BY DEF SyncInv, StoreInv, StoreOK, WireInv
<1>4. \A k \in Jobs : reads'[k].state # "none" => reads'[k].after <= st'.cursor
  BY <1>1, <1>2, <1>3 DEF OrderInv
<1>5. \A k \in 1..Len(inbox') : k + 0 \in 1..Len(inbox) /\ inbox'[k] = inbox[k + 0]
  BY <1>1, <1>3
<1>6. \A k \in 1..Len(inbox') : inbox'[k].kind = "read" => reads'[inbox'[k].job].after = reads[inbox'[k].job].after
  <2>1. \A k \in 1..Len(inbox') : inbox'[k].kind = "read" =>
            reads'[inbox'[k].job] = reads[inbox'[k].job] /\ reads[inbox'[k].job].state = "answered"
    <3>1. reads[j].state # "answered"
      BY <1>1
    <3> QED BY <1>2, <1>3, <1>5, <3>1, HeardReadsStay
  <2> QED BY <2>1
<1>7. OrderInv'
  <2>1. served' = {} /\ Ahead(st'.finished, inbox', log) /\ Ahead(st'.live, inbox', log) /\ Ahead(durable', inbox', log)
    BY <1>1 DEF OrderInv
  <2> QED BY <1>1, <1>3, <1>4, <1>5, <1>6, <2>1, OrderKept
<1>8. budget'.fails # budget.fails
  <2>1. budget' = [budget EXCEPT !.fails = budget.fails - 1] /\ budget \in Budget
    BY DEF FailRead, SyncInv, FlagsInv
  <2> QED BY <2>1 DEF Budget
<1> QED BY <1>1, <1>7, <1>8

\* The session is selected: the cache adds what it has, and the read brings the
\* rest.
LEMMA SelectOrder ==
    ASSUME ConstantsAssumption, SyncInv, SyncInv', OrderInv, NEW j \in Loads, NEW full \in BOOLEAN, SelectSession(j, full)
    PROVE  OrderInv' /\ st.cursor <= st'.cursor /\ (ComingInv => ComingInv')
<1>1. /\ reads[j].state = "none" /\ st' = mergeCachedTurnPrefix(st, durable)
      /\ reads' = (IF ready THEN [reads EXCEPT ![j] = loadChatSession(st', full)] ELSE reads)
      /\ log' = log /\ stamp' = stamp /\ link' = link /\ inbox' = inbox /\ served' = served
      /\ durable' = durable /\ budget' = budget
  BY DEF SelectSession, Hydrated, hub
<1>2. /\ MaxTurn \in Nat /\ j \in Jobs /\ durable \in TurnMap /\ StoreOK(st) /\ StoreOK(st')
      /\ st.cursor \in Nat /\ st'.cursor \in Nat /\ reads \in [Jobs -> Reads] /\ \A k \in Jobs : reads[k].after \in Nat
  BY DEF ConstantsAssumption, Jobs, SyncInv, StoreInv, DurableOK, StoreOK, ReadsInv, Reads
<1>3. /\ st.cursor <= st'.cursor
      /\ \A i \in DOMAIN st'.live : \/ i \in DOMAIN st.live /\ st'.live[i] = st.live[i]
                                    \/ i \in DOMAIN durable /\ st'.live[i] = durable[i]
      /\ \A i \in DOMAIN st'.finished : \/ i \in DOMAIN st.finished /\ st'.finished[i] = st.finished[i]
                                        \/ i \in DOMAIN durable /\ st'.finished[i] = durable[i]
  <2>1. ComesFrom(st', st, durable)
    BY <1>1, <1>2, MergeCached
  <2> QED BY <1>1, <1>2, <2>1, MergeCachedKeeps DEF ComesFrom
<1>4. Ahead(st'.finished, inbox', log) /\ Ahead(st'.live, inbox', log) /\ Ahead(durable', inbox', log)
  BY <1>1, <1>3, AheadFrom DEF OrderInv
<1>5. /\ \A k \in Jobs : k # j => reads'[k] = reads[k]
      /\ ready => reads'[j].state = "asked" /\ reads'[j].after \in Nat /\ reads'[j].after <= st'.cursor
      /\ ~ready => reads' = reads
  <2>1. loadChatSession(st', full).state = "asked" /\ loadChatSession(st', full).after = IF full THEN 0 ELSE st'.cursor
    BY DEF loadChatSession, StartRead
  <2>2. (IF full THEN 0 ELSE st'.cursor) \in Nat /\ (IF full THEN 0 ELSE st'.cursor) <= st'.cursor
    BY <1>2
  <2> QED BY <1>1, <1>2, <2>1, <2>2
<1>6. 0 \in Nat /\ \A k \in 1..Len(inbox') : k + 0 \in 1..Len(inbox) /\ inbox'[k] = inbox[k + 0]
  BY <1>1 DEF SyncInv, WireInv
<1>7. OrderInv'
  <2>1. \A k \in Jobs : reads'[k].state # "none" => reads'[k].after <= st'.cursor
    BY <1>1, <1>2, <1>3, <1>5 DEF OrderInv
  <2>2. \A k \in 1..Len(inbox') : inbox'[k].kind = "read" => reads'[inbox'[k].job].after = reads[inbox'[k].job].after
    <3>1. reads[j].state # "answered"
      BY <1>1
    <3>2. \A k \in 1..Len(inbox') : inbox'[k].kind = "read" =>
              reads'[inbox'[k].job] = reads[inbox'[k].job] /\ reads[inbox'[k].job].state = "answered"
      BY <1>2, <1>5, <1>6, <3>1, HeardReadsStay
    <3> QED BY <3>2
  <2>3. served' = {}
    BY <1>1 DEF OrderInv
  <2> QED BY <1>1, <1>4, <1>6, <2>1, <2>2, <2>3, OrderKept
<1>8. ASSUME ComingInv PROVE ComingInv'
  <2>1. ASSUME ready PROVE \A i \in 1..Len(log) : Coming(i, log[i], st', inbox', reads', rq')
    <3>1. BehindLog(st'.finished, log) /\ log \in Seq(Turn)
      BY <1>4, AllMaps DEF Ahead
    <3> QED BY <1>2, <1>5, <2>1, <3>1, ReadCovers
  <2> QED BY <1>1, <1>8, <2>1 DEF ComingInv, ready
<1> QED BY <1>3, <1>7, <1>8

\* The steps that keep a copy of something, forget the selection, or do nothing.
LEMMA SmallOrder ==
    ASSUME ConstantsAssumption, SyncInv, OrderInv, Deselect \/ Flush \/ SummaryUpdated \/ UNCHANGED vars
    PROVE  OrderInv' /\ st' = st /\ (ComingInv => ComingInv')
<1>1. /\ log' = log /\ stamp' = stamp /\ link' = link /\ inbox' = inbox /\ served' = served
      /\ st' = st /\ reads' = reads /\ rq' = rq /\ budget' = budget
  BY DEF Deselect, Flush, SummaryUpdated, hub, vars
<1>2. durable' = durable \/ durable' = st.finished
  BY DEF Deselect, Flush, SummaryUpdated, vars
<1>3. sel' = sel \/ sel' = FALSE
  BY DEF Deselect, Flush, SummaryUpdated, vars
<1>4. OrderInv'
  BY <1>1, <1>2 DEF OrderInv
<1>5. ComingInv => ComingInv'
  BY <1>1, <1>3 DEF ComingInv
<1> QED BY <1>1, <1>4, <1>5

\* The connection closes.
LEMMA ConnectionLostOrder ==
    ASSUME ConstantsAssumption, SyncInv, OrderInv, ConnectionLost
    PROVE  OrderInv' /\ st' = st /\ (ComingInv => ComingInv')
<1>1. /\ budget' = [budget EXCEPT !.drops = budget.drops - 1] /\ link' = [link EXCEPT !.at = "down"] /\ inbox' = <<>>
      /\ served' = {} /\ reads' = [j \in Jobs |-> NoRead]
      /\ log' = log /\ stamp' = stamp /\ st' = st /\ durable' = durable
  BY DEF ConnectionLost, hub
<1>2. 1..Len(inbox') = {} /\ NoRead.state = "none"
  BY <1>1 DEF NoRead
<1>3. Ahead(st.finished, inbox', log) /\ Ahead(st.live, inbox', log) /\ Ahead(durable, inbox', log)
  BY <1>2 DEF OrderInv, Ahead
<1>4. OrderInv'
  BY <1>1, <1>2, <1>3 DEF OrderInv
<1>5. ComingInv'
  <2>1. link'.at = "down"
    BY <1>1 DEF SyncInv, FlagsInv
  <2> QED BY <2>1 DEF ComingInv
<1> QED BY <1>1, <1>4, <1>5

\* connect() comes one step further.
LEMMA LinkOrder ==
    ASSUME ConstantsAssumption, SyncInv, OrderInv, Connect \/ bindRepository \/ RepositoryInPlace
    PROVE  OrderInv' /\ st' = st /\ ComingInv'
<1>1. /\ log' = log /\ stamp' = stamp /\ inbox' = inbox /\ served' = served /\ st' = st /\ reads' = reads
      /\ durable' = durable
  BY DEF Connect, bindRepository, RepositoryInPlace, hub, client
<1>2. link'.at # "synced"
  BY DEF Connect, bindRepository, RepositoryInPlace, Advance, SyncInv, FlagsInv
<1> QED BY <1>1, <1>2 DEF OrderInv, ComingInv

\* The end of connect(): what was missed is read.
LEMMA ResyncOrder ==
    ASSUME ConstantsAssumption, SyncInv, OrderInv, syncChatSessionsAfterReconnect
    PROVE  OrderInv' /\ st' = st /\ ComingInv'
<1> DEFINE run == IF link.was THEN "sync" ELSE "other"
<1>1. /\ link.at = "open" /\ Request(st.cursor, run, st)
      /\ log' = log /\ stamp' = stamp /\ inbox' = inbox /\ served' = served /\ st' = st /\ durable' = durable
  BY DEF syncChatSessionsAfterReconnect, Advance, hub
<1> HIDE DEF run
<1>2. /\ "repair" \in Jobs /\ st.cursor \in Nat /\ StoreOK(st) /\ MaxTurn \in Nat /\ ready
      /\ 0 \in Nat /\ \A k \in 1..Len(inbox) : k \in Nat
  BY <1>1 DEF ConstantsAssumption, Jobs, SyncInv, StoreInv, StoreOK, WireInv, ready
<1>3. /\ \A k \in Jobs : k # "repair" => reads'[k] = reads[k]
      /\ reads' = reads \/ (reads["repair"].state = "none" /\ reads'["repair"].after = st.cursor)
      /\ rq'.pending \/ (reads'["repair"].state = "asked" /\ reads'["repair"].after = st.cursor)
  BY <1>1, <1>2, RequestEffect DEF SyncInv
<1>4. \A j \in Jobs : reads'[j].state # "none" => reads'[j].after <= st'.cursor
  BY <1>1, <1>2, <1>3 DEF OrderInv
<1>5. \A k \in 1..Len(inbox') : k + 0 \in 1..Len(inbox) /\ inbox'[k] = inbox[k + 0]
  BY <1>1, <1>2
<1>6. \A k \in 1..Len(inbox') : inbox'[k].kind = "read" => reads'[inbox'[k].job].after = reads[inbox'[k].job].after
  <2>1. reads'["repair"] = reads["repair"] \/ reads["repair"].state # "answered"
    BY <1>3
  <2>2. \A k \in 1..Len(inbox') : inbox'[k].kind = "read" =>
            reads'[inbox'[k].job] = reads[inbox'[k].job] /\ reads[inbox'[k].job].state = "answered"
    BY <1>2, <1>3, <1>5, <2>1, HeardReadsStay
  <2> QED BY <2>2
<1>7. OrderInv'
  <2>1. served' = {} /\ Ahead(st'.finished, inbox', log) /\ Ahead(st'.live, inbox', log) /\ Ahead(durable', inbox', log)
    BY <1>1 DEF OrderInv
  <2> QED BY <1>1, <1>2, <1>4, <1>5, <1>6, <2>1, OrderKept
<1>8. \A i \in 1..Len(log) : Coming(i, log[i], st, inbox', reads', rq')
  <2>1. CASE rq'.pending
    BY <2>1 DEF Coming
  <2>2. CASE reads'["repair"].state = "asked" /\ reads'["repair"].after = st.cursor
    <3>1. BehindLog(st.finished, log) /\ log \in Seq(Turn)
      BY AllMaps DEF OrderInv, Ahead
    <3>2. reads'["repair"].after \in Nat /\ reads'["repair"].after <= st.cursor
      BY <1>2, <2>2
    <3> QED BY <1>2, <2>2, <3>1, <3>2, ReadCovers
  <2> QED BY <1>3, <2>1, <2>2
<1> QED BY <1>1, <1>7, <1>8 DEF ComingInv

\* The page is loaded again: what its cache does not have is read.
LEMMA PageReloadOrder ==
    ASSUME ConstantsAssumption, SyncInv, SyncInv', OrderInv, NEW j \in Loads, PageReload(j)
    PROVE  OrderInv' /\ budget'.reloads < budget.reloads /\ (ComingInv => ComingInv')
<1>1. /\ budget.reloads > 0 /\ budget' = [budget EXCEPT !.reloads = budget.reloads - 1] /\ inbox' = <<>>
      /\ served' = {} /\ st' = mergeCachedTurnPrefix(createEmptyChatTurnStore, durable)
      /\ reads' = [k \in Jobs |-> IF k = j THEN loadChatSession(st', FALSE) ELSE NoRead]
      /\ log' = log /\ stamp' = stamp /\ durable' = durable
  BY DEF PageReload, hub
<1>2. /\ MaxTurn \in Nat /\ j \in Jobs /\ durable \in TurnMap /\ StoreOK(st') /\ st'.cursor \in Nat
  BY DEF ConstantsAssumption, Jobs, SyncInv, StoreInv, DurableOK, StoreOK
<1>3. budget'.reloads < budget.reloads
  BY <1>1 DEF SyncInv, FlagsInv, Budget
<1>4. 1..Len(inbox') = {} /\ NoRead.state = "none"
  BY <1>1 DEF NoRead
<1>5. /\ \A i \in DOMAIN st'.live : i \in DOMAIN durable /\ st'.live[i] = durable[i]
      /\ \A i \in DOMAIN st'.finished : i \in DOMAIN durable /\ st'.finished[i] = durable[i]
  <2>1. /\ StoreOK(createEmptyChatTurnStore) /\ DOMAIN createEmptyChatTurnStore.finished = {}
        /\ DOMAIN createEmptyChatTurnStore.live = {}
    BY <1>2, EmptyStore, NoTurnsMap DEF createEmptyChatTurnStore
  <2>2. ComesFrom(st', createEmptyChatTurnStore, durable)
    BY <1>1, <1>2, <2>1, MergeCached
  <2> QED BY <1>1, <1>2, <2>1, <2>2, MergeCachedKeeps DEF ComesFrom
<1>6. Ahead(st'.finished, inbox', log) /\ Ahead(st'.live, inbox', log) /\ Ahead(durable, inbox', log)
  <2>1. BehindLog(durable, log)
    BY DEF OrderInv, Ahead
  <2> QED BY <1>4, <1>5, <2>1 DEF Ahead, BehindLog
<1>7. /\ reads'[j].state = "asked" /\ reads'[j].after = st'.cursor
      /\ \A k \in Jobs : k # j => reads'[k].state = "none"
  <2>1. loadChatSession(st', FALSE).state = "asked" /\ loadChatSession(st', FALSE).after = st'.cursor
    BY DEF loadChatSession, StartRead
  <2> QED BY <1>1, <1>2, <1>4, <2>1
<1>8. OrderInv'
  <2>1. \A k \in Jobs : reads'[k].state # "none" => reads'[k].after <= st'.cursor
    BY <1>2, <1>7
  <2> QED BY <1>1, <1>4, <1>6, <2>1 DEF OrderInv
<1>9. ComingInv => ComingInv'
  <2>1. BehindLog(st'.finished, log) /\ log \in Seq(Turn)
    BY <1>6, AllMaps DEF Ahead
  <2>2. reads'[j].after \in Nat /\ reads'[j].after <= st'.cursor
    BY <1>2, <1>7
  <2>3. \A i \in 1..Len(log) : Coming(i, log[i], st', inbox', reads', rq')
    BY <1>2, <1>7, <2>1, <2>2, ReadCovers
  <2> QED BY <1>1, <1>3, <2>3 DEF ComingInv
<1> QED BY <1>3, <1>8, <1>9

-----------------------------------------------------------------------------
(* Answers that were overtaken *)

\* The reads ask for what the log has, and the answers are whole: also those that
\* the hub has computed and not yet sent.
WholeInv ==
    /\ \A j \in Jobs : reads[j].state # "none" => reads[j].after <= Len(log)
    /\ \A a \in served : Whole(a, reads[a.job].after)
    /\ \A k \in 1..Len(inbox) : inbox[k].kind = "read" => Whole(inbox[k], reads[inbox[k].job].after)

\* A finished prefix of final turns is not longer than the log.
LEMMA FinalCursor ==
    ASSUME SyncInv, FinalInv
    PROVE  st.cursor <= Len(log) /\ st.cursor \in Nat /\ Len(log) \in Nat
<1>1. /\ st.cursor \in Nat /\ DOMAIN st.finished = 1..st.cursor /\ Len(log) \in Nat
      /\ \A i \in DOMAIN st.finished : st.finished[i].f
  BY DEF SyncInv, StoreInv, StoreOK, HubInv
<1>2. \A i \in 1..st.cursor : i \in 1..Len(log)
  BY <1>1 DEF FinalInv, FinalTurns, Final
<1>3. CASE st.cursor = 0
  BY <1>1, <1>3
<1>4. CASE st.cursor # 0
  <2>1. st.cursor \in 1..st.cursor
    BY <1>1, <1>4
  <2> QED BY <1>1, <1>2, <2>1
<1> QED BY <1>1, <1>3, <1>4

\* What becomes of a read in a step: it ends, it goes on, or it is asked from the
\* cursor or from before it.
ReadMoves(j) ==
    \/ reads'[j].state = "none"
    \/ reads[j].state # "none" /\ reads'[j].after = reads[j].after
    \/ reads'[j].state = "asked" /\ reads'[j].after \in Nat /\ reads'[j].after <= st'.cursor

\* Answers stay whole when the reads move like that and no new answer is sent.
LEMMA WholeKept ==
    ASSUME SyncInv, SyncInv', FinalInv', WholeInv, Len(log) <= Len(log'),
           \A j \in Jobs : ReadMoves(j),
           \A a \in served' : a \in served \/ Whole(a, reads'[a.job].after),
           \A k \in 1..Len(inbox') : inbox'[k].kind = "read" =>
                 \/ \E l \in 1..Len(inbox) : inbox'[k] = inbox[l]
                 \/ inbox'[k] \in served
                 \/ Whole(inbox'[k], reads'[inbox'[k].job].after)
    PROVE  WholeInv'
<1>1. /\ Len(log) \in Nat /\ Len(log') \in Nat /\ st'.cursor \in Nat /\ st'.cursor <= Len(log')
      /\ \A j \in Jobs : reads[j].after \in Nat
  <2>1. st'.cursor <= Len(log') /\ st'.cursor \in Nat /\ Len(log') \in Nat
    <3>1. (SyncInv /\ FinalInv => st.cursor <= Len(log) /\ st.cursor \in Nat /\ Len(log) \in Nat)'
      BY FinalCursor, PTL
    <3> QED BY <3>1
  <2> QED BY <2>1 DEF SyncInv, HubInv, ReadsInv, Reads
<1>2. \A j \in Jobs : reads'[j].state # "none" => reads'[j].after <= Len(log')
  BY <1>1 DEF WholeInv, ReadMoves
<1>3. \A j \in Jobs : reads'[j].state = "answered" => reads'[j].after = reads[j].after
  BY DEF ReadMoves
<1>4. \A a \in served' : a.job \in Jobs /\ reads'[a.job].state = "answered"
  BY DEF SyncInv, WireInv, ReadMsg, FlightInv, Fits
<1>5. \A k \in 1..Len(inbox') : inbox'[k].kind = "read" => inbox'[k].job \in Jobs /\ reads'[inbox'[k].job].state = "answered"
  BY DEF SyncInv, WireInv, TurnMsg, ReadMsg, FlightInv, Fits
<1>6. \A a \in served' : Whole(a, reads'[a.job].after)
  BY <1>3, <1>4 DEF WholeInv
<1>7. \A k \in 1..Len(inbox') : inbox'[k].kind = "read" => Whole(inbox'[k], reads'[inbox'[k].job].after)
  BY <1>3, <1>5 DEF WholeInv
<1> QED BY <1>2, <1>6, <1>7 DEF WholeInv

\* Every step of a hub that keeps its turns keeps the answers whole.
LEMMA WholeNext ==
    ASSUME ConstantsAssumption, SyncInv, SyncInv', FinalInv, FinalInv', WholeInv, [Next]_vars
    PROVE  WholeInv'
<1>1. /\ Len(log) \in Nat /\ st.cursor \in Nat /\ st'.cursor \in Nat /\ MaxTurn \in Nat
      /\ reads \in [Jobs -> Reads] /\ "repair" \in Jobs /\ StoreOK(st) /\ StoreOK(st') /\ Len(log) <= Len(log)
  BY DEF SyncInv, HubInv, StoreInv, StoreOK, ReadsInv, Jobs, ConstantsAssumption
<1>2. ASSUME reads' = reads PROVE \A j \in Jobs : ReadMoves(j)
  BY <1>2 DEF ReadMoves
<1>3. ASSUME inbox' = inbox
      PROVE  \A k \in 1..Len(inbox') : inbox'[k].kind = "read" => \E l \in 1..Len(inbox) : inbox'[k] = inbox[l]
  BY <1>3
<1>4. ASSUME inbox # <<>>, inbox' = Tail(inbox)
      PROVE  \A k \in 1..Len(inbox') : inbox'[k].kind = "read" => \E l \in 1..Len(inbox) : inbox'[k] = inbox[l]
  BY <1>4, MessageTaken DEF SyncInv
<1>5. CASE Hub
  <2>1. ~HubRestart
    BY DEF HubRestart, FinalInv, SyncInv, FlagsInv, Budget
  <2>2. ASSUME NEW i, NEW f \in BOOLEAN, Published(i, f) PROVE WholeInv'
    <3> DEFINE m == [kind |-> "turn", i |-> i, t |-> [c |-> stamp + 1, f |-> f]]
    <3>1. /\ inbox' = (IF online THEN Append(inbox, m) ELSE inbox) /\ served' = served /\ reads' = reads
      BY <2>2 DEF Published, Publish, client
    <3>2. m.kind # "read"
      OBVIOUS
    <3> HIDE DEF m
    <3>3. \A k \in 1..Len(inbox') : inbox'[k].kind = "read" => \E l \in 1..Len(inbox) : inbox'[k] = inbox[l]
      BY <3>1, <3>2 DEF SyncInv, WireInv
    <3>4. Len(log) <= Len(log')
      <4>1. log \in Seq(Turn) /\ log' = IF i > Len(log) THEN Append(log, m.t) ELSE [log EXCEPT ![i] = m.t]
        BY <2>2 DEF Published, Publish, SyncInv, HubInv, m
      <4>2. i = Len(log) + 1 \/ i = Len(log)
        BY <2>2 DEF Published
      <4> QED BY <1>1, <4>1, <4>2
    <3> QED BY <1>2, <3>1, <3>3, <3>4, WholeKept
  <2> QED BY <1>5, <2>1, <2>2, HubSteps
<1>6. ASSUME NEW j \in Jobs, AnswerRead(j) PROVE WholeInv'
  <2>1. /\ reads[j].state = "asked" /\ reads' = [reads EXCEPT ![j] = [reads[j] EXCEPT !.state = "answered"]]
        /\ log' = log
        /\ \/ inbox' = Append(inbox, Answer(j)) /\ served' = served
           \/ inbox' = inbox /\ served' = served \cup {Answer(j)}
    BY <1>6 DEF AnswerRead, Asked, hub
  <2>2. /\ reads'[j].after = reads[j].after /\ \A k \in Jobs : k # j => reads'[k] = reads[k]
    BY <1>1, <2>1 DEF Reads
  <2>3. \A k \in Jobs : ReadMoves(k)
    BY <2>1, <2>2 DEF ReadMoves
  <2>4. Answer(j).job = j /\ Whole(Answer(j), reads'[Answer(j).job].after)
    <3>1. reads[j].after <= Len(log)
      BY <2>1 DEF WholeInv
    <3> QED BY <2>1, <2>2, <3>1, AnswerForm, AnswerWhole DEF SyncInv
  <2>5. \A k \in 1..Len(inbox') : inbox'[k] = Answer(j) \/ \E l \in 1..Len(inbox) : inbox'[k] = inbox[l]
    BY <2>1 DEF SyncInv, WireInv
  <2>6. \A a \in served' : a \in served \/ a = Answer(j)
    BY <2>1
  <2> QED BY <1>1, <2>1, <2>3, <2>4, <2>5, <2>6, WholeKept
<1>7. CASE SendAnswer
  <2>1. PICK a \in served : inbox' = Append(inbox, a) /\ served' = served \ {a}
    BY <1>7 DEF SendAnswer
  <2>2. log' = log /\ reads' = reads
    BY <1>7 DEF SendAnswer, hub, client
  <2>3. \A k \in 1..Len(inbox') : inbox'[k] = a \/ \E l \in 1..Len(inbox) : inbox'[k] = inbox[l]
    <3>1. a \in TurnMsg \cup ReadMsg
      BY DEF SyncInv, WireInv
    <3> QED BY <2>1, <3>1, MessageAdded DEF SyncInv
  <2>4. \A b \in served' : b \in served
    BY <2>1
  <2> QED BY <1>1, <1>2, <2>1, <2>2, <2>3, <2>4, WholeKept
<1>8. ASSUME NEW j \in Jobs, NEW s, NEW c, EndRead(j, s, c), s = st' PROVE \A k \in Jobs : ReadMoves(k)
  <2>1. /\ \A k \in Jobs : k # j => reads'[k] = reads[k]
        /\ reads'[j].state = "none" \/ (reads'[j].state = "asked" /\ reads'[j].after = s.cursor)
    BY <1>8, EndReadEffect DEF SyncInv
  <2> QED BY <1>1, <1>8, <2>1 DEF ReadMoves
<1>9. ASSUME NEW cursor, NEW run, Request(cursor, run, st') PROVE \A k \in Jobs : ReadMoves(k)
  <2>1. CASE ~ready \/ rq.inFlight
    <3>1. reads' = reads
      BY <1>9, <2>1 DEF Request
    <3> QED BY <1>2, <3>1
  <2>2. CASE ready /\ ~rq.inFlight
    <3>1. reads' = [reads EXCEPT !["repair"] = RunRead(run, st')]
      BY <1>9, <2>2 DEF Request
    <3>2. RunRead(run, st').state = "asked" /\ RunRead(run, st').after = st'.cursor
      BY DEF RunRead, StartRead
    <3>3. /\ reads'["repair"].state = "asked" /\ reads'["repair"].after = st'.cursor
          /\ \A k \in Jobs : k # "repair" => reads'[k] = reads[k]
      BY <1>1, <3>1, <3>2
    <3> QED BY <1>1, <3>3 DEF ReadMoves
  <2> QED BY <2>1, <2>2
<1>10. ASSUME NEW j \in Jobs, FailRead(j) PROVE WholeInv'
  <2>1. EndRead(j, st, fc) /\ st' = st /\ log' = log /\ inbox' = inbox /\ served' = served
    BY <1>10 DEF FailRead, hub
  <2> QED BY <1>1, <1>3, <1>8, <2>1, WholeKept
<1>11. CASE Receive
  <2>1. inbox # <<>> /\ inbox' = Tail(inbox) /\ log' = log /\ served' = served
    BY <1>11 DEF Receive, hub
  <2>2. CASE Head(inbox).kind = "turn"
    <3>1. Request(st.cursor, "gap", st') \/ reads' = reads
      BY <1>11, <2>2 DEF Receive, ReceiveTurn
    <3>2. \A k \in Jobs : ReadMoves(k)
      BY <1>2, <1>9, <3>1
    <3> QED BY <1>1, <1>4, <2>1, <3>2, WholeKept
  <2>3. CASE Head(inbox).kind # "turn"
    <3> DEFINE j == Head(inbox).job
    <3>1. j \in Jobs
      <4>1. Head(inbox) \in TurnMsg \cup ReadMsg
        BY <2>1, MessageTaken DEF SyncInv
      <4> QED BY <2>3, <4>1 DEF TurnMsg, ReadMsg
    <3>2. \/ RetryStale(j)
          \/ EndRead(j, st', fc) \/ EndRead(j, st', st'.cursor)
      BY <1>11, <2>3 DEF Receive, ReceiveAnswer, ApplyRead
    <3> HIDE DEF j
    <3>3. ASSUME RetryStale(j) PROVE \A k \in Jobs : ReadMoves(k)
      <4>1. /\ reads' = [reads EXCEPT ![j] = [reads[j] EXCEPT !.state = "asked", !.after = 0, !.retried = TRUE]]
        BY <3>3 DEF RetryStale
      <4>2. /\ reads'[j].state = "asked" /\ reads'[j].after = 0 /\ \A k \in Jobs : k # j => reads'[k] = reads[k]
        BY <1>1, <3>1, <4>1 DEF Reads
      <4> QED BY <1>1, <4>2 DEF ReadMoves
    <3>4. \A k \in Jobs : ReadMoves(k)
      BY <1>8, <3>1, <3>2, <3>3
    <3> QED BY <1>1, <1>4, <2>1, <3>4, WholeKept
  <2> QED BY <2>2, <2>3
<1>12. ASSUME NEW j \in Loads, NEW full \in BOOLEAN, SelectSession(j, full) PROVE WholeInv'
  <2>1. /\ reads' = (IF ready THEN [reads EXCEPT ![j] = loadChatSession(st', full)] ELSE reads)
        /\ log' = log /\ inbox' = inbox /\ served' = served
    BY <1>12 DEF SelectSession, hub
  <2>2. /\ loadChatSession(st', full).state = "asked" /\ loadChatSession(st', full).after \in Nat
        /\ loadChatSession(st', full).after <= st'.cursor
    BY <1>1 DEF loadChatSession, StartRead
  <2>3. \A k \in Jobs : reads'[k] = reads[k] \/ reads'[k] = loadChatSession(st', full)
    BY <1>1, <2>1
  <2>4. \A k \in Jobs : ReadMoves(k)
    BY <2>2, <2>3 DEF ReadMoves
  <2> QED BY <1>1, <1>3, <2>1, <2>4, WholeKept
<1>13. CASE Deselect \/ Flush \/ SummaryUpdated \/ Connect \/ bindRepository \/ RepositoryInPlace \/ UNCHANGED vars
  <2>1. log' = log /\ inbox' = inbox /\ served' = served /\ reads' = reads
    BY <1>13 DEF Deselect, Flush, SummaryUpdated, Connect, bindRepository, RepositoryInPlace, vars, hub, client
  <2> QED BY <2>1 DEF WholeInv
<1>14. CASE syncChatSessionsAfterReconnect
  <2>1. /\ st' = st /\ log' = log /\ inbox' = inbox /\ served' = served
        /\ Request(st.cursor, IF link.was THEN "sync" ELSE "other", st)
    BY <1>14 DEF syncChatSessionsAfterReconnect, hub
  <2>2. \A k \in Jobs : ReadMoves(k)
    BY <1>9, <2>1
  <2> QED BY <1>1, <1>3, <2>1, <2>2, WholeKept
<1>15. CASE ConnectionLost
  <2>1. log' = log /\ inbox' = <<>> /\ served' = {} /\ reads' = [j \in Jobs |-> NoRead]
    BY <1>15 DEF ConnectionLost, hub
  <2>2. 1..Len(inbox') = {} /\ \A j \in Jobs : reads'[j].state = "none"
    BY <2>1 DEF NoRead
  <2> QED BY <2>1, <2>2 DEF WholeInv
<1>16. ASSUME NEW j \in Loads, PageReload(j) PROVE WholeInv'
  <2>1. /\ log' = log /\ inbox' = <<>> /\ served' = {}
        /\ reads' = [k \in Jobs |-> IF k = j THEN loadChatSession(st', FALSE) ELSE NoRead]
    BY <1>16 DEF PageReload, hub
  <2>2. 1..Len(inbox') = {} /\ NoRead.state = "none"
    BY <2>1 DEF NoRead
  <2>3. loadChatSession(st', FALSE).after = st'.cursor /\ loadChatSession(st', FALSE).state = "asked"
    BY DEF loadChatSession, StartRead
  <2>4. \A k \in Jobs : ReadMoves(k)
    <3>1. \A k \in Jobs : reads'[k] = NoRead \/ reads'[k] = loadChatSession(st', FALSE)
      BY <2>1
    <3>2. loadChatSession(st', FALSE).after \in Nat /\ loadChatSession(st', FALSE).after <= st'.cursor
      BY <1>1 DEF loadChatSession, StartRead
    <3> QED BY <2>2, <2>3, <3>1, <3>2 DEF ReadMoves
  <2> QED BY <1>1, <2>1, <2>2, <2>4, WholeKept
<1> QED BY <1>5, <1>6, <1>7, <1>10, <1>11, <1>12, <1>13, <1>14, <1>15, <1>16 DEF Next

\* A step takes the cursor back only with the page, or with an answer that the seal
\* of a turn overtook.
LEMMA CursorStep ==
    ASSUME ConstantsAssumption, SyncInv, SyncInv', FinalInv, WholeInv, [Next]_vars
    PROVE  \/ st.cursor <= st'.cursor
           \/ budget'.reloads < budget.reloads
           \/ inbox # <<>> /\ inbox' = Tail(inbox) /\ Outdated(Head(inbox))
<1>1. /\ MaxTurn \in Nat /\ StoreOK(st) /\ StoreOK(st') /\ st.cursor \in Nat /\ st'.cursor \in Nat
      /\ st.cursor \in 0..MaxTurn /\ DOMAIN st.finished = 1..st.cursor
      /\ \A i \in DOMAIN st.finished : st.finished[i].f /\ i \in 1..Len(log) /\ log[i] = st.finished[i]
  BY DEF ConstantsAssumption, SyncInv, StoreInv, StoreOK, FinalInv, FinalTurns, Final
<1>2. ASSUME st' = st PROVE st.cursor <= st'.cursor
  BY <1>1, <1>2
<1>3. ASSUME Hub \/ SendAnswer \/ Deselect \/ Flush \/ SummaryUpdated \/ ConnectionLost \/ Connect \/ bindRepository
             \/ RepositoryInPlace \/ syncChatSessionsAfterReconnect \/ UNCHANGED vars
      PROVE  st' = st
  BY <1>3 DEF Hub, NewTurn, UpdateTurn, PromptDone, Publish, HubRestart, SendAnswer, Deselect, Flush, SummaryUpdated,
              ConnectionLost, Connect, bindRepository, RepositoryInPlace, syncChatSessionsAfterReconnect, vars, client
<1>4. ASSUME NEW j \in Jobs, AnswerRead(j) \/ FailRead(j) PROVE st' = st
  BY <1>4 DEF AnswerRead, FailRead
<1>5. ASSUME NEW j \in Loads, NEW full \in BOOLEAN, SelectSession(j, full) PROVE st.cursor <= st'.cursor
  <2>1. st' = mergeCachedTurnPrefix(st, durable) /\ durable \in TurnMap
    BY <1>5 DEF SelectSession, Hydrated, SyncInv, StoreInv, DurableOK
  <2> QED BY <1>1, <2>1, MergeCachedKeeps
<1>6. ASSUME NEW j \in Loads, PageReload(j) PROVE budget'.reloads < budget.reloads
  BY <1>6 DEF PageReload, SyncInv, FlagsInv, Budget
<1>7. ASSUME Receive, Head(inbox).kind = "turn" PROVE st.cursor <= st'.cursor
  <2> DEFINE m == Head(inbox)
  <2>1. st' = mergeRealtimeTurn(st, m.i, m.t) /\ inbox # <<>> /\ inbox' = Tail(inbox)
    BY <1>7 DEF Receive, ReceiveTurn
  <2>2. m = inbox[1] /\ 1 \in 1..Len(inbox) /\ m \in TurnMsg \cup ReadMsg
    BY <2>1, MessageTaken DEF SyncInv
  <2>3. m.i \in 1..MaxTurn /\ m.t \in Turn
    <3>1. m \notin ReadMsg
      BY <1>7 DEF ReadMsg
    <3> QED BY <2>2, <3>1 DEF TurnMsg
  <2>4. Final(m.i, m.t)
    BY <1>7, <2>2 DEF FinalInv
  <2> HIDE DEF m
  <2>5. CASE m.i \in DOMAIN st.finished /\ ~m.t.f
    <3>1. st' = st
      BY <2>1, <2>5 DEF mergeRealtimeTurn
    <3> QED BY <1>2, <3>1
  <2>6. CASE m.i \in DOMAIN st.finished => m.t.f
    <3>1. m.i \in DOMAIN st.finished => st.finished[m.i] = m.t
      BY <1>1, <2>4, <2>6 DEF Final
    <3> QED BY <1>1, <2>1, <2>3, <3>1, MergeRealtimeKeeps
  <2> QED BY <2>5, <2>6
<1>8. ASSUME Receive, Head(inbox).kind # "turn", ~Outdated(Head(inbox)) PROVE st.cursor <= st'.cursor
  <2> DEFINE a == Head(inbox)
             j == a.job
             after == reads[j].after
  <2>1. inbox # <<>> /\ inbox' = Tail(inbox) /\ ReceiveAnswer(a)
    BY <1>8 DEF Receive
  <2>2. a = inbox[1] /\ 1 \in 1..Len(inbox) /\ a \in TurnMsg \cup ReadMsg
    BY <2>1, MessageTaken DEF SyncInv
  <2>3. a.kind = "read" /\ j \in Jobs /\ a.latest \in 0..MaxTurn /\ a.turns \in TurnMap
    <3>1. a \notin TurnMsg
      BY <1>8 DEF TurnMsg
    <3> QED BY <2>2, <3>1 DEF ReadMsg
  <2>4. /\ after \in 0..MaxTurn /\ after <= a.latest /\ DOMAIN a.turns = {i \in 1..a.latest : after < i}
    <3>1. Whole(a, after)
      BY <2>2, <2>3 DEF WholeInv
    <3>2. after \in 0..MaxTurn
      BY <2>3 DEF SyncInv, ReadsInv, Reads
    <3> QED BY <3>1, <3>2 DEF Whole
  <2>5. st' = st \/ st' = applySessionReadResult(st, after, a.turns, a.latest)
    <3>1. ~isStaleSessionReadResult(after, a.latest)
      BY <2>3, <2>4 DEF isStaleSessionReadResult
    <3> QED BY <2>1, <3>1 DEF ReceiveAnswer, ApplyRead
  <2>6. \A i \in DOMAIN a.turns : i \in 1..Len(log) /\ log[i].f => a.turns[i].f
    BY <1>8, <2>3 DEF Outdated
  <2> HIDE DEF a, j, after
  <2>7. CASE st' = applySessionReadResult(st, after, a.turns, a.latest)
    <3>1. \A i \in DOMAIN a.turns : after < i /\ i <= a.latest
      BY <2>3, <2>4
    <3>2. Applied(st', st, after, a.turns, a.latest)
      BY <1>1, <2>3, <2>4, <2>7, <3>1, ApplyKeeps
    <3>3. \A n \in 0..MaxTurn :
            (\A i \in 1..n : \/ i \in DOMAIN st.finished /\ (i <= after \/ i > a.latest)
                             \/ i \in DOMAIN a.turns /\ a.turns[i].f) => n <= st'.cursor
      BY <3>2 DEF Applied
    <3>4. ASSUME NEW i \in 1..st.cursor
          PROVE  \/ i \in DOMAIN st.finished /\ (i <= after \/ i > a.latest)
                 \/ i \in DOMAIN a.turns /\ a.turns[i].f
      <4>1. i \in 1..Len(log) /\ log[i].f
        BY <1>1
      <4>2. CASE ~(i <= after \/ i > a.latest)
        <5>1. i \in DOMAIN a.turns
          BY <1>1, <2>3, <2>4, <4>2
        <5> QED BY <2>6, <4>1, <5>1
      <4> QED BY <1>1, <4>2
    <3> QED BY <1>1, <3>3, <3>4
  <2> QED BY <1>2, <2>5, <2>7
<1>9. Receive => inbox # <<>> /\ inbox' = Tail(inbox)
  BY DEF Receive
<1> QED BY <1>2, <1>3, <1>4, <1>5, <1>6, <1>7, <1>8, <1>9 DEF Next

-----------------------------------------------------------------------------
(* Nothing is taken back, and nothing is missed *)

\* Every step that is in time keeps the order, takes the cursor back only with
\* the page, and leaves nothing behind that does not come, unless a read fails.
LEMMA OrderNext ==
    ASSUME ConstantsAssumption, SyncInv, OrderInv, [Next]_vars, InTime
    PROVE  /\ OrderInv' /\ (st.cursor <= st'.cursor \/ budget'.reloads < budget.reloads)
           /\ ComingInv /\ budget'.fails = budget.fails => ComingInv'
<1>1. SyncInv'
  BY SyncNext
<1>2. st.cursor <= st.cursor
  BY CursorInLog
<1>3. CASE Hub
  <2>1. ~HubRestart
    BY DEF HubRestart, SyncInv, FlagsInv, Budget, InTime
  <2>2. ASSUME NEW i, NEW f \in BOOLEAN, Published(i, f)
        PROVE  OrderInv' /\ st' = st /\ (ComingInv => ComingInv')
    BY <1>1, <2>2, PublishOrder
  <2> QED BY <1>2, <1>3, <2>1, <2>2, HubSteps
<1>4. ASSUME NEW j \in Jobs, AnswerRead(j) PROVE OrderInv' /\ st' = st /\ (ComingInv => ComingInv')
  BY <1>1, <1>4, AnswerOrder
<1>5. ASSUME NEW j \in Jobs, FailRead(j) PROVE OrderInv' /\ st' = st /\ budget'.fails # budget.fails
  BY <1>1, <1>5, FailReadOrder
<1>6. ~SendAnswer
  BY DEF SendAnswer, OrderInv
<1>7. CASE Receive
  BY <1>1, <1>7, ReceiveTurnOrder, ReceiveAnswerOrder
<1>8. CASE \E j \in Loads, full \in BOOLEAN : SelectSession(j, full)
  BY <1>1, <1>8, SelectOrder
<1>9. CASE Deselect \/ Flush \/ SummaryUpdated \/ UNCHANGED vars
  BY <1>2, <1>9, SmallOrder
<1>10. CASE ConnectionLost \/ Connect \/ bindRepository \/ RepositoryInPlace \/ syncChatSessionsAfterReconnect
  BY <1>2, <1>10, ConnectionLostOrder, LinkOrder, ResyncOrder
<1>11. CASE \E j \in Loads : PageReload(j)
  BY <1>1, <1>11, PageReloadOrder
<1> QED BY <1>2, <1>3, <1>4, <1>5, <1>6, <1>7, <1>8, <1>9, <1>10, <1>11 DEF Next

\* The program starts with nothing to order and nothing to bring.
LEMMA OrderInit ==
    ASSUME ConstantsAssumption, Init
    PROVE  OrderInv /\ ComingInv
<1>1. /\ log = <<>> /\ inbox = <<>> /\ served = {} /\ durable = NoTurns /\ st.finished = NoTurns /\ st.live = NoTurns
      /\ reads = [j \in Jobs |-> NoRead]
  BY DEF Init, createEmptyChatTurnStore
<1>2. 1..Len(inbox) = {} /\ 1..Len(log) = {} /\ NoRead.state = "none"
  BY <1>1 DEF NoRead
<1>3. Ahead(NoTurns, inbox, log)
  BY <1>2, NoTurnsMap DEF Ahead, BehindLog
<1>4. \A j \in Jobs : reads[j].state = "none"
  BY <1>1, <1>2
<1> QED BY <1>1, <1>2, <1>3, <1>4 DEF OrderInv, ComingInv

\* What holds until the hub loses turns or an answer is overtaken, and until a
\* read fails as well.
OrderUntil == ~Restarted /\ ~Overtaken => OrderInv /\ (~Failed => ComingInv)

\* Every step keeps that.
LEMMA OrderUntilNext ==
    ASSUME ConstantsAssumption, SyncInv, OrderUntil, [Next]_vars
    PROVE  OrderUntil'
<1> SUFFICES ASSUME ~Restarted', ~Overtaken' PROVE OrderInv' /\ (~Failed' => ComingInv')
  BY DEF OrderUntil
<1>1. /\ budget.restarts \in Nat /\ budget.restarts <= MaxRestarts /\ MaxRestarts \in Nat
      /\ budget.lates \in Nat /\ budget.lates <= MaxLates /\ MaxLates \in Nat
      /\ budget.fails \in Nat /\ budget.fails <= MaxFails /\ MaxFails \in Nat
  BY DEF SyncInv, FlagsInv, Budget, ConstantsAssumption
<1>2. SyncInv'
  BY SyncNext
<1>3. budget'.restarts \in Nat /\ budget'.lates \in Nat /\ budget'.fails \in Nat
  BY <1>2 DEF SyncInv, FlagsInv, Budget
<1>4. InTime /\ ~Restarted /\ ~Overtaken
  BY <1>1, <1>3, BudgetStep DEF Restarted, Overtaken, InTime
<1>5. ~Failed' => ~Failed /\ budget'.fails = budget.fails
  BY <1>1, <1>3, BudgetStep DEF Failed
<1> QED BY <1>4, <1>5, OrderNext DEF OrderUntil

\* Until then messages, store and log are in order.
LEMMA OrderInvariance ==
    ASSUME ConstantsAssumption
    PROVE  Spec => []OrderUntil
<1>1. Init => OrderUntil
  BY OrderInit DEF OrderUntil
<1>2. SyncInv /\ OrderUntil /\ [Next]_vars => OrderUntil'
  BY OrderUntilNext
<1> QED BY <1>1, <1>2, SyncInvariance, PTL DEF Spec

\* Until the hub loses turns, finished turns are final and answers are whole.
LEMMA WholeInvariance ==
    ASSUME ConstantsAssumption
    PROVE  Spec => [](~Restarted => FinalInv /\ WholeInv)
<1>1. Init => WholeInv
  <2> SUFFICES ASSUME Init PROVE WholeInv
    OBVIOUS
  <2>1. /\ inbox = <<>> /\ served = {} /\ reads = [j \in Jobs |-> NoRead]
    BY DEF Init
  <2>2. 1..Len(inbox) = {} /\ \A j \in Jobs : reads[j].state = "none"
    BY <2>1 DEF NoRead
  <2> QED BY <2>1, <2>2 DEF WholeInv
<1>2. /\ SyncInv /\ SyncInv' /\ (~Restarted => FinalInv) /\ (~Restarted => FinalInv)' /\ [Next]_vars
      /\ (~Restarted => WholeInv)
      => (~Restarted => WholeInv)'
  <2> SUFFICES ASSUME SyncInv, SyncInv', ~Restarted => FinalInv, FinalInv', [Next]_vars, ~Restarted => WholeInv,
                      ~Restarted'
               PROVE  WholeInv'
    OBVIOUS
  <2>1. budget.restarts \in Nat /\ budget.restarts <= MaxRestarts /\ MaxRestarts \in Nat /\ budget'.restarts \in Nat
    BY DEF SyncInv, FlagsInv, Budget, ConstantsAssumption
  <2>2. ~Restarted
    BY <2>1, BudgetStep DEF Restarted, InTime
  <2> QED BY <2>2, WholeNext
<1>3. Spec => [](~Restarted => WholeInv)
  BY <1>1, <1>2, FinalInvariance, SyncInvariance, PTL DEF Spec
<1> QED BY <1>3, FinalInvariance, PTL

\* A finished turn stays finished in the client's store, whatever turns, answers,
\* cache merges, failed reads and connection losses come, until the hub loses turns.
\* Besides a page reload, only one kind of message takes it back: an answer that
\* the hub had computed before it sealed a turn and that reaches the page after the
\* seal.
THEOREM FinishedStaysAlways ==
    ASSUME ConstantsAssumption
    PROVE  Spec => [][FinishedStaysStep]_vars
<1>1. SyncInv /\ SyncInv' /\ (~Restarted => FinalInv /\ WholeInv) /\ OrderUntil /\ [Next]_vars
      => [FinishedStaysStep]_vars
  <2> SUFFICES ASSUME SyncInv, SyncInv', FinalInv, WholeInv, OrderUntil, [Next]_vars, ~Restarted PROVE FinishedStaysStep
    BY DEF FinishedStaysStep
  <2>1. \/ st.cursor <= st'.cursor
        \/ budget'.reloads < budget.reloads
        \/ Overtaken /\ inbox # <<>> /\ inbox' = Tail(inbox) /\ Outdated(Head(inbox))
    <3>1. CASE Overtaken
      BY <3>1, CursorStep
    <3>2. CASE ~Overtaken
      <4>1. OrderInv
        BY <3>2 DEF OrderUntil
      <4>2. st.cursor <= st.cursor
        BY <4>1, CursorInLog
      <4> QED BY <4>1, <4>2, BudgetStep, OrderNext
    <3> QED BY <3>1, <3>2
  <2>2. /\ DOMAIN st.finished = 1..st.cursor /\ DOMAIN st'.finished = 1..st'.cursor
        /\ st.cursor \in Nat /\ st'.cursor \in Nat
    BY DEF SyncInv, StoreInv, StoreOK
  <2>3. CASE st.cursor <= st'.cursor
    <3>1. \A i \in 1..st.cursor : i \in 1..st'.cursor
      BY <2>2, <2>3
    <3> QED BY <2>2, <3>1 DEF FinishedStaysStep
  <2> QED BY <2>1, <2>3 DEF FinishedStaysStep
<1> QED BY <1>1, WholeInvariance, OrderInvariance, SyncInvariance, PTL DEF Spec

\* RR-004, RR-006, RR-007: when nothing is on its way any more, the selected
\* session shows exactly the log: what was dropped behind a hole, lost with a
\* connection, heard while connect() was not done or missed while another chat was
\* selected has been read back.  This ends when the hub loses turns, an answer is
\* overtaken or a read fails, since nothing repeats that read.
THEOREM QuiescentCompleteAlways ==
    ASSUME ConstantsAssumption
    PROVE  Spec => []QuiescentComplete
<1>1. SyncInv /\ OrderUntil => QuiescentComplete
  <2> SUFFICES ASSUME SyncInv, OrderInv, ComingInv, link.at = "synced", sel, inbox = <<>>,
                      \A j \in Jobs : reads[j].state = "none"
               PROVE  Complete
    BY DEF OrderUntil, QuiescentComplete, Quiet
  <2>1. 1..Len(inbox) = {} /\ "repair" \in Jobs
    BY DEF Jobs
  <2>2. ~rq.pending
    BY <2>1 DEF SyncInv, ReadsInv, RepairMatchesRead
  <2>3. \A i \in 1..Len(log) : ShownIn(st, i, log[i])
    BY <2>1, <2>2 DEF ComingInv, Coming
  <2>4. /\ \A i \in DOMAIN st.finished : i \in 1..Len(log) /\ (st.finished[i].f => st.finished[i] = log[i])
        /\ \A i \in DOMAIN st.live : i \in 1..Len(log)
        /\ \A i \in DOMAIN st.finished : st.finished[i].f
    BY DEF OrderInv, Ahead, BehindLog, Upto, SyncInv, StoreInv, StoreOK
  <2>5. DOMAIN st.finished \cup DOMAIN st.live = 1..Len(log)
    BY <2>3, <2>4 DEF ShownIn
  <2>6. \A i \in 1..Len(log) : (IF i \in DOMAIN st.finished THEN st.finished[i] ELSE st.live[i]) = log[i]
    BY <2>3, <2>4 DEF ShownIn
  <2>7. buildMergedRawTurns(st) = [i \in 1..Len(log) |-> log[i]]
    BY <2>5, <2>6 DEF buildMergedRawTurns
  <2>8. log = [i \in 1..Len(log) |-> log[i]]
    BY AllMaps
  <2> QED BY <2>7, <2>8 DEF Complete
<1> QED BY <1>1, OrderInvariance, SyncInvariance, PTL
=============================================================================
