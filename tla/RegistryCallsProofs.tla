------------------------ MODULE RegistryCallsProofs ------------------------
(***************************************************************************)
(* What RegistryCalls promises for any number of calls, workers, forwards  *)
(* and hub connections: an answer settles its own call, a waiting forward  *)
(* has its worker, a refused call changes nothing, what the page takes for *)
(* done was done, and an operation is done at most once per call for it.   *)
(***************************************************************************)
EXTENDS RegistryCalls, FiniteSetTheorems, TLAPS

\* The rows of the methods that are called.
Rows == {Row(m) : m \in Methods}
Outcomes == Codes \union {"", "data", "defaults", "done", "notok"}
CallState == [m : Rows \union {NoRow}, ph : {"idle", "wait", "done"}, out : Outcomes, of : Calls \union {0}, op : Calls \union {0}]
Phases == {"none", "sent", "queued", "forwarded", "answered", "dropped"}
RegState == [ph : Phases, queued : BOOLEAN]
Links == [id : Nat, c : Calls, ep : Nat]
Replies == [id : Nat, c : Calls, ep : Nat, code : Codes \union {""}, body : Bodies]
Messages == [c : Calls, code : Codes \union {""}, body : Bodies \union {""}, of : Calls]

Typed ==
  /\ call \in [Calls -> CallState]
  /\ reg \in [Calls -> RegState]
  /\ fwd \in SUBSET Links
  /\ work \in SUBSET Links
  /\ hub \in [ep : 1..MaxEpochs, up : {"on", "closing", "off"}, next : Nat]
  /\ wire \in [hub : SUBSET Replies, page : SUBSET Messages]
  /\ applied \in [Calls -> Nat]
  /\ \A c \in Calls : call[c].ph = "done" <=> call[c].out # ""

\* Forward ids are never used twice, so an id leads back to one call; the
\* forwards that wait are those of the connection that is up, each for a call
\* that a worker waits for.
Routed ==
  /\ \A f \in fwd : f.ep = hub.ep /\ hub.up = "on" /\ reg[f.c].ph = "forwarded" /\ f.id < hub.next
  /\ \A f, g \in fwd : f.c = g.c => f = g
  /\ \A w \in work : w.id < hub.next /\ \A f \in fwd : f.id = w.id => f.c = w.c
  /\ \A a \in wire.hub : a.id < hub.next /\ \A f \in fwd : f.id = a.id => f.c = a.c
  /\ \A a \in wire.page : a.of = a.c
  /\ \A c \in Calls : call[c].of \in {0, c}

RefusedCodes == {"NOT_FOUND", "busy"}
Refused(c) == call[c].out \in RefusedCodes \/ \E a \in wire.page : a.c = c /\ a.code \in RefusedCodes
Reached(c) == reg[c].ph \in {"forwarded", "answered"}

\* A call is idle until it starts, and then stands for an operation; workers
\* take only what the registry does not serve itself.
Started ==
  \A c \in Calls : /\ call[c].ph = "idle" => call[c].op = 0 /\ reg[c].ph = "none"
                   /\ call[c].ph # "idle" => call[c].op \in Calls /\ call[c].m \in Rows
                   /\ reg[c].ph \in {"queued", "forwarded"} => call[c].m.scope # "registry"
\* An operation has the name of the first call for it.
Named == \A c \in Calls : call[c].op # 0 => call[call[c].op].op = call[c].op
\* The hub works for a call, once, only after a worker has taken it, and does
\* not refuse.
Working ==
  /\ \A w \in work : Reached(w.c) /\ \A v \in work : v.c = w.c => v = w
  /\ \A a \in wire.hub : Reached(a.c) /\ a.code \notin RefusedCodes
  /\ \A a \in wire.page : reg[a.c].ph = "answered"
\* A refused call has no work.
Refusing == \A c \in Calls : Refused(c) => reg[c].ph = "answered" /\ \A w \in work : w.c # c
\* What was applied was applied for a call that was not refused.
Applying == \A o \in Calls : applied[o] > 0 => \E d \in Calls : call[d].op = o /\ ~ Refused(d) /\ Reached(d)
Accounted == Started /\ Named /\ Working /\ Refusing /\ Applying

CallsInv == Typed /\ Routed /\ Accounted

\* The number of forwards that wait.
Bounded == IsFiniteSet(fwd) /\ Cardinality(fwd) <= MaxForwards

\* What may still be applied for a call: it is on its way to a worker, or the
\* hub works for it.
MayApply(c) == reg[c].ph \in {"none", "sent", "queued"} \/ \E w \in work : w.c = c

\* The calls for an operation for which nothing will be applied any more, the
\* refused ones left out: each stands for at most one application.
Past(o) == {c \in Calls : call[c].op = o /\ ~ Refused(c) /\ ~ MayApply(c)}
Repeats == \A o \in Calls : applied[o] <= Cardinality(Past(o))

\* A positive answer under way was earned.
Confirmed ==
  /\ \A a \in wire.hub : a.code = "" /\ a.body = "full" => applied[call[a.c].op] > 0
  /\ \A a \in wire.page : a.code = "" /\ (a.body = "full" \/ call[a.c].m.scope = "registry") => applied[call[a.c].op] > 0
  /\ \A a \in wire.page : a.code = "" => a.body # ""
  /\ DoneWasApplied

\* A hub method whose answer is taken for done as it is must say so.
ContentConfirms == Bare => \A r \in Rows : r.scope = "registry" \/ r.shape \notin {"raw", "none"}
-----------------------------------------------------------------------------
\* The columns of the table that the argument uses.
LEMMA TableFacts ==
  \A r \in Table : /\ r.guard \in {"empty", "throw"}
                   /\ r.shape \in {"list", "fields", "sessions", "turns", "status", "ok", "section", "must", "raw", "none"}
<1> DEFINE Good(r) == /\ r.guard \in {"empty", "throw"}
                      /\ r.shape \in {"list", "fields", "sessions", "turns", "status", "ok", "section", "must", "raw", "none"}
<1>1. \A r \in RegistryTable \union FileTable : Good(r)
  BY DEF RegistryTable, FileTable, M
<1>2. \A r \in SessionTable \union HubTable : Good(r)
  BY DEF SessionTable, HubTable, M
<1>3. \A r \in AttachmentTable \union LifecycleTable : Good(r)
  BY DEF AttachmentTable, LifecycleTable, M
<1>4. \A r \in ArchiveTable \union TerminalTable : Good(r)
  BY DEF ArchiveTable, TerminalTable, M
<1>5. \A r \in PackageTable \union SkillTable : Good(r)
  BY DEF PackageTable, SkillTable, M
<1> HIDE DEF Good
<1>6. \A r \in Table : Good(r)
  BY <1>1, <1>2, <1>3, <1>4, <1>5 DEF Table
<1> QED
  BY <1>6 DEF Good

\* A method that is called has its row in the table.
LEMMA RowsInTable ==
  ASSUME CallConstants
  PROVE  \A r \in Rows : r \in Table
<1> SUFFICES ASSUME NEW m \in Methods PROVE Row(m) \in Table
  BY DEF Rows
<1>1. \E r \in Table : r.name = m
  BY DEF CallConstants
<1> QED
  BY <1>1 DEF Row

\* An answer has its fields or, where the hub leaves them out, none.
LEMMA BodyFacts == Bodies \subseteq {"full", "bare"} /\ "full" \in Bodies /\ ("bare" \in Bodies => Bare)
BY DEF Bodies

\* An answer is never read as a refusal or as nothing, and a bare one is read
\* as done only where no content is expected.
LEMMA ResultFacts ==
  ASSUME NEW r, NEW body
  PROVE  /\ Result(r, body) \in {"data", "empty", "defaults", "notok", "done", "throw"}
         /\ Result(r, body) = "done" /\ body # "full" =>
               r.shape \notin {"list", "fields", "sessions", "turns", "status", "ok", "section", "must"}
BY DEF Result, normalizeList, normalizeFields, normalizeSessionSummary, readSessionByMethod, normalizeSessionStatus,
       normalizeOk, hubStateSectionData, requireContent
-----------------------------------------------------------------------------
\* What Settle and Answer change.
LEMMA SettleEffect ==
  ASSUME Typed, NEW c \in Calls, NEW out \in Outcomes \ {""}, NEW of \in Calls \union {0}, Settle(c, out, of)
  PROVE  /\ call' \in [Calls -> CallState]
         /\ call'[c].ph = "done" /\ call'[c].out = out /\ call'[c].of = of /\ call'[c].op = call[c].op /\ call'[c].m = call[c].m
         /\ \A d \in Calls : d # c => call'[d] = call[d]
<1>1. call \in [Calls -> CallState]
  BY DEF Typed
<1>2. call' = [call EXCEPT ![c].ph = "done", ![c].out = out, ![c].of = of]
  BY DEF Settle
<1>3. call[c] \in CallState /\ \A d \in Calls : d # c => call'[d] = call[d]
  BY <1>1, <1>2
<1>4. call'[c] = [call[c] EXCEPT !.ph = "done", !.out = out, !.of = of]
  BY <1>1, <1>2
<1>5. call'[c] \in CallState /\ call'[c].ph = "done" /\ call'[c].out = out /\ call'[c].of = of /\ call'[c].op = call[c].op /\ call'[c].m = call[c].m
  BY <1>3, <1>4 DEF CallState
<1>6. call' \in [Calls -> CallState]
  BY <1>1, <1>2, <1>3, <1>5
<1> QED
  BY <1>3, <1>5, <1>6

\* What handing an answer to the page changes.
LEMMA AnswerEffect ==
  ASSUME Typed, NEW c \in Calls, NEW code \in Codes \union {""}, NEW body \in Bodies \union {""}, NEW of \in Calls,
         Answer(c, code, body, of)
  PROVE  /\ reg' \in [Calls -> RegState] /\ reg'[c].ph = "answered" /\ \A d \in Calls : d # c => reg'[d] = reg[d]
         /\ wire' \in [hub : SUBSET Replies, page : SUBSET Messages] /\ wire'.hub = wire.hub
         /\ \A a \in wire'.page : a \in wire.page \/ (a.c = c /\ a.code = code /\ a.body = body /\ a.of = of)
         /\ wire.page \subseteq wire'.page
<1>1. reg' \in [Calls -> RegState] /\ reg'[c].ph = "answered" /\ \A d \in Calls : d # c => reg'[d] = reg[d]
  BY DEF Answer, Typed, RegState, Phases
<1> DEFINE new == [c |-> c, code |-> code, body |-> body, of |-> of]
<1>2. new \in Messages /\ new.c = c /\ new.code = code /\ new.body = body /\ new.of = of
  BY DEF Messages
<1>3. wire'.hub = wire.hub /\ (wire'.page = wire.page \/ wire'.page = wire.page \union {new})
      /\ wire' = [hub |-> wire'.hub, page |-> wire'.page]
  BY DEF Answer, Typed
<1> HIDE DEF new
<1>4. wire.hub \in SUBSET Replies /\ wire.page \in SUBSET Messages
  BY DEF Typed
<1> QED
  BY <1>1, <1>2, <1>3, <1>4

\* What starting a call changes.
LEMMA StartEffect ==
  ASSUME CallConstants, Typed, NEW c \in Calls, NEW m \in Methods, NEW op \in Calls, Start(c, m, op)
  PROVE  /\ Fresh(c) /\ UNCHANGED <<ready, fwd, hub, work, wire, applied>>
         /\ call' \in [Calls -> CallState]
         /\ call'[c].ph # "idle" /\ call'[c].out \in {"", "empty", "throw"} /\ call'[c].of = 0 /\ call'[c].op = op /\ call'[c].m \in Rows
         /\ call'[c].ph = "done" <=> call'[c].out # ""
         /\ \A d \in Calls : d # c => call'[d] = call[d]
         /\ reg' \in [Calls -> RegState] /\ \A d \in Calls : reg'[d] = reg[d] \/ (d = c /\ reg'[d].ph = "sent")
<1> DEFINE r == Row(m)
<1>1. r \in Rows /\ r.guard \in {"empty", "throw"}
  BY TableFacts, RowsInTable DEF Rows
<1>2. Fresh(c) /\ UNCHANGED <<ready, fwd, hub, work, wire, applied>> /\ (Request(c, r, op) \/ WithoutRepository(c, r, op))
  BY DEF Start, StartHub, StartProject, StartSelected
<1> HIDE DEF r
<1>3. Idle \in CallState /\ Idle.out = "" /\ Idle.of = 0
  BY DEF Idle, CallState, Outcomes
<1>4. CASE Request(c, r, op)
  <2> DEFINE k == [Idle EXCEPT !.m = r, !.ph = "wait", !.op = op]
  <2>1. k \in CallState /\ k.m = r /\ k.ph = "wait" /\ k.out = "" /\ k.of = 0 /\ k.op = op
    BY <1>1, <1>3 DEF CallState, Outcomes
  <2>2. call' = [call EXCEPT ![c] = k] /\ reg' = [reg EXCEPT ![c].ph = "sent"]
    BY <1>4 DEF Request
  <2> HIDE DEF k
  <2>3. call' \in [Calls -> CallState] /\ call'[c] = k /\ \A d \in Calls : d # c => call'[d] = call[d]
    BY <2>1, <2>2 DEF Typed
  <2>4. reg' \in [Calls -> RegState] /\ \A d \in Calls : reg'[d] = reg[d] \/ (d = c /\ reg'[d].ph = "sent")
    BY <2>2 DEF Typed, RegState, Phases
  <2> QED
    BY <1>1, <1>2, <2>1, <2>3, <2>4
<1>5. CASE WithoutRepository(c, r, op)
  <2> DEFINE k == [Idle EXCEPT !.m = r, !.ph = "done", !.out = r.guard, !.op = op]
  <2>1. k \in CallState /\ k.m = r /\ k.ph = "done" /\ k.out = r.guard /\ k.of = 0 /\ k.op = op
    BY <1>1, <1>3 DEF CallState, Outcomes, Codes
  <2>2. call' = [call EXCEPT ![c] = k] /\ reg' = reg
    BY <1>5 DEF WithoutRepository
  <2> HIDE DEF k
  <2>3. call' \in [Calls -> CallState] /\ call'[c] = k /\ \A d \in Calls : d # c => call'[d] = call[d]
    BY <2>1, <2>2 DEF Typed
  <2> QED
    BY <1>1, <1>2, <2>1, <2>2, <2>3 DEF Typed
<1> QED
  BY <1>2, <1>4, <1>5
-----------------------------------------------------------------------------
\* A step keeps the invariant, the count of applications, and the part that
\* holds under a hypothesis.
Keeps ==
  /\ CallsInv'
  /\ Repeats => Repeats'
  /\ ContentConfirms /\ Confirmed => Confirmed'

\* Nothing is applied, no call for an operation loses its past.
LEMMA PastKeeps ==
  ASSUME CallConstants, Repeats, applied \in [Calls -> Nat], applied' = applied,
         \A d \in Calls : call[d].op # 0 => call'[d].op = call[d].op,
         \A d \in Calls : call[d].op # 0 => (MayApply(d)' => MayApply(d)),
         \A d \in Calls : call[d].op # 0 => (Refused(d)' => Refused(d) \/ MayApply(d))
  PROVE  Repeats'
<1> SUFFICES ASSUME NEW o \in Calls PROVE applied'[o] <= Cardinality(Past(o)')
  BY DEF Repeats
<1>1. IsFiniteSet(Calls) /\ 0 \notin Calls
  BY DEF CallConstants
<1>2. Past(o) \subseteq Past(o)'
  <2> SUFFICES ASSUME NEW d \in Calls, call[d].op = o, ~ Refused(d), ~ MayApply(d) PROVE d \in Past(o)'
    BY DEF Past
  <2>1. call'[d].op = o /\ ~ Refused(d)' /\ ~ MayApply(d)'
    BY <1>1
  <2> QED
    BY <2>1 DEF Past
<1>3. Past(o)' \subseteq Calls
  BY DEF Past
<1>4. IsFiniteSet(Past(o)')
  BY <1>1, <1>3, FS_Subset
<1>5. Cardinality(Past(o)) <= Cardinality(Past(o)') /\ Cardinality(Past(o)) \in Nat /\ Cardinality(Past(o)') \in Nat
  BY <1>2, <1>4, FS_Subset, FS_CardinalityType
<1>6. applied[o] <= Cardinality(Past(o)) /\ applied[o] \in Nat
  BY DEF Repeats
<1> QED
  BY <1>5, <1>6

\* Starting a call, for a new operation or again.
LEMMA StartStep ==
  ASSUME CallConstants, CallsInv, NEW c \in Calls, NEW m \in Methods, NEW op \in Calls, Start(c, m, op),
         \/ op = c
         \/ \E b \in Calls : /\ call[b].ph = "done" /\ call[b].out \in RetryCodes /\ call[b].op = op
                             /\ \A d \in Calls : call[d].op = op => d <= b
  PROVE  Keeps
<1>0. Typed /\ Routed /\ Started /\ Named /\ Working /\ Refusing /\ Applying
  BY DEF CallsInv, Accounted
<1>1. /\ Fresh(c) /\ UNCHANGED <<ready, fwd, hub, work, wire, applied>>
      /\ call' \in [Calls -> CallState]
      /\ call'[c].ph # "idle" /\ call'[c].out \in {"", "empty", "throw"} /\ call'[c].of = 0 /\ call'[c].op = op /\ call'[c].m \in Rows
      /\ call'[c].ph = "done" <=> call'[c].out # ""
      /\ \A d \in Calls : d # c => call'[d] = call[d]
      /\ reg' \in [Calls -> RegState] /\ \A d \in Calls : reg'[d] = reg[d] \/ (d = c /\ reg'[d].ph = "sent")
  BY <1>0, StartEffect
<1>2. fwd' = fwd /\ hub' = hub /\ work' = work /\ wire' = wire /\ applied' = applied
  BY <1>1
<1>3. \A d \in Calls : d # c => call'[d] = call[d] /\ reg'[d] = reg[d]
  BY <1>1
<1>4. /\ call'[c].ph # "idle" /\ call'[c].out \in {"", "empty", "throw"} /\ call'[c].of = 0 /\ call'[c].op = op /\ call'[c].m \in Rows
      /\ call'[c].ph = "done" <=> call'[c].out # ""
  BY <1>1
<1>5. call[c].ph = "idle" /\ \A d \in Calls : call[d].ph = "idle" => c <= d
  BY <1>1 DEF Fresh
<1>6. call[c].op = 0 /\ reg[c].ph = "none" /\ Calls \subseteq Nat /\ 0 \notin Calls
  BY <1>0, <1>5 DEF Started, CallConstants
<1>7. reg'[c].ph \in {"none", "sent"}
  BY <1>1, <1>6
<1>8. call[c].out = ""
  BY <1>0, <1>5 DEF Typed
<1>9. \A d \in Calls : Reached(d)' <=> Reached(d)
  <2>1. ~ Reached(c) /\ ~ Reached(c)'
    BY <1>6, <1>7 DEF Reached
  <2> QED
    BY <2>1, <1>3 DEF Reached
<1>10. /\ \A w \in work : w.c \in Calls /\ w.c # c
       /\ \A a \in wire.hub : a.c \in Calls /\ a.c # c
       /\ \A a \in wire.page : a.c \in Calls /\ a.c # c
       /\ \A f \in fwd : f.c \in Calls /\ f.c # c
  <2>1. /\ \A w \in work : w.c \in Calls
        /\ \A a \in wire.hub : a.c \in Calls
        /\ \A a \in wire.page : a.c \in Calls
        /\ \A f \in fwd : f.c \in Calls
    BY <1>0 DEF Typed, Links, Replies, Messages
  <2>2. ~ Reached(c)
    BY <1>6 DEF Reached
  <2>3. \A a \in wire.page : reg[a.c].ph = "answered"
    BY <1>0 DEF Working
  <2>4. \A f \in fwd : reg[f.c].ph = "forwarded"
    BY <1>0 DEF Routed
  <2>5. \A w \in work : Reached(w.c)
    BY <1>0 DEF Working
  <2>6. \A a \in wire.hub : Reached(a.c)
    BY <1>0 DEF Working
  <2> QED
    BY <2>1, <2>2, <2>3, <2>4, <2>5, <2>6, <1>6
<1>11. Typed'
  <2>1. \A d \in Calls : call[d].ph = "done" <=> call[d].out # ""
    BY <1>0 DEF Typed
  <2>2. \A d \in Calls : call'[d].ph = "done" <=> call'[d].out # ""
    BY <2>1, <1>3, <1>4
  <2>3. call' \in [Calls -> CallState] /\ reg' \in [Calls -> RegState]
    BY <1>1
  <2> QED
    BY <1>0, <1>2, <2>2, <2>3 DEF Typed
<1>12. Routed'
  <2>1. \A f \in fwd : reg'[f.c] = reg[f.c]
    BY <1>3, <1>10
  <2>2. \A d \in Calls : call'[d].of \in {0, d}
    BY <1>0, <1>3, <1>4 DEF Routed
  <2> QED
    BY <1>0, <1>2, <2>1, <2>2 DEF Routed
<1>13. ~ Refused(c) /\ ~ Refused(c)'
  BY <1>2, <1>4, <1>8, <1>10 DEF Refused, RefusedCodes
<1>14. \A d \in Calls : Refused(d)' <=> Refused(d)
  <2>1. ASSUME NEW d \in Calls, d # c PROVE Refused(d)' <=> Refused(d)
    BY <2>1, <1>2, <1>3 DEF Refused
  <2> QED
    BY <2>1, <1>13
<1>15. Started'
  <2> SUFFICES ASSUME NEW d \in Calls
               PROVE  /\ call'[d].ph = "idle" => call'[d].op = 0 /\ reg'[d].ph = "none"
                      /\ call'[d].ph # "idle" => call'[d].op \in Calls /\ call'[d].m \in Rows
                      /\ reg'[d].ph \in {"queued", "forwarded"} => call'[d].m.scope # "registry"
    BY DEF Started
  <2>1. CASE d = c
    BY <2>1, <1>4, <1>7
  <2>2. CASE d # c
    BY <2>2, <1>0, <1>3 DEF Started
  <2> QED
    BY <2>1, <2>2
<1>16. op = c \/ (op # c /\ call[op].op = op)
  BY <1>0, <1>6 DEF Named
<1>17. Named'
  <2>1. call'[op].op = op
    BY <1>16, <1>3, <1>4
  <2>2. ASSUME NEW d \in Calls, d # c, call[d].op # 0 PROVE call'[call'[d].op].op = call'[d].op
    <3>1. call[d].op \in Calls /\ call[call[d].op].op = call[d].op
      BY <1>0, <2>2 DEF Named, Started
    <3>2. call[d].op # c
      BY <3>1, <1>6
    <3> QED
      BY <3>1, <3>2, <1>3, <2>2
  <2>3. ASSUME NEW d \in Calls, call'[d].op # 0 PROVE call'[call'[d].op].op = call'[d].op
    BY <2>1, <2>2, <2>3, <1>3, <1>4
  <2> QED
    BY <2>3 DEF Named
<1>18. Working'
  <2>1. \A a \in wire.page : reg'[a.c].ph = "answered"
    BY <1>0, <1>3, <1>10 DEF Working
  <2> QED
    BY <1>0, <1>2, <1>9, <1>10, <2>1 DEF Working
<1>19. Refusing'
  BY <1>0, <1>2, <1>3, <1>13, <1>14 DEF Refusing
<1>20. Applying'
  <2>1. ASSUME NEW o \in Calls, applied[o] > 0 PROVE \E d \in Calls : call'[d].op = o /\ ~ Refused(d)' /\ Reached(d)'
    <3>1. PICK d \in Calls : call[d].op = o /\ ~ Refused(d) /\ Reached(d)
      BY <1>0, <2>1 DEF Applying
    <3>2. d # c
      BY <3>1, <1>6
    <3>3. call'[d].op = o /\ ~ Refused(d)' /\ Reached(d)'
      BY <3>1, <3>2, <1>3, <1>9, <1>14
    <3> QED
      BY <3>3
  <2> QED
    BY <2>1, <1>2 DEF Applying
<1>21. ASSUME Repeats PROVE Repeats'
  <2>1. ASSUME NEW d \in Calls, call[d].op # 0
        PROVE  call'[d].op = call[d].op /\ (MayApply(d)' => MayApply(d)) /\ (Refused(d)' => Refused(d))
    <3>1. d # c
      BY <1>6, <2>1
    <3>2. call'[d] = call[d] /\ reg'[d] = reg[d] /\ work' = work
      BY <1>2, <1>3, <3>1
    <3> QED
      BY <1>14, <3>2 DEF MayApply
  <2>2. applied \in [Calls -> Nat]
    BY <1>0 DEF Typed
  <2> QED
    BY <1>2, <1>21, <2>1, <2>2, PastKeeps
<1>22. ASSUME Confirmed PROVE Confirmed'
  <2>1. /\ \A a \in wire.hub : call'[a.c] = call[a.c]
        /\ \A a \in wire.page : call'[a.c] = call[a.c]
    BY <1>3, <1>10
  <2>2. \A d \in Calls : call'[d].out = "done" => call'[d] = call[d]
    BY <1>3, <1>4
  <2> QED
    BY <1>2, <2>1, <2>2, <1>22 DEF Confirmed, DoneWasApplied
<1> QED
  BY <1>11, <1>12, <1>15, <1>17, <1>18, <1>19, <1>20, <1>21, <1>22 DEF Keeps, CallsInv, Accounted

\* A waiting call is settled, by its timer or by an answer to it.
LEMMA SettleStep ==
  ASSUME CallConstants, CallsInv, NEW c \in Calls, NEW out \in Outcomes \ {""}, NEW of \in {0, c}, call[c].ph = "wait",
         Settle(c, out, of), UNCHANGED <<reg, fwd, hub, work, applied>>,
         wire' \in [hub : SUBSET Replies, page : SUBSET Messages], wire'.hub = wire.hub, wire'.page \subseteq wire.page,
         out \in RefusedCodes => Refused(c),
         ContentConfirms /\ Confirmed /\ out = "done" => applied[call[c].op] > 0
  PROVE  Keeps
<1>0. Typed /\ Routed /\ Started /\ Named /\ Working /\ Refusing /\ Applying
  BY DEF CallsInv, Accounted
<1>1. /\ call' \in [Calls -> CallState]
      /\ call'[c].ph = "done" /\ call'[c].out = out /\ call'[c].of = of /\ call'[c].op = call[c].op /\ call'[c].m = call[c].m
      /\ \A d \in Calls : d # c => call'[d] = call[d]
  <2>1. of \in Calls \union {0}
    OBVIOUS
  <2> QED
    BY <1>0, <2>1, SettleEffect
<1>2. reg' = reg /\ fwd' = fwd /\ hub' = hub /\ work' = work /\ applied' = applied
  OBVIOUS
<1>3. \A d \in Calls : call'[d].op = call[d].op /\ call'[d].m = call[d].m /\ (call'[d].ph = "idle" <=> call[d].ph = "idle")
  BY <1>1
<1>4. Typed'
  <2>0. \A d \in Calls : call[d].ph = "done" <=> call[d].out # ""
    BY <1>0 DEF Typed
  <2>1. ASSUME NEW d \in Calls PROVE call'[d].ph = "done" <=> call'[d].out # ""
    <3>1. CASE d = c
      BY <1>1, <3>1
    <3>2. CASE d # c
      BY <1>1, <2>0, <3>2
    <3> QED
      BY <3>1, <3>2
  <2> QED
    BY <1>0, <1>1, <1>2, <2>1 DEF Typed
<1>5. Routed'
  <2>1. \A d \in Calls : call'[d].of \in {0, d}
    BY <1>0, <1>1 DEF Routed
  <2> QED
    BY <1>0, <1>2, <2>1 DEF Routed
<1>6. \A d \in Calls : Refused(d)' => Refused(d)
  <2>1. ASSUME NEW d \in Calls, d # c, Refused(d)' PROVE Refused(d)
    BY <2>1, <1>1 DEF Refused
  <2>2. ASSUME Refused(c)' PROVE Refused(c)
    BY <2>2, <1>1 DEF Refused
  <2> QED
    BY <2>1, <2>2
<1>7. \A d \in Calls : Reached(d)' <=> Reached(d)
  BY <1>2 DEF Reached
<1>8. Started' /\ Named' /\ Working' /\ Refusing'
  <2>1. Started'
    BY <1>0, <1>2, <1>3, ZenonT(30) DEF Started
  <2>2. Named'
    <3> SUFFICES ASSUME NEW d \in Calls, call'[d].op # 0 PROVE call'[call'[d].op].op = call'[d].op
      BY DEF Named
    <3>1. call[d].op # 0 /\ call'[d].op = call[d].op
      BY <1>3
    <3>2. call[d].op \in Calls /\ call[call[d].op].op = call[d].op
      BY <1>0, <3>1 DEF Named, Started
    <3> QED
      BY <3>1, <3>2, <1>3
  <2>3. Working'
    <3>1. \A w \in work : w.c \in Calls
      BY <1>0 DEF Typed, Links
    <3>2. \A a \in wire.hub : a.c \in Calls
      BY <1>0 DEF Typed, Replies
    <3> QED
      BY <1>0, <1>2, <1>7, <3>1, <3>2 DEF Working
  <2>4. Refusing'
    BY <1>0, <1>2, <1>6 DEF Refusing
  <2> QED
    BY <2>1, <2>2, <2>3, <2>4
<1>9. Applying'
  <2>1. ASSUME NEW o \in Calls, applied[o] > 0 PROVE \E d \in Calls : call'[d].op = o /\ ~ Refused(d)' /\ Reached(d)'
    <3>1. PICK d \in Calls : call[d].op = o /\ ~ Refused(d) /\ Reached(d)
      BY <1>0, <2>1 DEF Applying
    <3>3. call'[d].op = o /\ ~ Refused(d)' /\ Reached(d)'
      BY <3>1, <1>3, <1>6, <1>7
    <3> QED
      BY <3>3
  <2> QED
    BY <2>1, <1>2 DEF Applying
<1>10. ASSUME Repeats PROVE Repeats'
  <2>1. \A d \in Calls : MayApply(d)' <=> MayApply(d)
    BY <1>2 DEF MayApply
  <2>2. applied \in [Calls -> Nat]
    BY <1>0 DEF Typed
  <2> QED
    BY <1>2, <1>3, <1>6, <1>10, <2>1, <2>2, PastKeeps
<1>11. ASSUME ContentConfirms, Confirmed PROVE Confirmed'
  <2>1. /\ \A a \in wire.hub : a.c \in Calls
        /\ \A a \in wire.page : a.c \in Calls
    BY <1>0 DEF Typed, Replies, Messages
  <2>2. \A d \in Calls : call'[d].out = "done" => applied[call'[d].op] > 0
    BY <1>1, <1>11 DEF Confirmed, DoneWasApplied
  <2>3. /\ \A a \in wire.hub : a.code = "" /\ a.body = "full" => applied[call'[a.c].op] > 0
        /\ \A a \in wire.page : a.code = "" /\ (a.body = "full" \/ call'[a.c].m.scope = "registry") => applied[call'[a.c].op] > 0
        /\ \A a \in wire.page : a.code = "" => a.body # ""
    BY <1>3, <2>1, <1>11 DEF Confirmed
  <2> QED
    BY <1>2, <2>2, <2>3 DEF Confirmed, DoneWasApplied
<1> QED
  BY <1>4, <1>5, <1>8, <1>9, <1>10, <1>11 DEF Keeps, CallsInv, Accounted

\* The steps of registry and hub that settle no call and apply nothing: a call
\* only advances in the registry, work begins with a queued call, and an answer
\* comes from the registry, a refusal only before work has begun, or from an
\* answer of the hub.
LEMMA PassStep ==
  ASSUME CallConstants, CallsInv, Typed', Routed', call' = call, applied' = applied,
         \A c \in Calls : /\ reg[c].ph \in {"none", "answered", "dropped"} => reg'[c].ph = reg[c].ph
                          /\ reg[c].ph = "forwarded" => reg'[c].ph \in {"forwarded", "answered"}
                          /\ reg'[c].ph = "none" => reg[c].ph = "none"
                          /\ reg'[c].ph \in {"queued", "forwarded"} => call[c].m.scope # "registry",
         \A w \in work' : \/ w \in work
                          \/ reg[w.c].ph = "queued" /\ reg'[w.c].ph \in {"forwarded"} /\ \A v \in work' : v.c = w.c => v = w,
         wire'.hub \subseteq wire.hub,
         \A a \in wire'.page : \/ a \in wire.page
                               \/ /\ reg'[a.c].ph = "answered" /\ reg[a.c].ph \in {"sent", "queued", "forwarded"}
                                  /\ a.code \in RefusedCodes => reg[a.c].ph # "forwarded" /\ \A w \in work' : w.c # a.c
                                  /\ a.code = "" => /\ call[a.c].m.scope # "registry"
                                                    /\ \E b \in wire.hub : b.code = "" /\ b.c = a.c /\ b.body = a.body
  PROVE  Keeps
<1>0. Typed /\ Routed /\ Started /\ Named /\ Working /\ Refusing /\ Applying
  BY DEF CallsInv, Accounted
<1>1. /\ \A a \in wire.hub : a.c \in Calls /\ a.body \in Bodies
      /\ \A a \in wire'.page : a.c \in Calls
      /\ \A w \in work' : w.c \in Calls
      /\ \A w \in work : w.c \in Calls
  <2>1. wire \in [hub : SUBSET Replies, page : SUBSET Messages] /\ work \in SUBSET Links
    BY <1>0 DEF Typed
  <2>2. wire' \in [hub : SUBSET Replies, page : SUBSET Messages] /\ work' \in SUBSET Links
    BY DEF Typed
  <2> QED
    BY <2>1, <2>2 DEF Replies, Messages, Links
<1>2. \A c \in Calls : Reached(c) => Reached(c)'
  BY DEF Reached
<1>3. ASSUME NEW c \in Calls, Refused(c)', ~ Refused(c)
      PROVE  reg'[c].ph = "answered" /\ reg[c].ph \in {"sent", "queued"} /\ \A w \in work' : w.c # c
  <2>1. PICK a \in wire'.page : a.c = c /\ a.code \in RefusedCodes /\ a \notin wire.page
    BY <1>3 DEF Refused
  <2> QED
    BY <2>1
<1>4. Started' /\ Named'
  <2>1. Started'
    <3> SUFFICES ASSUME NEW c \in Calls
                 PROVE  /\ call'[c].ph = "idle" => call'[c].op = 0 /\ reg'[c].ph = "none"
                        /\ call'[c].ph # "idle" => call'[c].op \in Calls /\ call'[c].m \in Rows
                        /\ reg'[c].ph \in {"queued", "forwarded"} => call'[c].m.scope # "registry"
      BY DEF Started
    <3>1. /\ call[c].ph = "idle" => call[c].op = 0 /\ reg[c].ph = "none"
          /\ call[c].ph # "idle" => call[c].op \in Calls /\ call[c].m \in Rows
      BY <1>0 DEF Started
    <3> QED
      BY <3>1
  <2> QED
    BY <1>0, <2>1 DEF Named
<1>5. Working'
  <2>1. ASSUME NEW w \in work', NEW v \in work', v.c = w.c PROVE Reached(w.c)' /\ v = w
    <3>1. CASE w \in work /\ v \in work
      BY <3>1, <2>1, <1>0, <1>1, <1>2 DEF Working
    <3>2. CASE w \notin work
      BY <3>2, <2>1 DEF Reached
    <3>3. CASE v \notin work
      BY <3>3, <2>1 DEF Reached
    <3> QED
      BY <3>1, <3>2, <3>3
  <2>2. \A a \in wire'.hub : Reached(a.c)' /\ a.code \notin RefusedCodes
    BY <1>0, <1>1, <1>2 DEF Working
  <2>3. ASSUME NEW a \in wire'.page PROVE reg'[a.c].ph = "answered"
    <3>1. a \in wire.page => reg[a.c].ph = "answered"
      BY <1>0 DEF Working
    <3> QED
      BY <3>1, <1>1
  <2> QED
    BY <2>1, <2>2, <2>3 DEF Working
<1>6. Refusing'
  <2>1. ASSUME NEW c \in Calls, Refused(c) PROVE reg'[c].ph = "answered" /\ \A w \in work' : w.c # c
    <3>1. reg[c].ph = "answered" /\ \A w \in work : w.c # c
      BY <2>1, <1>0 DEF Refusing
    <3> QED
      BY <3>1
  <2> QED
    BY <2>1, <1>3 DEF Refusing
<1>7. Applying'
  <2>1. ASSUME NEW o \in Calls, applied[o] > 0 PROVE \E d \in Calls : call[d].op = o /\ ~ Refused(d)' /\ Reached(d)'
    <3>1. PICK d \in Calls : call[d].op = o /\ ~ Refused(d) /\ Reached(d)
      BY <1>0, <2>1 DEF Applying
    <3>2. ~ Refused(d)'
      BY <3>1, <1>3 DEF Reached
    <3> QED
      BY <3>1, <3>2, <1>2
  <2> QED
    BY <2>1 DEF Applying
<1>8. ASSUME Repeats PROVE Repeats'
  <2>1. ASSUME NEW c \in Calls, MayApply(c)' PROVE MayApply(c)
    <3>1. CASE reg'[c].ph \in {"none", "sent", "queued"}
      <4>1. reg[c].ph \in Phases
        BY <1>0 DEF Typed, RegState
      <4> QED
        BY <3>1, <4>1 DEF MayApply, Phases
    <3>2. CASE \E w \in work' : w.c = c
      BY <3>2, ZenonT(30) DEF MayApply
    <3> QED
      BY <2>1, <3>1, <3>2 DEF MayApply
  <2>2. ASSUME NEW c \in Calls, Refused(c)' PROVE Refused(c) \/ MayApply(c)
    BY <1>3, <2>2 DEF MayApply
  <2>3. applied \in [Calls -> Nat]
    BY <1>0 DEF Typed
  <2> QED
    BY <1>8, <2>1, <2>2, <2>3, PastKeeps
<1>9. ASSUME Confirmed PROVE Confirmed'
  <2>1. \A a \in wire'.hub : a.code = "" /\ a.body = "full" => applied[call[a.c].op] > 0
    BY <1>9 DEF Confirmed
  <2>2. ASSUME NEW a \in wire'.page, a.code = ""
        PROVE  a.body # "" /\ (a.body = "full" \/ call[a.c].m.scope = "registry" => applied[call[a.c].op] > 0)
    <3>1. CASE a \in wire.page
      BY <3>1, <2>2, <1>9 DEF Confirmed
    <3>2. CASE a \notin wire.page
      <4>1. PICK b \in wire.hub : b.code = "" /\ b.c = a.c /\ b.body = a.body
        BY <3>2, <2>2
      <4>2. call[a.c].m.scope # "registry"
        BY <3>2, <2>2
      <4>3. b.body # ""
        BY <1>1, BodyFacts
      <4> QED
        BY <4>1, <4>2, <4>3, <1>9, ZenonT(30) DEF Confirmed
    <3> QED
      BY <3>1, <3>2
  <2>3. \A c \in Calls : call[c].out = "done" => applied[call[c].op] > 0
    BY <1>9 DEF Confirmed, DoneWasApplied
  <2> QED
    BY <2>1, <2>2, <2>3 DEF Confirmed, DoneWasApplied
<1> QED
  BY <1>4, <1>5, <1>6, <1>7, <1>8, <1>9 DEF Keeps, CallsInv, Accounted

\* The steps of the page.
LEMMA PageStep ==
  ASSUME CallConstants, CallsInv,
         \/ \E c \in Calls : ClientTimeout(c)
         \/ \E a \in wire.page : Receive(a)
  PROVE  Keeps
<1>0. Typed /\ Routed /\ Started /\ Named /\ Working /\ Refusing /\ Applying
  BY DEF CallsInv, Accounted
<1>1. ASSUME NEW c \in Calls, ClientTimeout(c) PROVE Keeps
  <2>1. "timed out" \in Outcomes \ {""} /\ 0 \in {0, c} /\ "timed out" \notin RefusedCodes
    BY DEF Outcomes, Codes, RefusedCodes
  <2>2. /\ call[c].ph = "wait" /\ Settle(c, "timed out", 0) /\ UNCHANGED <<reg, fwd, hub, work, applied>> /\ wire' = wire
    BY <1>1 DEF ClientTimeout
  <2>3. wire' \in [hub : SUBSET Replies, page : SUBSET Messages] /\ wire'.hub = wire.hub /\ wire'.page \subseteq wire.page
    BY <2>2, <1>0 DEF Typed
  <2> QED
    BY <2>1, <2>2, <2>3, SettleStep
<1>2. ASSUME NEW a \in wire.page, Receive(a) PROVE Keeps
  <2>0. /\ a.c \in Calls /\ a.of = a.c /\ a.code \in Codes \union {""} /\ a.body \in Bodies \union {""}
    BY <1>0 DEF Typed, Messages, Routed
  <2>1. /\ wire' = [wire EXCEPT !.page = @ \ {a}] /\ UNCHANGED <<ready, reg, fwd, hub, work, applied>>
        /\ IF call[a.c].ph = "wait"
           THEN Settle(a.c, IF a.code = "" THEN Result(call[a.c].m, a.body) ELSE a.code, a.of)
           ELSE UNCHANGED call
    BY <1>2 DEF Receive
  <2>2. /\ wire' \in [hub : SUBSET Replies, page : SUBSET Messages] /\ wire'.hub = wire.hub /\ wire'.page \subseteq wire.page
    BY <1>0, <2>1 DEF Typed
  <2>3. CASE call[a.c].ph = "wait"
    <3> DEFINE out == IF a.code = "" THEN Result(call[a.c].m, a.body) ELSE a.code
    <3>1. out \in Outcomes \ {""}
      BY <2>0, ResultFacts DEF Outcomes, Codes
    <3>2. out \in RefusedCodes => Refused(a.c)
      <4>1. Result(call[a.c].m, a.body) \notin RefusedCodes
        BY ResultFacts DEF RefusedCodes
      <4> QED
        BY <4>1, <1>2 DEF Refused
    <3>3. ASSUME ContentConfirms, Confirmed, out = "done" PROVE applied[call[a.c].op] > 0
      <4>1. a.code = "" /\ Result(call[a.c].m, a.body) = "done"
        BY <2>0, <3>3 DEF Codes
      <4>2. CASE a.body = "full"
        BY <4>1, <4>2, <3>3, <1>2 DEF Confirmed
      <4>3. CASE a.body # "full"
        <5>1. a.body # ""
          BY <4>1, <3>3, <1>2 DEF Confirmed
        <5>2. a.body = "bare" /\ Bare
          BY <2>0, <4>3, <5>1, BodyFacts
        <5>3. call[a.c].m \in Rows
          BY <1>0, <2>0, <2>3 DEF Started
        <5>4. call[a.c].m.shape \in {"raw", "none"}
          <6>1. call[a.c].m.shape \in {"list", "fields", "sessions", "turns", "status", "ok", "section", "must", "raw", "none"}
            BY <5>3, RowsInTable, TableFacts
          <6> QED
            BY <6>1, <4>1, <4>3, ResultFacts
        <5>5. call[a.c].m.scope = "registry"
          BY <5>2, <5>3, <5>4, <3>3 DEF ContentConfirms
        <5> QED
          BY <5>5, <4>1, <3>3, <1>2 DEF Confirmed
      <4> QED
        BY <4>2, <4>3
    <3>4. Settle(a.c, out, a.of)
      BY <2>1, <2>3
    <3> HIDE DEF out
    <3> QED
      BY <2>0, <2>1, <2>2, <2>3, <3>1, <3>2, <3>3, <3>4, SettleStep
  <2>4. CASE call[a.c].ph # "wait"
    <3>1. call' = call /\ reg' = reg /\ fwd' = fwd /\ hub' = hub /\ work' = work /\ applied' = applied
      BY <2>1, <2>4
    <3>2. Typed'
      BY <1>0, <2>2, <3>1 DEF Typed
    <3>3. Routed'
      BY <1>0, <2>2, <3>1 DEF Routed
    <3>4. \A c \in Calls : /\ reg'[c].ph \in {"queued", "forwarded"} => call[c].m.scope # "registry"
                           /\ reg'[c] = reg[c]
      BY <1>0, <3>1 DEF Started
    <3>5. \A w \in work' : w \in work
      BY <3>1
    <3> HIDE <2>1
    <3> QED
      BY <2>2, <3>1, <3>2, <3>3, <3>4, <3>5, PassStep
  <2> QED
    BY <2>3, <2>4
<1> QED
  BY <1>1, <1>2
-----------------------------------------------------------------------------
\* An id below the next one stays below it when the next one grows.
LEMMA NextGrows ==
  \A n \in Nat : \A k \in {n, n + 1} : \A x \in Nat : x < n => x < k
OBVIOUS

\* The registry answers a call itself, with an error.
LEMMA ErrorStep ==
  ASSUME CallConstants, CallsInv, NEW c \in Calls, NEW code \in Codes, reg[c].ph \in {"sent", "queued", "forwarded"},
         Answer(c, code, "", c), call' = call, applied' = applied, work' = work,
         hub' \in [ep : 1..MaxEpochs, up : {"on", "closing", "off"}, next : Nat],
         hub'.ep = hub.ep, hub'.up = hub.up, hub'.next \in {hub.next, hub.next + 1},
         fwd' \subseteq fwd, \A f \in fwd' : f.c # c,
         code \in RefusedCodes => reg[c].ph # "forwarded"
  PROVE  Keeps
<1>0. Typed /\ Routed /\ Started /\ Working
  BY DEF CallsInv, Accounted
<1>1. /\ reg' \in [Calls -> RegState] /\ reg'[c].ph = "answered" /\ \A d \in Calls : d # c => reg'[d] = reg[d]
      /\ wire' \in [hub : SUBSET Replies, page : SUBSET Messages] /\ wire'.hub = wire.hub
      /\ \A a \in wire'.page : a \in wire.page \/ (a.c = c /\ a.code = code /\ a.body = "" /\ a.of = c)
      /\ wire.page \subseteq wire'.page
  BY <1>0, AnswerEffect
<1>2. Typed'
  BY <1>0, <1>1 DEF Typed
<1>3. \A x \in Nat : x < hub.next => x < hub'.next
  <2>1. hub.next \in Nat
    BY <1>0 DEF Typed
  <2> QED
    BY <2>1, NextGrows
<1>4. /\ \A f \in fwd : f.c \in Calls /\ f.id \in Nat
      /\ \A w \in work : w.c \in Calls /\ w.id \in Nat
      /\ \A a \in wire.hub : a.id \in Nat
  BY <1>0 DEF Typed, Links, Replies
<1>5. Routed'
  <2>1. ASSUME NEW f \in fwd' PROVE f.ep = hub'.ep /\ hub'.up = "on" /\ reg'[f.c].ph = "forwarded" /\ f.id < hub'.next
    <3>1. f.ep = hub.ep /\ hub.up = "on" /\ reg[f.c].ph = "forwarded" /\ f.id < hub.next
      BY <1>0 DEF Routed
    <3>2. f.c \in Calls /\ f.c # c /\ f.id \in Nat
      BY <1>4
    <3>3. reg'[f.c] = reg[f.c]
      BY <1>1, <3>2
    <3> QED
      BY <3>1, <3>2, <3>3, <1>3
  <2>2. \A w \in work' : w.id < hub'.next /\ \A f \in fwd' : f.id = w.id => f.c = w.c
    BY <1>0, <1>3, <1>4 DEF Routed
  <2>3. ASSUME NEW a \in wire'.hub PROVE a.id < hub'.next /\ \A f \in fwd' : f.id = a.id => f.c = a.c
    <3>1. a \in wire.hub
      BY <1>1
    <3>2. a.id < hub.next /\ \A f \in fwd : f.id = a.id => f.c = a.c
      BY <1>0, <3>1 DEF Routed
    <3>3. a.id \in Nat
      BY <1>4, <3>1
    <3> QED
      BY <1>3, <3>2, <3>3
  <2>4. /\ \A f, g \in fwd' : f.c = g.c => f = g
        /\ \A a \in wire'.page : a.of = a.c
        /\ \A d \in Calls : call'[d].of \in {0, d}
    <3>1. /\ \A f, g \in fwd : f.c = g.c => f = g
          /\ \A a \in wire.page : a.of = a.c
          /\ \A d \in Calls : call[d].of \in {0, d}
      BY <1>0 DEF Routed
    <3>2. \A f, g \in fwd' : f.c = g.c => f = g
      BY <3>1
    <3>3. \A a \in wire'.page : a.of = a.c
      BY <1>1, <3>1
    <3>4. \A d \in Calls : call'[d].of \in {0, d}
      BY <3>1
    <3> QED
      BY <3>2, <3>3, <3>4
  <2> QED
    BY <2>1, <2>2, <2>3, <2>4 DEF Routed
<1>6. \A d \in Calls : /\ reg[d].ph \in {"none", "answered", "dropped"} => reg'[d].ph = reg[d].ph
                       /\ reg[d].ph = "forwarded" => reg'[d].ph \in {"forwarded", "answered"}
                       /\ reg'[d].ph = "none" => reg[d].ph = "none"
                       /\ reg'[d].ph \in {"queued", "forwarded"} => call[d].m.scope # "registry"
  BY <1>0, <1>1 DEF Started
<1>7. \A w \in work' : w \in work
  OBVIOUS
<1>8. code \in RefusedCodes => \A w \in work' : w.c # c
  BY <1>0 DEF Working, Reached
<1>9. code # ""
  BY DEF Codes
<1>10. ASSUME NEW a \in wire'.page, a \notin wire.page
       PROVE  /\ reg'[a.c].ph = "answered" /\ reg[a.c].ph \in {"sent", "queued", "forwarded"}
              /\ a.code \in RefusedCodes => reg[a.c].ph # "forwarded" /\ \A w \in work' : w.c # a.c
              /\ a.code # ""
  BY <1>1, <1>8, <1>9, <1>10
<1>11. wire'.hub \subseteq wire.hub
  BY <1>1
<1> QED
  BY <1>2, <1>5, <1>6, <1>7, <1>10, <1>11, PassStep

\* dispatch puts a call in the queue.
LEMMA QueueStep ==
  ASSUME CallConstants, CallsInv, NEW c \in Calls, NEW q \in BOOLEAN, reg[c].ph = "sent", call[c].m.scope # "registry",
         reg' = [reg EXCEPT ![c].ph = "queued", ![c].queued = q],
         UNCHANGED <<call, ready, fwd, hub, work, wire, applied>>
  PROVE  Keeps
<1>0. Typed /\ Routed /\ Started /\ Working
  BY DEF CallsInv, Accounted
<1>1. /\ reg' \in [Calls -> RegState] /\ reg'[c].ph = "queued" /\ \A d \in Calls : d # c => reg'[d] = reg[d]
  BY <1>0 DEF Typed, RegState, Phases
<1>2. call' = call /\ fwd' = fwd /\ hub' = hub /\ work' = work /\ wire' = wire /\ applied' = applied
  OBVIOUS
<1>3. Typed'
  BY <1>0, <1>1, <1>2, ZenonT(30) DEF Typed
<1>4. \A f \in fwd : reg'[f.c].ph = "forwarded"
  <2>1. \A f \in fwd : f.c \in Calls /\ reg[f.c].ph = "forwarded"
    BY <1>0 DEF Typed, Links, Routed
  <2> QED
    BY <2>1, <1>1
<1>5. Routed'
  BY <1>0, <1>2, <1>4 DEF Routed
<1>6. \A d \in Calls : /\ reg[d].ph \in {"none", "answered", "dropped"} => reg'[d].ph = reg[d].ph
                       /\ reg[d].ph = "forwarded" => reg'[d].ph \in {"forwarded", "answered"}
                       /\ reg'[d].ph = "none" => reg[d].ph = "none"
                       /\ reg'[d].ph \in {"queued", "forwarded"} => call[d].m.scope # "registry"
  BY <1>0, <1>1 DEF Started
<1>7. (\A w \in work' : w \in work) /\ wire'.hub \subseteq wire.hub /\ (\A a \in wire'.page : a \in wire.page)
  BY <1>2
<1> QED
  BY <1>2, <1>3, <1>5, <1>6, <1>7, PassStep

\* A worker forwards a call to the hub, under an id that nobody has.
LEMMA ForwardStep ==
  ASSUME CallConstants, CallsInv, NEW c \in Calls, reg[c].ph = "queued", hub.up = "on",
         fwd' = fwd \union {[id |-> hub.next, c |-> c, ep |-> hub.ep]},
         work' = work \union {[id |-> hub.next, c |-> c, ep |-> hub.ep]},
         reg' = [reg EXCEPT ![c].ph = "forwarded"], hub' = [hub EXCEPT !.next = @ + 1],
         call' = call, wire' = wire, applied' = applied
  PROVE  Keeps
<1>0. Typed /\ Routed /\ Started /\ Working
  BY DEF CallsInv, Accounted
<1> DEFINE l == [id |-> hub.next, c |-> c, ep |-> hub.ep]
<1>1. /\ reg' \in [Calls -> RegState] /\ reg'[c].ph = "forwarded" /\ \A d \in Calls : d # c => reg'[d] = reg[d]
  BY <1>0 DEF Typed, RegState, Phases
<1>2. /\ hub' \in [ep : 1..MaxEpochs, up : {"on", "closing", "off"}, next : Nat]
      /\ hub'.ep = hub.ep /\ hub'.up = "on" /\ hub'.next = hub.next + 1 /\ hub.next \in Nat
  <2>1. hub \in [ep : 1..MaxEpochs, up : {"on", "closing", "off"}, next : Nat]
    BY <1>0 DEF Typed
  <2> QED
    BY <2>1
<1>3. l \in Links /\ l.id = hub.next /\ l.c = c /\ l.ep = hub.ep
  <2>1. hub.ep \in 1..MaxEpochs
    BY <1>0 DEF Typed
  <2>2. hub.ep \in Nat
    BY <2>1 DEF CallConstants
  <2> QED
    BY <1>2, <2>2 DEF Links
<1>4. fwd' = fwd \union {l} /\ work' = work \union {l}
  OBVIOUS
<1> HIDE DEF l
<1>5. Typed'
  BY <1>0, <1>1, <1>2, <1>3, <1>4 DEF Typed
<1>6. \A x \in Nat : x < hub.next => x < hub'.next /\ x # hub.next
  BY <1>2
<1>7. /\ \A f \in fwd : f.c \in Calls /\ f.id \in Nat /\ f.c # c /\ f.id < hub.next
      /\ \A w \in work : w.c \in Calls /\ w.id \in Nat /\ w.c # c /\ w.id < hub.next
      /\ \A a \in wire.hub : a.id \in Nat /\ a.id < hub.next
  <2>1. /\ \A f \in fwd : f.c \in Calls /\ f.id \in Nat
        /\ \A w \in work : w.c \in Calls /\ w.id \in Nat
        /\ \A a \in wire.hub : a.id \in Nat
    BY <1>0 DEF Typed, Links, Replies
  <2>2. /\ \A f \in fwd : reg[f.c].ph = "forwarded" /\ f.id < hub.next
        /\ \A w \in work : w.id < hub.next
        /\ \A a \in wire.hub : a.id < hub.next
    BY <1>0 DEF Routed
  <2>3. \A w \in work : reg[w.c].ph # "queued"
    BY <1>0 DEF Working, Reached
  <2> QED
    BY <2>1, <2>2, <2>3
<1>8. Routed'
  <2>1. ASSUME NEW f \in fwd' PROVE f.ep = hub'.ep /\ hub'.up = "on" /\ reg'[f.c].ph = "forwarded" /\ f.id < hub'.next
    <3>1. CASE f = l
      BY <3>1, <1>1, <1>2, <1>3
    <3>2. CASE f \in fwd
      BY <3>2, <1>0, <1>1, <1>2, <1>6, <1>7 DEF Routed
    <3> QED
      BY <3>1, <3>2, <1>4
  <2>2. ASSUME NEW f \in fwd', NEW g \in fwd', f.c = g.c PROVE f = g
    <3>1. CASE f \in fwd /\ g \in fwd
      BY <3>1, <2>2, <1>0 DEF Routed
    <3> QED
      BY <3>1, <2>2, <1>3, <1>4, <1>7
  <2>3. ASSUME NEW w \in work', NEW f \in fwd', f.id = w.id PROVE f.c = w.c
    <3>1. CASE f \in fwd /\ w \in work
      BY <3>1, <2>3, <1>0 DEF Routed
    <3>2. CASE f = l /\ w = l
      BY <3>2
    <3>3. CASE f = l /\ w \in work
      BY <3>3, <2>3, <1>3, <1>6, <1>7
    <3>4. CASE f \in fwd /\ w = l
      BY <3>4, <2>3, <1>3, <1>6, <1>7
    <3> QED
      BY <3>1, <3>2, <3>3, <3>4, <1>4
  <2>4. ASSUME NEW a \in wire.hub, NEW f \in fwd', f.id = a.id PROVE f.c = a.c
    <3>1. CASE f \in fwd
      BY <3>1, <2>4, <1>0 DEF Routed
    <3>2. CASE f = l
      BY <3>2, <2>4, <1>3, <1>6, <1>7
    <3> QED
      BY <3>1, <3>2, <1>4
  <2>5. (\A w \in work' : w.id < hub'.next) /\ (\A a \in wire.hub : a.id < hub'.next)
    BY <1>2, <1>3, <1>4, <1>6, <1>7
  <2>6. (\A a \in wire.page : a.of = a.c) /\ \A d \in Calls : call[d].of \in {0, d}
    BY <1>0 DEF Routed
  <2> QED
    BY <2>1, <2>2, <2>3, <2>4, <2>5, <2>6 DEF Routed
<1>9. \A d \in Calls : /\ reg[d].ph \in {"none", "answered", "dropped"} => reg'[d].ph = reg[d].ph
                       /\ reg[d].ph = "forwarded" => reg'[d].ph \in {"forwarded", "answered"}
                       /\ reg'[d].ph = "none" => reg[d].ph = "none"
                       /\ reg'[d].ph \in {"queued", "forwarded"} => call[d].m.scope # "registry"
  BY <1>0, <1>1 DEF Started
<1>10. \A w \in work' : \/ w \in work
                        \/ reg[w.c].ph = "queued" /\ reg'[w.c].ph \in {"forwarded"} /\ \A v \in work' : v.c = w.c => v = w
  BY <1>1, <1>3, <1>4, <1>7
<1>11. wire'.hub \subseteq wire.hub /\ (\A a \in wire'.page : a \in wire.page)
  OBVIOUS
<1> QED
  BY <1>5, <1>8, <1>9, <1>10, <1>11, PassStep

\* dispatch, when the registry does not serve the call itself, and the workers.
LEMMA WorkerStep ==
  ASSUME CallConstants, CallsInv, NEW c \in Calls,
         (dispatch(c) /\ call[c].m.scope # "registry") \/ execute(c)
  PROVE  Keeps
<1>0. Typed
  BY DEF CallsInv
<1>1. hub \in [ep : 1..MaxEpochs, up : {"on", "closing", "off"}, next : Nat]
  BY <1>0 DEF Typed
<1>2. \A f \in fwd : f.c \in Calls /\ reg[f.c].ph = "forwarded"
  BY DEF CallsInv, Typed, Links, Routed
<1>3. CASE dispatch(c) /\ call[c].m.scope # "registry"
  <2>1. /\ reg[c].ph = "sent" /\ UNCHANGED <<call, ready, fwd, hub, work>> /\ UNCHANGED applied
        /\ \/ Answer(c, "busy", "", c)
           \/ reg' = [reg EXCEPT ![c].ph = "queued", ![c].queued = Cardinality(Busy) + Cardinality(Queue) >= Workers] /\ UNCHANGED wire
    BY <1>3 DEF dispatch
  <2>2. CASE Answer(c, "busy", "", c)
    <3>1. "busy" \in Codes
      BY DEF Codes
    <3>2. call' = call /\ applied' = applied /\ work' = work /\ hub' = hub /\ fwd' = fwd /\ reg[c].ph = "sent"
      BY <2>1
    <3>3. \A f \in fwd' : f.c # c
      BY <3>2, <1>2
    <3> QED
      BY <1>1, <2>2, <3>1, <3>2, <3>3, ErrorStep
  <2>3. CASE reg' = [reg EXCEPT ![c].ph = "queued", ![c].queued = Cardinality(Busy) + Cardinality(Queue) >= Workers] /\ UNCHANGED wire
    <3> DEFINE q == Cardinality(Busy) + Cardinality(Queue) >= Workers
    <3>1. q \in BOOLEAN
      OBVIOUS
    <3>2. reg' = [reg EXCEPT ![c].ph = "queued", ![c].queued = q]
      BY <2>3
    <3>3. UNCHANGED <<call, ready, fwd, hub, work, wire, applied>> /\ reg[c].ph = "sent"
      BY <2>1, <2>3
    <3> HIDE DEF q
    <3> QED
      BY <1>3, <3>1, <3>2, <3>3, QueueStep
  <2> QED
    BY <2>1, <2>2, <2>3
<1>4. CASE execute(c)
  <2> DEFINE l == [id |-> hub.next, c |-> c, ep |-> hub.ep]
  <2>1. /\ reg[c].ph = "queued" /\ call' = call /\ applied' = applied
        /\ \/ hub.up = "off" /\ Answer(c, "NOT_FOUND", "", c) /\ fwd' = fwd /\ work' = work /\ hub' = hub
           \/ /\ hub.up # "off" /\ hub' = [hub EXCEPT !.next = @ + 1]
              /\ \/ (Answer(c, "busy", "", c) \/ Answer(c, "INTERNAL", "", c)) /\ fwd' = fwd /\ work' = work
                 \/ /\ hub.up # "closing" /\ fwd' = fwd \union {l} /\ work' = work \union {l}
                    /\ reg' = [reg EXCEPT ![c].ph = "forwarded"] /\ wire' = wire
    BY <1>4 DEF execute, Forward, freshForwardId
  <2>2. /\ "NOT_FOUND" \in Codes /\ "busy" \in Codes /\ "INTERNAL" \in Codes
    BY DEF Codes
  <2>3. fwd' = fwd => \A f \in fwd' : f.c # c
    BY <1>2, <2>1
  <2>4. CASE hub.up = "off" /\ Answer(c, "NOT_FOUND", "", c) /\ fwd' = fwd /\ work' = work /\ hub' = hub
    BY <1>1, <2>1, <2>2, <2>3, <2>4, ErrorStep
  <2>5. ASSUME hub.up # "off", hub' = [hub EXCEPT !.next = @ + 1]
        PROVE  /\ hub' \in [ep : 1..MaxEpochs, up : {"on", "closing", "off"}, next : Nat]
               /\ hub'.ep = hub.ep /\ hub'.up = hub.up /\ hub'.next \in {hub.next, hub.next + 1}
    BY <1>1, <2>5
  <2>6. ASSUME NEW code \in {"busy", "INTERNAL"}, hub.up # "off", hub' = [hub EXCEPT !.next = @ + 1], Answer(c, code, "", c),
               fwd' = fwd, work' = work
        PROVE  Keeps
    <3>1. code \in Codes
      BY <2>2
    <3>2. reg[c].ph \in {"sent", "queued", "forwarded"} /\ reg[c].ph # "forwarded" /\ call' = call /\ applied' = applied
      BY <2>1
    <3>3. fwd' \subseteq fwd /\ \A f \in fwd' : f.c # c
      BY <2>3, <2>6
    <3> QED
      BY <2>5, <2>6, <3>1, <3>2, <3>3, ErrorStep
  <2>7. CASE /\ hub.up # "off" /\ hub.up # "closing" /\ hub' = [hub EXCEPT !.next = @ + 1]
             /\ fwd' = fwd \union {l} /\ work' = work \union {l} /\ reg' = [reg EXCEPT ![c].ph = "forwarded"] /\ wire' = wire
    <3>1. hub.up = "on"
      BY <1>1, <2>7
    <3> QED
      BY <2>1, <2>7, <3>1, ForwardStep
  <2> QED
    BY <2>1, <2>4, <2>6, <2>7
<1> QED
  BY <1>3, <1>4

\* The timer of a forward.
LEMMA TimeoutStep ==
  ASSUME CallConstants, CallsInv, NEW f \in fwd, ForwardTimeout(f)
  PROVE  Keeps
<1>1. /\ f.c \in Calls /\ reg[f.c].ph = "forwarded" /\ \A g \in fwd : g.c = f.c => g = f
  BY DEF CallsInv, Typed, Links, Routed
<1>2. hub \in [ep : 1..MaxEpochs, up : {"on", "closing", "off"}, next : Nat]
  BY DEF CallsInv, Typed
<1>3. /\ Answer(f.c, "TIMEOUT", "", f.c) /\ fwd' = fwd \ {f} /\ call' = call /\ hub' = hub /\ work' = work /\ applied' = applied
  BY DEF ForwardTimeout
<1>4. fwd' \subseteq fwd /\ \A g \in fwd' : g.c # f.c
  BY <1>1, <1>3
<1>5. "TIMEOUT" \in Codes /\ "TIMEOUT" \notin RefusedCodes
  BY DEF Codes, RefusedCodes
<1> QED
  BY <1>1, <1>2, <1>3, <1>4, <1>5, ErrorStep

\* An answer of the hub is handed on to the call of its forward, or dropped.
LEMMA ResolveStep ==
  ASSUME CallConstants, CallsInv, NEW b \in wire.hub, resolvePending(b)
  PROVE  Keeps
<1>0. Typed /\ Routed /\ Started
  BY DEF CallsInv, Accounted
<1>1. call' = call /\ hub' = hub /\ work' = work /\ applied' = applied
  BY DEF resolvePending
<1>2. b.c \in Calls /\ b.code \in Codes \union {""} /\ b.body \in Bodies
  BY <1>0 DEF Typed, Replies
<1>3. wire.hub \in SUBSET Replies /\ wire.page \in SUBSET Messages
  BY <1>0 DEF Typed
<1>4. ASSUME NEW f \in fwd, f.id = b.id, f.ep = b.ep, fwd' = fwd \ {f}, reg' = [reg EXCEPT ![f.c].ph = "answered"],
             wire' = [hub |-> wire.hub \ {b}, page |-> IF call[f.c].out = "closed" THEN wire.page
                        ELSE wire.page \union {[c |-> f.c, code |-> b.code, body |-> b.body, of |-> b.c]}]
      PROVE  Keeps
  <2>1. f.c \in Calls /\ f.c = b.c /\ reg[f.c].ph = "forwarded" /\ \A g \in fwd : g.c = f.c => g = f
    BY <1>0, <1>4 DEF Typed, Links, Routed
  <2>2. reg' \in [Calls -> RegState] /\ reg'[f.c].ph = "answered" /\ \A d \in Calls : d # f.c => reg'[d] = reg[d]
    BY <1>0, <1>4, <2>1, ZenonT(30) DEF Typed, RegState, Phases
  <2> DEFINE new == [c |-> f.c, code |-> b.code, body |-> b.body, of |-> b.c]
  <2>3. new \in Messages /\ new.c = f.c /\ new.code = b.code /\ new.body = b.body /\ new.of = f.c
    BY <1>2, <2>1 DEF Messages
  <2>4. wire'.hub = wire.hub \ {b} /\ (\A a \in wire'.page : a \in wire.page \/ a = new)
        /\ wire' \in [hub : SUBSET Replies, page : SUBSET Messages]
    BY <1>3, <1>4, <2>3
  <2> HIDE DEF new
  <2>5. Typed'
    <3>1. fwd' \in SUBSET Links
      BY <1>0, <1>4 DEF Typed
    <3> QED
      BY <1>0, <1>1, <2>2, <2>4, <3>1 DEF Typed
  <2>6. Routed'
    <3>1. \A g \in fwd' : g \in fwd /\ g.c \in Calls /\ g.c # f.c
      BY <1>0, <1>4, <2>1 DEF Typed, Links
    <3>2. \A g \in fwd' : reg'[g.c].ph = "forwarded"
      BY <1>0, <2>2, <3>1 DEF Routed
    <3>3. \A a \in wire'.page : a.of = a.c
      BY <1>0, <2>3, <2>4 DEF Routed
    <3> QED
      BY <1>0, <1>1, <2>4, <3>1, <3>2, <3>3 DEF Routed
  <2>7. \A d \in Calls : /\ reg[d].ph \in {"none", "answered", "dropped"} => reg'[d].ph = reg[d].ph
                         /\ reg[d].ph = "forwarded" => reg'[d].ph \in {"forwarded", "answered"}
                         /\ reg'[d].ph = "none" => reg[d].ph = "none"
                         /\ reg'[d].ph \in {"queued", "forwarded"} => call[d].m.scope # "registry"
    BY <1>0, <2>1, <2>2 DEF Started
  <2>8. b.code \notin RefusedCodes
    BY DEF CallsInv, Accounted, Working
  <2>9. call[f.c].m.scope # "registry"
    BY <1>0, <2>1 DEF Started
  <2>10. \A a \in wire'.page : \/ a \in wire.page
                               \/ /\ reg'[a.c].ph = "answered" /\ reg[a.c].ph \in {"sent", "queued", "forwarded"}
                                  /\ a.code \notin RefusedCodes
                                  /\ a.code = "" => /\ call[a.c].m.scope # "registry"
                                                    /\ \E x \in wire.hub : x.code = "" /\ x.c = a.c /\ x.body = a.body
    BY <2>1, <2>2, <2>3, <2>4, <2>8, <2>9
  <2>11. (\A w \in work' : w \in work) /\ wire'.hub \subseteq wire.hub
    BY <1>1, <2>4
  <2> QED
    BY <1>1, <2>5, <2>6, <2>7, <2>10, <2>11, PassStep
<1>5. ASSUME wire' = [wire EXCEPT !.hub = @ \ {b}], fwd' = fwd, reg' = reg PROVE Keeps
  <2>1. /\ wire' \in [hub : SUBSET Replies, page : SUBSET Messages] /\ wire'.hub \subseteq wire.hub /\ wire'.page = wire.page
    BY <1>0, <1>5 DEF Typed
  <2>2. Typed'
    BY <1>0, <1>1, <1>5, <2>1 DEF Typed
  <2>3. Routed'
    BY <1>0, <1>1, <1>5, <2>1 DEF Routed
  <2>4. \A d \in Calls : /\ reg'[d].ph \in {"queued", "forwarded"} => call[d].m.scope # "registry"
                         /\ reg'[d] = reg[d]
    BY <1>0, <1>5 DEF Started
  <2>5. (\A w \in work' : w \in work) /\ wire'.hub \subseteq wire.hub /\ (\A a \in wire'.page : a \in wire.page)
    BY <1>1, <2>1
  <2> QED
    BY <1>1, <2>2, <2>3, <2>4, <2>5, PassStep
<1> QED
  BY <1>4, <1>5 DEF resolvePending

\* The connection of the hub ends, and a new one is reported.
LEMMA LinkStep ==
  ASSUME CallConstants, CallsInv, dropAllPending \/ unregisterHub \/ HubReports \/ Reopen
  PROVE  Keeps
<1>0. Typed /\ Routed /\ Started
  BY DEF CallsInv, Accounted
<1>1. hub \in [ep : 1..MaxEpochs, up : {"on", "closing", "off"}, next : Nat]
  BY <1>0 DEF Typed
<1>2. CASE dropAllPending
  <2> DEFINE lost == {f.c : f \in {g \in fwd : g.ep = hub.ep}}
             news == {[c |-> c, code |-> "INTERNAL", body |-> "", of |-> c] : c \in {d \in lost : call[d].out # "closed"}}
  <2>1. /\ hub.up = "on" /\ hub' = [hub EXCEPT !.up = "closing"]
        /\ reg' = [c \in Calls |-> IF c \in lost THEN [reg[c] EXCEPT !.ph = "answered"] ELSE reg[c]]
        /\ wire' = [hub |-> {a \in wire.hub : a.ep # hub.ep}, page |-> wire.page \union news]
        /\ fwd' = {f \in fwd : f.ep # hub.ep} /\ call' = call /\ work' = work /\ applied' = applied
    BY <1>2 DEF dropAllPending
  <2>2. lost \subseteq Calls /\ \A c \in lost : reg[c].ph = "forwarded"
    <3>1. \A f \in fwd : f.c \in Calls
      BY <1>0 DEF Typed, Links
    <3>2. \A f \in fwd : reg[f.c].ph = "forwarded"
      BY <1>0 DEF Routed
    <3> QED
      BY <3>1, <3>2
  <2>3. ASSUME NEW a \in news PROVE a \in Messages /\ a.c \in lost /\ a.of = a.c /\ a.code = "INTERNAL"
    <3>0. "INTERNAL" \in Codes
      BY DEF Codes
    <3> HIDE DEF lost
    <3>1. PICK c \in lost : a = [c |-> c, code |-> "INTERNAL", body |-> "", of |-> c]
      OBVIOUS
    <3>2. c \in Calls
      BY <2>2
    <3> QED
      BY <3>0, <3>1, <3>2 DEF Messages
  <2>4. fwd' = {}
    BY <1>0, <2>1 DEF Routed
  <2> HIDE DEF lost, news
  <2>5. reg' \in [Calls -> RegState] /\ \A d \in Calls : IF d \in lost THEN reg'[d].ph = "answered" ELSE reg'[d] = reg[d]
    BY <1>0, <2>1 DEF Typed, RegState, Phases
  <2>6. /\ wire'.hub \subseteq wire.hub /\ wire'.page = wire.page \union news
        /\ wire' \in [hub : SUBSET Replies, page : SUBSET Messages]
    <3>1. wire.hub \in SUBSET Replies /\ wire.page \in SUBSET Messages
      BY <1>0 DEF Typed
    <3> QED
      BY <2>1, <2>3, <3>1
  <2>7. hub' \in [ep : 1..MaxEpochs, up : {"on", "closing", "off"}, next : Nat] /\ hub'.next = hub.next
    BY <1>1, <2>1
  <2>8. Typed'
    BY <1>0, <2>1, <2>4, <2>5, <2>6, <2>7 DEF Typed
  <2>9. Routed'
    <3>1. \A a \in wire'.page : a.of = a.c
      BY <1>0, <2>3, <2>6 DEF Routed
    <3> QED
      BY <1>0, <2>1, <2>4, <2>6, <2>7, <3>1 DEF Routed
  <2>10. \A d \in Calls : /\ reg[d].ph \in {"none", "answered", "dropped"} => reg'[d].ph = reg[d].ph
                          /\ reg[d].ph = "forwarded" => reg'[d].ph \in {"forwarded", "answered"}
                          /\ reg'[d].ph = "none" => reg[d].ph = "none"
                          /\ reg'[d].ph \in {"queued", "forwarded"} => call[d].m.scope # "registry"
    BY <1>0, <2>2, <2>5 DEF Started
  <2>11. \A a \in wire'.page : \/ a \in wire.page
                               \/ /\ reg'[a.c].ph = "answered" /\ reg[a.c].ph \in {"sent", "queued", "forwarded"}
                                  /\ a.code \notin RefusedCodes /\ a.code # ""
    BY <2>2, <2>3, <2>5, <2>6 DEF RefusedCodes
  <2>12. \A w \in work' : w \in work
    BY <2>1
  <2>13. call' = call /\ applied' = applied /\ wire'.hub \subseteq wire.hub
    BY <2>1, <2>6
  <2> QED
    BY <2>8, <2>9, <2>10, <2>11, <2>12, <2>13, PassStep
<1>3. CASE unregisterHub \/ HubReports \/ Reopen
  <2>1. /\ call' = call /\ reg' = reg /\ fwd' = fwd /\ work' = work /\ wire' = wire /\ applied' = applied
    BY <1>3 DEF unregisterHub, HubReports, Reopen
  <2>2. /\ hub' \in [ep : 1..MaxEpochs, up : {"on", "closing", "off"}, next : Nat] /\ hub'.next = hub.next
        /\ hub' = hub \/ hub.up # "on"
    <3>1. CASE unregisterHub
      BY <1>1, <3>1 DEF unregisterHub
    <3>2. CASE Reopen
      BY <1>1, <3>2 DEF Reopen
    <3>3. CASE HubReports
      <4>1. hub.up = "off" /\ hub.ep < MaxEpochs /\ hub' = [hub EXCEPT !.up = "on", !.ep = @ + 1]
        BY <3>3 DEF HubReports
      <4>2. hub.ep \in 1..MaxEpochs /\ MaxEpochs \in Nat
        BY <1>1 DEF CallConstants
      <4>3. hub.ep + 1 \in 1..MaxEpochs
        BY <4>1, <4>2
      <4> QED
        BY <1>1, <4>1, <4>3
    <3> QED
      BY <1>3, <3>1, <3>2, <3>3
  <2>3. fwd = {} \/ hub' = hub
    BY <1>0, <2>2 DEF Routed
  <2>4. Typed'
    BY <1>0, <2>1, <2>2 DEF Typed
  <2>5. Routed'
    BY <1>0, <2>1, <2>2, <2>3 DEF Routed
  <2>6. \A d \in Calls : /\ reg'[d].ph \in {"queued", "forwarded"} => call[d].m.scope # "registry"
                         /\ reg'[d] = reg[d]
    BY <1>0, <2>1 DEF Started
  <2>7. (\A w \in work' : w \in work) /\ wire'.hub \subseteq wire.hub /\ (\A a \in wire'.page : a \in wire.page)
    BY <2>1
  <2> QED
    BY <2>1, <2>4, <2>5, <2>6, <2>7, PassStep
<1> QED
  BY <1>2, <1>3
-----------------------------------------------------------------------------
\* Something is applied for a call that nothing will be applied for any more.
LEMMA ApplyRepeats ==
  ASSUME CallConstants, CallsInv, Repeats, NEW c \in Calls, call[c].op \in Calls, MayApply(c), call' = call,
         ~ MayApply(c)', ~ Refused(c)', \A d \in Calls : (MayApply(d)' => MayApply(d)) /\ (Refused(d)' => Refused(d)),
         applied' = applied \/ applied' = [applied EXCEPT ![call[c].op] = @ + 1]
  PROVE  Repeats'
<1> SUFFICES ASSUME NEW o \in Calls PROVE applied'[o] <= Cardinality(Past(o)')
  BY DEF Repeats
<1>1. applied \in [Calls -> Nat] /\ IsFiniteSet(Calls)
  BY DEF CallsInv, Typed, CallConstants
<1>2. Past(o) \subseteq Past(o)' /\ c \notin Past(o) /\ (o = call[c].op => c \in Past(o)')
  BY DEF Past
<1>3. Past(o)' \subseteq Calls /\ Past(o) \subseteq Calls
  BY DEF Past
<1>4. IsFiniteSet(Past(o)') /\ IsFiniteSet(Past(o))
  BY <1>1, <1>3, FS_Subset
<1>5. /\ Cardinality(Past(o)) <= Cardinality(Past(o)') /\ Cardinality(Past(o)) \in Nat /\ Cardinality(Past(o)') \in Nat
      /\ applied[o] <= Cardinality(Past(o)) /\ applied[o] \in Nat
  BY <1>1, <1>2, <1>4, FS_Subset, FS_CardinalityType DEF Repeats
<1>6. CASE applied'[o] = applied[o]
  BY <1>5, <1>6
<1>7. CASE o = call[c].op /\ applied'[o] = applied[o] + 1
  <2>1. Past(o) \union {c} \subseteq Past(o)'
    BY <1>2, <1>7
  <2>2. Cardinality(Past(o) \union {c}) = Cardinality(Past(o)) + 1
    BY <1>2, <1>4, FS_AddElement
  <2>3. Cardinality(Past(o) \union {c}) <= Cardinality(Past(o)')
    BY <1>4, <2>1, FS_Subset
  <2> QED
    BY <1>5, <1>7, <2>2, <2>3
<1> QED
  BY <1>1, <1>6, <1>7

\* One more for one operation.
LEMMA Incremented ==
  ASSUME NEW S, NEW f \in [S -> Nat], NEW g, NEW o \in S, g = [f EXCEPT ![o] = @ + 1]
  PROVE  /\ g \in [S -> Nat] /\ g[o] > 0
         /\ \A x \in S : (f[x] > 0 => g[x] > 0) /\ (x # o => g[x] = f[x])
OBVIOUS

\* The registry serves a call itself.
LEMMA ServeStep ==
  ASSUME CallConstants, CallsInv, NEW c \in Calls, dispatch(c), call[c].m.scope = "registry"
  PROVE  Keeps
<1>0. Typed /\ Routed /\ Started /\ Named /\ Working /\ Refusing /\ Applying
  BY DEF CallsInv, Accounted
<1>1. PICK b \in Bodies : /\ reg[c].ph = "sent" /\ Answer(c, "", b, c) /\ applied' = [applied EXCEPT ![call[c].op] = @ + 1]
                          /\ call' = call /\ fwd' = fwd /\ hub' = hub /\ work' = work
  BY DEF dispatch
<1>2. /\ reg' \in [Calls -> RegState] /\ reg'[c].ph = "answered" /\ \A d \in Calls : d # c => reg'[d] = reg[d]
      /\ wire' \in [hub : SUBSET Replies, page : SUBSET Messages] /\ wire'.hub = wire.hub
      /\ \A a \in wire'.page : a \in wire.page \/ (a.c = c /\ a.code = "" /\ a.body = b /\ a.of = c)
      /\ wire.page \subseteq wire'.page
  BY <1>0, <1>1, AnswerEffect
<1>3. call[c].op \in Calls /\ applied \in [Calls -> Nat]
  BY <1>0, <1>1 DEF Started, Typed
<1>4. /\ applied' \in [Calls -> Nat] /\ applied'[call[c].op] > 0
      /\ \A o \in Calls : (applied[o] > 0 => applied'[o] > 0) /\ (o # call[c].op => applied'[o] = applied[o])
  <2>1. applied' = [applied EXCEPT ![call[c].op] = @ + 1]
    BY <1>1
  <2> QED
    BY <1>3, <2>1, Incremented
<1>5. Typed'
  BY <1>0, <1>1, <1>2, <1>4 DEF Typed
<1>6. /\ \A f \in fwd : f.c \in Calls /\ f.c # c
      /\ \A w \in work : w.c \in Calls /\ w.c # c
      /\ \A a \in wire.hub : a.c \in Calls /\ a.c # c
      /\ \A a \in wire.page : a.c \in Calls /\ a.c # c
  <2>1. /\ \A f \in fwd : f.c \in Calls
        /\ \A w \in work : w.c \in Calls
        /\ \A a \in wire.hub : a.c \in Calls
        /\ \A a \in wire.page : a.c \in Calls
    BY <1>0 DEF Typed, Links, Replies, Messages
  <2>2. \A f \in fwd : reg[f.c].ph = "forwarded"
    BY <1>0 DEF Routed
  <2>3. /\ \A w \in work : reg[w.c].ph # "sent"
        /\ \A a \in wire.hub : reg[a.c].ph # "sent"
        /\ \A a \in wire.page : reg[a.c].ph # "sent"
    BY <1>0 DEF Working, Reached
  <2> QED
    BY <1>1, <2>1, <2>2, <2>3
<1>7. Routed'
  <2>1. \A f \in fwd : reg'[f.c] = reg[f.c]
    BY <1>2, <1>6
  <2>2. \A a \in wire'.page : a.of = a.c
    BY <1>0, <1>2 DEF Routed
  <2> QED
    BY <1>0, <1>1, <1>2, <2>1, <2>2, ZenonT(30) DEF Routed
<1>8. "" \notin RefusedCodes
  BY DEF RefusedCodes
<1>9. \A d \in Calls : Refused(d)' <=> Refused(d)
  BY <1>1, <1>2, <1>8 DEF Refused
<1>10. ~ Refused(c) /\ Reached(c)' /\ \A d \in Calls : d # c => (Reached(d)' <=> Reached(d))
  BY <1>0, <1>1, <1>2 DEF Refusing, Reached
<1>11. Started'
  BY <1>0, <1>1, <1>2 DEF Started
<1>12. Named'
  BY <1>0, <1>1 DEF Named
<1>13. Working'
  <2>1. ASSUME NEW a \in wire'.page PROVE reg'[a.c].ph = "answered"
    <3>1. a \in wire.page => reg[a.c].ph = "answered" /\ reg'[a.c] = reg[a.c]
      BY <1>0, <1>2, <1>6 DEF Working
    <3> QED
      BY <1>2, <3>1
  <2> QED
    BY <1>0, <1>1, <1>2, <1>6, <1>10, <2>1 DEF Working
<1>14. Refusing'
  <2>1. \A d \in Calls : Refused(d) => d # c /\ reg[d].ph = "answered" /\ \A w \in work : w.c # d
    BY <1>0, <1>10 DEF Refusing
  <2> QED
    BY <1>1, <1>2, <1>9, <2>1 DEF Refusing
<1>15. Applying'
  <2>1. ASSUME NEW o \in Calls, applied'[o] > 0 PROVE \E d \in Calls : call[d].op = o /\ ~ Refused(d)' /\ Reached(d)'
    <3>1. CASE o = call[c].op
      BY <3>1, <1>9, <1>10
    <3>2. CASE o # call[c].op
      <4>1. PICK d \in Calls : call[d].op = o /\ ~ Refused(d) /\ Reached(d)
        BY <1>0, <1>4, <2>1, <3>2 DEF Applying
      <4>2. d # c
        BY <3>2, <4>1
      <4> QED
        BY <4>1, <4>2, <1>9, <1>10
    <3> QED
      BY <3>1, <3>2
  <2> QED
    BY <2>1, <1>1 DEF Applying
<1>16. ASSUME Repeats PROVE Repeats'
  <2>1. MayApply(c) /\ ~ MayApply(c)' /\ \A d \in Calls : MayApply(d)' => MayApply(d)
    BY <1>1, <1>2, <1>6 DEF MayApply
  <2>2. ~ Refused(c)' /\ \A d \in Calls : Refused(d)' => Refused(d)
    BY <1>9, <1>10
  <2> QED
    BY <1>1, <1>3, <1>16, <2>1, <2>2, ApplyRepeats
<1>17. ASSUME Confirmed PROVE Confirmed'
  <2>1. b # ""
    BY BodyFacts
  <2>2. \A d \in Calls : call[d].op \in Calls \union {0} /\ (call[d].out = "done" => call[d].op \in Calls)
    BY <1>0 DEF Typed, Started, CallState
  <2>3. \A d \in Calls : call[d].ph # "idle" => call[d].op \in Calls
    BY <1>0 DEF Started
  <2>4. /\ \A a \in wire.hub : call[a.c].op \in Calls
        /\ \A a \in wire.page : call[a.c].op \in Calls
    <3>1. \A d \in Calls : Reached(d) \/ reg[d].ph = "answered" => call[d].op \in Calls
      BY <1>0, <2>3 DEF Started, Reached
    <3> QED
      BY <1>0, <1>6, <3>1 DEF Working
  <2>5. \A d \in Calls : call[d].out = "done" => applied'[call[d].op] > 0
    BY <1>4, <1>17, <2>2 DEF Confirmed, DoneWasApplied
  <2>6. \A a \in wire'.hub : a.code = "" /\ a.body = "full" => applied'[call[a.c].op] > 0
    BY <1>2, <1>4, <1>17, <2>4 DEF Confirmed
  <2>7. ASSUME NEW a \in wire'.page, a.code = ""
        PROVE  a.body # "" /\ (a.body = "full" \/ call[a.c].m.scope = "registry" => applied'[call[a.c].op] > 0)
    <3>1. CASE a \in wire.page
      BY <3>1, <2>7, <1>4, <1>17, <2>4 DEF Confirmed
    <3>2. CASE a \notin wire.page
      BY <3>2, <1>2, <1>4, <2>1
    <3> QED
      BY <3>1, <3>2
  <2> QED
    BY <1>1, <2>5, <2>6, <2>7 DEF Confirmed, DoneWasApplied
<1> QED
  BY <1>5, <1>7, <1>11, <1>12, <1>13, <1>14, <1>15, <1>16, <1>17 DEF Keeps, CallsInv, Accounted

\* The hub does a request.
LEMMA HubStep ==
  ASSUME CallConstants, CallsInv, NEW w \in work, handleRegistryRequest(w)
  PROVE  Keeps
<1>0. Typed /\ Routed /\ Started /\ Named /\ Working /\ Refusing /\ Applying
  BY DEF CallsInv, Accounted
<1>1. w.id \in Nat /\ w.c \in Calls /\ w.ep \in Nat /\ Reached(w.c) /\ \A v \in work : v.c = w.c => v = w
  BY <1>0 DEF Typed, Links, Working
<1>2. call[w.c].op \in Calls /\ applied \in [Calls -> Nat]
  BY <1>0, <1>1 DEF Started, Typed, Reached
<1>3. PICK ok \in BOOLEAN, b \in Bodies :
        /\ applied' = IF ok /\ b = "full" THEN [applied EXCEPT ![call[w.c].op] = @ + 1] ELSE applied
        /\ wire' = [wire EXCEPT !.hub = IF w.ep = hub.ep /\ hub.up = "on"
                      THEN @ \union {[id |-> w.id, c |-> w.c, ep |-> w.ep, code |-> IF ok THEN "" ELSE "HUB", body |-> b]} ELSE @]
  BY DEF handleRegistryRequest
<1>4. work' = work \ {w} /\ call' = call /\ reg' = reg /\ fwd' = fwd /\ hub' = hub
  BY DEF handleRegistryRequest
<1> DEFINE new == [id |-> w.id, c |-> w.c, ep |-> w.ep, code |-> IF ok THEN "" ELSE "HUB", body |-> b]
<1>5. /\ new \in Replies /\ new.id = w.id /\ new.c = w.c /\ new.code \notin RefusedCodes
      /\ new.code = "" /\ new.body = "full" => ok /\ b = "full"
  <2>1. (IF ok THEN "" ELSE "HUB") \in Codes \union {""} /\ (IF ok THEN "" ELSE "HUB") \notin RefusedCodes
    BY DEF Codes, RefusedCodes
  <2> QED
    BY <1>1, <2>1 DEF Replies
<1>6. /\ wire' \in [hub : SUBSET Replies, page : SUBSET Messages] /\ wire'.page = wire.page
      /\ \A a \in wire'.hub : a \in wire.hub \/ a = new
  <2>1. wire \in [hub : SUBSET Replies, page : SUBSET Messages]
    BY <1>0 DEF Typed
  <2> QED
    BY <1>3, <1>5, <2>1
<1> HIDE DEF new
<1>7. /\ applied' \in [Calls -> Nat]
      /\ \A o \in Calls : (applied[o] > 0 => applied'[o] > 0) /\ (o # call[w.c].op => applied'[o] = applied[o])
      /\ ok /\ b = "full" => applied'[call[w.c].op] > 0
  <2>1. CASE ok /\ b = "full"
    <3>1. applied' = [applied EXCEPT ![call[w.c].op] = @ + 1]
      BY <1>3, <2>1
    <3>2. /\ applied' \in [Calls -> Nat] /\ applied'[call[w.c].op] > 0
          /\ \A o \in Calls : (applied[o] > 0 => applied'[o] > 0) /\ (o # call[w.c].op => applied'[o] = applied[o])
      BY <1>2, <3>1, Incremented
    <3> QED
      BY <3>2
  <2>2. CASE ~ (ok /\ b = "full")
    BY <1>2, <1>3, <2>2
  <2> QED
    BY <2>1, <2>2
<1>8. Typed'
  <2>1. work' \in SUBSET Links
    BY <1>0, <1>4 DEF Typed
  <2> QED
    BY <1>0, <1>4, <1>6, <1>7, <2>1 DEF Typed
<1>9. Routed'
  <2>1. w.id < hub.next /\ \A f \in fwd : f.id = w.id => f.c = w.c
    BY <1>0 DEF Routed
  <2>2. \A a \in wire'.hub : a.id < hub.next /\ \A f \in fwd : f.id = a.id => f.c = a.c
    BY <1>0, <1>5, <1>6, <2>1 DEF Routed
  <2> QED
    BY <1>0, <1>4, <1>6, <2>2 DEF Routed
<1>10. \A d \in Calls : (Refused(d)' <=> Refused(d)) /\ (Reached(d)' <=> Reached(d))
  BY <1>4, <1>6 DEF Refused, Reached
<1>11. Started' /\ Named'
  BY <1>0, <1>4 DEF Started, Named
<1>12. Working'
  <2>1. \A a \in wire'.hub : a.c \in Calls /\ Reached(a.c) /\ a.code \notin RefusedCodes
    <3>1. \A a \in wire.hub : a.c \in Calls
      BY <1>0 DEF Typed, Replies
    <3> QED
      BY <1>0, <1>1, <1>5, <1>6, <3>1 DEF Working
  <2>2. \A v \in work' : v \in work /\ v.c \in Calls
    BY <1>0, <1>4 DEF Typed, Links
  <2> QED
    BY <1>0, <1>4, <1>6, <1>10, <2>1, <2>2 DEF Working
<1>13. Refusing'
  BY <1>0, <1>4, <1>10 DEF Refusing
<1>14. Applying'
  <2>1. ASSUME NEW o \in Calls, applied'[o] > 0 PROVE \E d \in Calls : call[d].op = o /\ ~ Refused(d) /\ Reached(d)
    <3>1. CASE o = call[w.c].op
      BY <3>1, <1>0, <1>1 DEF Refusing
    <3>2. CASE o # call[w.c].op
      BY <3>2, <2>1, <1>0, <1>7 DEF Applying
    <3> QED
      BY <3>1, <3>2
  <2> QED
    BY <2>1, <1>4, <1>10 DEF Applying
<1>15. ASSUME Repeats PROVE Repeats'
  <2>1. MayApply(w.c) /\ ~ MayApply(w.c)' /\ \A d \in Calls : MayApply(d)' => MayApply(d)
    <3>1. reg[w.c].ph \notin {"none", "sent", "queued"}
      BY <1>1 DEF Reached
    <3> QED
      BY <1>1, <1>4, <3>1 DEF MayApply
  <2>2. applied' = applied \/ applied' = [applied EXCEPT ![call[w.c].op] = @ + 1]
    BY <1>3
  <2>3. ~ Refused(w.c)' /\ \A d \in Calls : Refused(d)' => Refused(d)
    <3>1. ~ Refused(w.c)
      BY <1>0, <1>1 DEF Refusing
    <3> QED
      BY <1>1, <1>10, <3>1
  <2> QED
    BY <1>1, <1>2, <1>4, <1>15, <2>1, <2>2, <2>3, ApplyRepeats
<1>16. ASSUME Confirmed PROVE Confirmed'
  <2>1. /\ \A d \in Calls : call[d].out = "done" => call[d].op \in Calls
        /\ \A d \in Calls : call[d].ph # "idle" => call[d].op \in Calls
    BY <1>0 DEF Typed, Started
  <2>2. /\ \A a \in wire.hub : call[a.c].op \in Calls
        /\ \A a \in wire.page : call[a.c].op \in Calls
    <3>1. \A d \in Calls : Reached(d) \/ reg[d].ph = "answered" => call[d].op \in Calls
      BY <1>0, <2>1 DEF Started, Reached
    <3>2. /\ \A a \in wire.hub : a.c \in Calls
          /\ \A a \in wire.page : a.c \in Calls
      BY <1>0 DEF Typed, Replies, Messages
    <3> QED
      BY <1>0, <3>1, <3>2 DEF Working
  <2>3. \A d \in Calls : call[d].out = "done" => applied'[call[d].op] > 0
    BY <1>7, <1>16, <2>1 DEF Confirmed, DoneWasApplied
  <2>4. \A a \in wire'.hub : a.code = "" /\ a.body = "full" => applied'[call[a.c].op] > 0
    BY <1>5, <1>6, <1>7, <1>16, <2>2 DEF Confirmed
  <2>5. \A a \in wire.page : a.code = "" /\ (a.body = "full" \/ call[a.c].m.scope = "registry") => applied'[call[a.c].op] > 0
    BY <1>7, <1>16, <2>2 DEF Confirmed
  <2>6. \A a \in wire.page : a.code = "" => a.body # ""
    BY <1>16 DEF Confirmed
  <2> QED
    BY <1>4, <1>6, <2>3, <2>4, <2>5, <2>6 DEF Confirmed, DoneWasApplied
<1> QED
  BY <1>8, <1>9, <1>11, <1>12, <1>13, <1>14, <1>15, <1>16 DEF Keeps, CallsInv, Accounted

\* The socket of the page closes.
LEMMA CloseStep ==
  ASSUME CallConstants, CallsInv, Close
  PROVE  Keeps
<1>0. Typed /\ Routed /\ Started /\ Named /\ Working /\ Refusing /\ Applying
  BY DEF CallsInv, Accounted
<1>1. /\ call' = [c \in Calls |-> IF call[c].ph = "wait" THEN [call[c] EXCEPT !.ph = "done", !.out = "closed"] ELSE call[c]]
      /\ reg' = [c \in Calls |-> IF reg[c].ph \in {"sent", "queued"} THEN [reg[c] EXCEPT !.ph = "dropped"] ELSE reg[c]]
      /\ wire' = [wire EXCEPT !.page = {}] /\ fwd' = fwd /\ hub' = hub /\ work' = work /\ applied' = applied
  BY DEF Close
<1>2. /\ call' \in [Calls -> CallState]
      /\ \A c \in Calls : /\ call'[c].m = call[c].m /\ call'[c].of = call[c].of /\ call'[c].op = call[c].op
                          /\ \/ call'[c] = call[c]
                             \/ call[c].ph = "wait" /\ call'[c].ph = "done" /\ call'[c].out = "closed"
  <2>1. call \in [Calls -> CallState]
    BY <1>0 DEF Typed
  <2>2. "closed" \in Outcomes
    BY DEF Outcomes, Codes
  <2>3. ASSUME NEW k \in CallState
        PROVE  LET j == [k EXCEPT !.ph = "done", !.out = "closed"] IN
               j \in CallState /\ j.m = k.m /\ j.of = k.of /\ j.op = k.op /\ j.ph = "done" /\ j.out = "closed"
    BY <2>2 DEF CallState
  <2> QED
    BY <1>1, <2>1, <2>3
<1>3. /\ reg' \in [Calls -> RegState]
      /\ \A c \in Calls : reg'[c] = reg[c] \/ (reg[c].ph \in {"sent", "queued"} /\ reg'[c].ph = "dropped")
  BY <1>0, <1>1 DEF Typed, RegState, Phases
<1>4. wire' \in [hub : SUBSET Replies, page : SUBSET Messages] /\ wire'.hub = wire.hub /\ wire'.page = {}
  BY <1>0, <1>1 DEF Typed
<1>5. Typed'
  <2>1. ASSUME NEW c \in Calls PROVE call'[c].ph = "done" <=> call'[c].out # ""
    <3>1. call[c].ph = "done" <=> call[c].out # ""
      BY <1>0 DEF Typed
    <3>2. call'[c] = call[c] \/ (call'[c].ph = "done" /\ call'[c].out = "closed")
      BY <1>2
    <3> QED
      BY <3>1, <3>2
  <2> QED
    BY <1>0, <1>1, <1>2, <1>3, <1>4, <2>1 DEF Typed
<1>6. /\ \A f \in fwd : f.c \in Calls
      /\ \A w \in work : w.c \in Calls
      /\ \A a \in wire.hub : a.c \in Calls
  BY <1>0 DEF Typed, Links, Replies
<1>7. Routed'
  <2>1. \A f \in fwd : reg'[f.c].ph = "forwarded"
    BY <1>0, <1>3, <1>6 DEF Routed
  <2>2. \A c \in Calls : call'[c].of \in {0, c}
    BY <1>0, <1>2 DEF Routed
  <2> QED
    BY <1>0, <1>1, <1>4, <2>1, <2>2 DEF Routed
<1>8. \A c \in Calls : Reached(c)' <=> Reached(c)
  BY <1>3 DEF Reached
<1>9. \A c \in Calls : Refused(c)' => Refused(c)
  BY <1>2, <1>4 DEF Refused, RefusedCodes
<1>10. Started'
  <2>1. \A c \in Calls : reg'[c].ph \in {"queued", "forwarded"} => reg[c].ph \in {"queued", "forwarded"}
    BY <1>3
  <2>2. \A c \in Calls : (call'[c].ph = "idle" <=> call[c].ph = "idle") /\ (reg[c].ph = "none" => reg'[c].ph = "none")
    BY <1>2, <1>3
  <2> QED
    BY <1>0, <1>2, <2>1, <2>2 DEF Started
<1>11. Named'
  <2> SUFFICES ASSUME NEW d \in Calls, call'[d].op # 0 PROVE call'[call'[d].op].op = call'[d].op
    BY DEF Named
  <2>1. call[d].op # 0 /\ call'[d].op = call[d].op
    BY <1>2
  <2>2. call[d].op \in Calls /\ call[call[d].op].op = call[d].op
    BY <1>0, <2>1 DEF Named, Started
  <2> QED
    BY <2>1, <2>2, <1>2
<1>12. Working'
  BY <1>0, <1>1, <1>4, <1>6, <1>8 DEF Working
<1>13. Refusing'
  BY <1>0, <1>1, <1>3, <1>9 DEF Refusing
<1>14. Applying'
  <2>1. ASSUME NEW o \in Calls, applied[o] > 0 PROVE \E d \in Calls : call'[d].op = o /\ ~ Refused(d)' /\ Reached(d)'
    <3>1. PICK d \in Calls : call[d].op = o /\ ~ Refused(d) /\ Reached(d)
      BY <1>0, <2>1 DEF Applying
    <3>2. call'[d].op = o /\ ~ Refused(d)' /\ Reached(d)'
      BY <3>1, <1>2, <1>8, <1>9
    <3> QED
      BY <3>2
  <2> QED
    BY <2>1, <1>1 DEF Applying
<1>15. ASSUME Repeats PROVE Repeats'
  <2>1. \A c \in Calls : MayApply(c)' => MayApply(c)
    BY <1>1, <1>3 DEF MayApply
  <2>2. applied \in [Calls -> Nat] /\ applied' = applied
    BY <1>0, <1>1 DEF Typed
  <2> QED
    BY <1>2, <1>9, <1>15, <2>1, <2>2, PastKeeps
<1>16. ASSUME Confirmed PROVE Confirmed'
  <2>1. \A c \in Calls : call'[c].out = "done" => applied[call'[c].op] > 0
    BY <1>2, <1>16 DEF Confirmed, DoneWasApplied
  <2>2. \A a \in wire.hub : a.code = "" /\ a.body = "full" => applied[call'[a.c].op] > 0
    BY <1>2, <1>6, <1>16 DEF Confirmed
  <2> QED
    BY <1>1, <1>4, <2>1, <2>2 DEF Confirmed, DoneWasApplied
<1> QED
  BY <1>5, <1>7, <1>10, <1>11, <1>12, <1>13, <1>14, <1>15, <1>16 DEF Keeps, CallsInv, Accounted
-----------------------------------------------------------------------------
\* The invariant holds before the first call.
LEMMA InitHolds ==
  ASSUME CallConstants, Init
  PROVE  CallsInv /\ Repeats /\ Confirmed /\ Bounded
<1>1. /\ call = [c \in Calls |-> Idle] /\ reg = [c \in Calls |-> [ph |-> "none", queued |-> FALSE]]
      /\ fwd = {} /\ hub = [ep |-> 1, up |-> "on", next |-> 1] /\ work = {} /\ wire = [hub |-> {}, page |-> {}]
      /\ applied = [c \in Calls |-> 0]
  BY DEF Init
<1>2. Idle \in CallState /\ Idle.ph = "idle" /\ Idle.out = "" /\ Idle.of = 0 /\ Idle.op = 0
  BY DEF Idle, CallState, Outcomes
<1>3. MaxEpochs \in Nat \ {0} /\ MaxForwards \in Nat
  BY DEF CallConstants
<1>4. Typed
  <2>1. hub \in [ep : 1..MaxEpochs, up : {"on", "closing", "off"}, next : Nat]
    BY <1>1, <1>3
  <2>2. reg \in [Calls -> RegState]
    BY <1>1 DEF RegState, Phases
  <2> QED
    BY <1>1, <1>2, <2>1, <2>2 DEF Typed
<1>5. \A c \in Calls : call[c].ph = "idle" /\ call[c].out = "" /\ call[c].of = 0 /\ call[c].op = 0 /\ reg[c].ph = "none" /\ applied[c] = 0
  BY <1>1, <1>2
<1>6. wire.hub = {} /\ wire.page = {}
  BY <1>1
<1>7. Routed
  BY <1>1, <1>5, <1>6 DEF Routed
<1>8. Accounted
  <2>1. \A c \in Calls : ~ Refused(c)
    BY <1>5, <1>6 DEF Refused, RefusedCodes
  <2>2. Started
    BY <1>5 DEF Started
  <2>3. Named
    BY <1>5 DEF Named
  <2>4. Working /\ Refusing
    BY <1>1, <1>6, <2>1 DEF Working, Refusing
  <2>5. \A o \in Calls : ~ (applied[o] > 0)
    <3>1. 0 \in Nat /\ ~ (0 > 0)
      OBVIOUS
    <3> QED
      BY <1>5, <3>1
  <2>6. Applying
    BY <2>5 DEF Applying
  <2> QED
    BY <2>2, <2>3, <2>4, <2>6 DEF Accounted
<1>9. Repeats
  <2> SUFFICES ASSUME NEW o \in Calls PROVE applied[o] <= Cardinality(Past(o))
    BY DEF Repeats
  <2>1. IsFiniteSet(Calls) /\ Past(o) \subseteq Calls
    BY DEF CallConstants, Past
  <2>2. Cardinality(Past(o)) \in Nat
    BY <2>1, FS_Subset, FS_CardinalityType
  <2> QED
    <3>1. applied[o] = 0
      BY <1>5
    <3>2. \A n \in Nat : 0 <= n
      OBVIOUS
    <3> QED
      BY <2>2, <3>1, <3>2
<1>10. Confirmed
  BY <1>5, <1>6 DEF Confirmed, DoneWasApplied
<1>11. Bounded
  BY <1>1, <1>3, FS_EmptySet DEF Bounded
<1> QED
  BY <1>4, <1>7, <1>8, <1>9, <1>10, <1>11 DEF CallsInv

\* Every step keeps the invariant and its conditional parts.
LEMMA StepKeeps ==
  ASSUME CallConstants, CallsInv, [Next]_vars
  PROVE  Keeps
<1>1. ASSUME NEW c \in Calls, NEW m \in Methods, Start(c, m, c) PROVE Keeps
  BY <1>1, StartStep
<1>2. ASSUME NEW c \in Calls, Again(c) PROVE Keeps
  <2>1. PICK d \in Calls : Start(d, call[c].m.name, call[c].op)
    BY <1>2 DEF Again
  <2>2. call[c].ph = "done" /\ call[c].out \in RetryCodes /\ \A e \in Calls : call[e].op = call[c].op => e <= c
    BY <1>2 DEF Again
  <2>3. call[c].op \in Calls /\ call[c].m \in Rows
    BY <2>2 DEF CallsInv, Accounted, Started
  <2>4. call[c].m.name \in Methods
    <3>1. PICK m \in Methods : call[c].m = Row(m)
      BY <2>3 DEF Rows
    <3>2. \E r \in Table : r.name = m
      BY DEF CallConstants
    <3>3. Row(m).name = m
      BY <3>2 DEF Row
    <3> QED
      BY <3>1, <3>3
  <2> QED
    BY <2>1, <2>2, <2>3, <2>4, StartStep
<1>3. ASSUME UNCHANGED vars PROVE Keeps
  <2>1. call' = call /\ reg' = reg /\ fwd' = fwd /\ hub' = hub /\ work' = work /\ wire' = wire /\ applied' = applied
    BY <1>3 DEF vars
  <2>2. CallsInv'
    <3>1. Typed /\ Routed /\ Started /\ Named /\ Working /\ Refusing /\ Applying
      BY DEF CallsInv, Accounted
    <3>2. Typed' /\ Routed'
      BY <2>1, <3>1 DEF Typed, Routed
    <3>3. \A c \in Calls : (Refused(c)' <=> Refused(c)) /\ (Reached(c)' <=> Reached(c))
      BY <2>1 DEF Refused, Reached
    <3>4. Started' /\ Named' /\ Refusing'
      BY <2>1, <3>1, <3>3 DEF Started, Named, Refusing
    <3>5. Working'
      BY <2>1, <3>1 DEF Working, Reached
    <3>6. Applying'
      BY <2>1, <3>1, <3>3 DEF Applying
    <3> QED
      BY <3>2, <3>4, <3>5, <3>6 DEF CallsInv, Accounted
  <2>3. Repeats => Repeats'
    <3>1. \A c \in Calls : call'[c].op = call[c].op /\ (MayApply(c)' => MayApply(c)) /\ (Refused(c)' => Refused(c))
      BY <2>1 DEF MayApply, Refused
    <3>2. applied \in [Calls -> Nat] /\ applied' = applied
      BY <2>1 DEF CallsInv, Typed
    <3> QED
      BY <3>1, <3>2, PastKeeps
  <2>4. Confirmed => Confirmed'
    BY <2>1 DEF Confirmed, DoneWasApplied
  <2> QED
    BY <2>2, <2>3, <2>4 DEF Keeps
<1>4. ASSUME NEW c \in Calls, dispatch(c) PROVE Keeps
  BY <1>4, ServeStep, WorkerStep
<1>5. ASSUME NEW c \in Calls, execute(c) PROVE Keeps
  BY <1>5, WorkerStep
<1>6. ASSUME NEW c \in Calls, ClientTimeout(c) PROVE Keeps
  BY <1>6, PageStep
<1>7. ASSUME NEW a \in wire.page, Receive(a) PROVE Keeps
  BY <1>7, PageStep
<1>8. ASSUME NEW a \in wire.hub, resolvePending(a) PROVE Keeps
  BY <1>8, ResolveStep
<1>9. ASSUME NEW f \in fwd, ForwardTimeout(f) PROVE Keeps
  BY <1>9, TimeoutStep
<1>10. ASSUME NEW w \in work, handleRegistryRequest(w) PROVE Keeps
  BY <1>10, HubStep
<1>11. CASE Close
  BY <1>11, CloseStep
<1>12. CASE dropAllPending \/ unregisterHub \/ HubReports \/ Reopen
  BY <1>12, LinkStep
<1> QED
  BY <1>1, <1>2, <1>3, <1>4, <1>5, <1>6, <1>7, <1>8, <1>9, <1>10, <1>11, <1>12 DEF Next

\* The forwards that wait stay below the limit of registerPending.
LEMMA BoundedStep ==
  ASSUME CallConstants, CallsInv, Bounded, [Next]_vars
  PROVE  Bounded'
<1>0. IsFiniteSet(fwd) /\ Cardinality(fwd) <= MaxForwards /\ MaxForwards \in Nat /\ Cardinality(fwd) \in Nat
  BY FS_CardinalityType DEF Bounded, CallConstants
<1>1. ASSUME fwd' \subseteq fwd PROVE Bounded'
  <2>1. IsFiniteSet(fwd') /\ Cardinality(fwd') <= Cardinality(fwd)
    BY <1>0, <1>1, FS_Subset
  <2>2. Cardinality(fwd') \in Nat
    BY <2>1, FS_CardinalityType
  <2> QED
    BY <1>0, <2>1, <2>2 DEF Bounded
<1>2. ASSUME NEW c \in Calls, execute(c) PROVE Bounded'
  <2> DEFINE l == [id |-> hub.next, c |-> c, ep |-> hub.ep]
             pending == {f \in fwd : f.ep = hub.ep}
  <2>1. fwd' = fwd \/ (fwd' = fwd \union {l} /\ ~ (Cardinality(pending) >= MaxForwards))
    BY <1>2 DEF execute, Forward, freshForwardId
  <2>2. pending = fwd
    BY DEF CallsInv, Routed
  <2> HIDE DEF l, pending
  <2>3. CASE fwd' = fwd \union {l} /\ ~ (Cardinality(pending) >= MaxForwards)
    <3>1. IsFiniteSet(fwd') /\ (Cardinality(fwd') = Cardinality(fwd) \/ Cardinality(fwd') = Cardinality(fwd) + 1)
      BY <1>0, <2>3, FS_AddElement
    <3>2. ~ (Cardinality(fwd) >= MaxForwards)
      BY <2>2, <2>3
    <3>3. Cardinality(fwd') <= MaxForwards
      BY <1>0, <3>1, <3>2
    <3> QED
      BY <3>1, <3>3 DEF Bounded
  <2> QED
    BY <1>1, <2>1, <2>3
<1>3. CASE UNCHANGED vars
  BY <1>1, <1>3 DEF vars
<1>4. ASSUME NEW c \in Calls, (\E m \in Methods : Start(c, m, c)) \/ Again(c) \/ ClientTimeout(c) \/ dispatch(c) PROVE Bounded'
  <2>1. fwd' = fwd
    BY <1>4 DEF Start, StartHub, StartProject, StartSelected, Again, ClientTimeout, dispatch
  <2> QED
    BY <1>1, <2>1
<1>5. ASSUME NEW a, Receive(a) PROVE Bounded'
  BY <1>1, <1>5 DEF Receive
<1>6. ASSUME NEW a, resolvePending(a) PROVE Bounded'
  BY <1>1, <1>6 DEF resolvePending
<1>7. ASSUME NEW f, ForwardTimeout(f) PROVE Bounded'
  BY <1>1, <1>7 DEF ForwardTimeout
<1>8. ASSUME NEW w, handleRegistryRequest(w) PROVE Bounded'
  BY <1>1, <1>8 DEF handleRegistryRequest
<1>9. CASE Close \/ Reopen \/ dropAllPending \/ unregisterHub \/ HubReports
  <2>1. fwd' \subseteq fwd
    BY <1>9 DEF Close, Reopen, dropAllPending, unregisterHub, HubReports
  <2> QED
    BY <1>1, <2>1
<1> QED
  BY <1>2, <1>3, <1>4, <1>5, <1>6, <1>7, <1>8, <1>9 DEF Next
-----------------------------------------------------------------------------
\* The whole argument: the invariant and the count hold, and the conditional
\* part holds under its hypothesis.
THEOREM CallsInvariance ==
  ASSUME CallConstants
  PROVE  Spec => [](CallsInv /\ Bounded /\ Repeats /\ (ContentConfirms => Confirmed))
<1> DEFINE I == CallsInv /\ Bounded /\ Repeats /\ (ContentConfirms => Confirmed)
<1>1. Init => I
  BY InitHolds
<1>2. ContentConfirms' = ContentConfirms
  BY DEF ContentConfirms, Rows
<1>3. I /\ [Next]_vars => I'
  BY <1>2, StepKeeps, BoundedStep DEF Keeps
<1> QED
  BY <1>1, <1>3, PTL DEF Spec

\* Types: in particular a settled call has an outcome the page knows, and the
\* forwards that wait at the connections of a hub are bounded.
THEOREM TypeCorrect ==
  ASSUME CallConstants
  PROVE  Spec => []TypeOK
<1>1. ASSUME CallsInv, Bounded PROVE TypeOK
  <2>1. MaxForwards \in Nat /\ MaxEpochs \in Nat \ {0} /\ Typed /\ Routed
    BY <1>1 DEF CallConstants, CallsInv
  <2>2. \A c \in Calls : call[c].ph = "done" <=> call[c].out # ""
    BY <2>1 DEF Typed
  <2>3. \A c \in Calls : call[c].out \in Codes \union {"", "data", "defaults", "done", "notok"}
    BY <2>1 DEF Typed, CallState, Outcomes
  <2>4. \A c \in Calls : reg[c].ph \in {"none", "sent", "queued", "forwarded", "answered", "dropped"}
    BY <2>1 DEF Typed, RegState, Phases
  <2>5. \A f \in fwd : f.ep \in 1..hub.ep /\ f.id < hub.next
    <3>1. hub.ep \in 1..MaxEpochs
      BY <2>1 DEF Typed
    <3>2. hub.ep \in 1..hub.ep
      BY <2>1, <3>1
    <3> QED
      BY <2>1, <3>2 DEF Routed
  <2>6. Cardinality(fwd) <= MaxForwards * MaxEpochs
    <3>1. Cardinality(fwd) <= MaxForwards /\ Cardinality(fwd) \in Nat
      BY <1>1, FS_CardinalityType DEF Bounded
    <3>2. MaxForwards <= MaxForwards * MaxEpochs /\ MaxForwards * MaxEpochs \in Nat
      BY <2>1
    <3> QED
      BY <2>1, <3>1, <3>2
  <2> QED
    BY <2>2, <2>3, <2>4, <2>5, <2>6 DEF TypeOK
<1> QED
  BY <1>1, CallsInvariance, PTL

\* resolvePending matches answers by id and connection: an answer settles the
\* call that it answers and no other, however late it comes.
THEOREM AnswerIsOwnAlways ==
  ASSUME CallConstants
  PROVE  Spec => []AnswerIsOwn
<1>1. CallsInv => AnswerIsOwn
  BY DEF CallsInv, Routed, AnswerIsOwn
<1> QED
  BY <1>1, CallsInvariance, PTL

\* Timeouts and lost connections give their slots back: a forward that waits
\* belongs to a call that a worker waits for, one each.
THEOREM SlotsAreUsedAlways ==
  ASSUME CallConstants
  PROVE  Spec => []SlotsAreUsed
<1>1. CallsInv => SlotsAreUsed
  BY DEF CallsInv, Routed, SlotsAreUsed
<1> QED
  BY <1>1, CallsInvariance, PTL

\* A call answered with NOT_FOUND or busy was refused before its forward was
\* written, so nothing is ever done for it.
THEOREM RefusedChangesNothingAlways ==
  ASSUME CallConstants
  PROVE  Spec => []RefusedChangesNothing
<1>1. ASSUME CallsInv PROVE RefusedChangesNothing
  <2> SUFFICES ASSUME NEW c \in Calls, call[c].out \in {"NOT_FOUND", "busy"}, \A d \in Calls : call[d].op = call[c].op => d = c
               PROVE  applied[c] = 0
    BY DEF RefusedChangesNothing
  <2>1. Typed /\ Started /\ Named /\ Applying
    BY <1>1 DEF CallsInv, Accounted
  <2>2. Refused(c)
    BY DEF Refused, RefusedCodes
  <2>3. applied[c] \in Nat /\ call[c].ph # "idle" /\ 0 \notin Calls
    BY <2>1 DEF Typed, CallConstants
  <2>4. call[c].op \in Calls /\ call[c].op # 0
    BY <2>1, <2>3 DEF Started
  <2>5. call[call[c].op].op = call[c].op
    BY <2>1, <2>4 DEF Named
  <2>6. call[c].op = c
    BY <2>4, <2>5
  <2>7. ~ (applied[c] > 0)
    BY <2>1, <2>2, <2>6 DEF Applying
  <2> QED
    BY <2>3, <2>7
<1> QED
  BY <1>1, CallsInvariance, PTL

\* The hub applies an operation at most once for each call for it that was not
\* refused, over any number of repetitions and after any answers, TIMEOUT and
\* INTERNAL included.
THEOREM AppliedOncePerTryAlways ==
  ASSUME CallConstants
  PROVE  Spec => []AppliedOncePerTry
<1>1. ASSUME CallsInv, Repeats PROVE AppliedOncePerTry
  <2> SUFFICES ASSUME NEW o \in Calls PROVE applied[o] <= Cardinality(Tries(o))
    BY DEF AppliedOncePerTry
  <2>1. IsFiniteSet(Calls) /\ Tries(o) \subseteq Calls /\ Past(o) \subseteq Tries(o)
    BY DEF CallConstants, Tries, Past, Refused, RefusedCodes
  <2>2. IsFiniteSet(Tries(o))
    BY <2>1, FS_Subset
  <2>3. Cardinality(Past(o)) <= Cardinality(Tries(o)) /\ Cardinality(Past(o)) \in Nat /\ Cardinality(Tries(o)) \in Nat
    BY <2>1, <2>2, FS_Subset, FS_CardinalityType
  <2>4. applied[o] <= Cardinality(Past(o)) /\ applied[o] \in Nat
    BY <1>1 DEF Repeats, CallsInv, Typed
  <2> QED
    BY <2>3, <2>4
<1> QED
  BY <1>1, CallsInvariance, PTL

\* What the page takes for done was done, when an answer of a hub without its
\* fields cannot be taken for done.
THEOREM DoneWasAppliedAlways ==
  ASSUME CallConstants, ContentConfirms
  PROVE  Spec => []DoneWasApplied
<1>1. (ContentConfirms => Confirmed) => DoneWasApplied
  BY DEF Confirmed
<1> QED
  BY <1>1, CallsInvariance, PTL
=============================================================================
