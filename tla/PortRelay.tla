----------------------------- MODULE PortRelay -----------------------------
(***************************************************************************)
(* The port relay: the registry's Controller keeps one slot (target,       *)
(* access code, status), one listener and one tunnel; each device's page   *)
(* enables, disables, polls and resets the access code, and keeps a list   *)
(* of targets that it also saves.  A device knows the code of the slot     *)
(* only by the generation the registry reports.  A request remembers the   *)
(* targets and the selection its handler closed over.                      *)
(***************************************************************************)
EXTENDS Naturals, Sequences, FiniteSets

CONSTANTS Devices, Targets,    \* sets of strings
          HubFails,            \* whether a hub may refuse hub.relay.open
          Overlap,             \* whether a user acts while the page is loading
          MaxOps, MaxLost, MaxPolls   \* bounds: user operations, lost answers, polls
RelayConstants == {HubFails, Overlap} \subseteq BOOLEAN /\ "" \notin Targets /\ {MaxOps, MaxLost, MaxPolls} \subseteq Nat

VARIABLES slot,      \* Controller.slot
          listener,  \* Controller.listener: its identity (0 for nil), and whether it is open
          tunnel,    \* relay id of Controller.tunnel, 0 for nil
          d,         \* the page of every device
          reqs,      \* requests under way
          n          \* counters
vars == <<slot, listener, tunnel, d, reqs, n>>

NoListener == [id |-> 0, open |-> FALSE]
NoSlot == [on |-> FALSE, status |-> "Disabled", target |-> "", code |-> 0, gen |-> 0, id |-> 0]
snapshotLocked(s) == [on |-> s.on, status |-> IF s.on THEN s.status ELSE "Disabled", target |-> IF s.on THEN s.target ELSE "", gen |-> IF s.on THEN s.gen ELSE 0]
NoSnap == snapshotLocked(NoSlot)

Init ==
  /\ slot = NoSlot /\ listener = NoListener /\ tunnel = 0 /\ reqs = {}
  /\ d = [v \in Devices |-> [snap |-> NoSnap, loading |-> FALSE, targets |-> <<>>, sel |-> "", code |-> 0, known |-> 0, auto |-> FALSE,
                             frame |-> "", saved |-> [targets |-> <<>>, sel |-> ""]]]
  /\ n = [op |-> 0, lost |-> 0, poll |-> 0, code |-> 0, id |-> 0]
-----------------------------------------------------------------------------
\* portRelayTargets.ts
InSeq(x, s) == \E i \in DOMAIN s : s[i] = x
upsertPortRelayTarget(ts, t) == IF t = "" \/ InSeq(t, ts) THEN ts ELSE Append(ts, t)
removePortRelayTarget(ts, t) == LET Other(x) == x # t IN SelectSeq(ts, Other)
reconcilePortRelayTargetSelection(ts, sel, snap) ==
  IF snap.target = "" THEN [targets |-> ts, sel |-> sel] ELSE [targets |-> upsertPortRelayTarget(ts, snap.target), sel |-> snap.target]

portRelayAccessCodeUnknown(p) == p.snap.on /\ (p.code = 0 \/ p.known # p.snap.gen)
activePortRelayTarget(p) ==
  IF p.snap.on THEN (IF p.snap.target # "" THEN p.snap.target ELSE p.sel) ELSE (IF p.sel # "" THEN p.sel ELSE p.snap.target)

persistPortRelaySettings(p, ts, sel) == [p EXCEPT !.saved = [targets |-> ts, sel |-> sel]]
\* The two effects of the page: select a first target, drop the intent to open.
Effects(p) ==
  LET q == IF p.sel = "" /\ p.targets # <<>> THEN persistPortRelaySettings([p EXCEPT !.sel = p.targets[1]], p.targets, p.targets[1]) ELSE p
  IN  IF q.auto /\ (q.snap.status \in {"Up", "Error"} \/ ~ q.snap.on) THEN [q EXCEPT !.auto = FALSE] ELSE q

\* applyPortRelaySnapshot as the handler that sent request r closed over it.
applyPortRelaySnapshot(p, r, snap) ==
  LET q == [p EXCEPT !.snap = snap] c == reconcilePortRelayTargetSelection(r.ts, r.sel, snap)
  IN  IF ~ snap.on THEN q
      ELSE persistPortRelaySettings([q EXCEPT !.targets = IF c.targets # r.ts THEN c.targets ELSE @,
                                              !.sel = IF c.sel # r.sel THEN c.sel ELSE @], c.targets, c.sel)

Send(v, op, t, code, silent, open) ==
  reqs' = reqs \union {[dev |-> v, op |-> op, ph |-> "sent", target |-> t, code |-> code, silent |-> silent, open |-> open, lost |-> FALSE,
                        ts |-> d[v].targets, sel |-> d[v].sel, id |-> 0, lis |-> 0, snap |-> NoSnap, err |-> FALSE, k |-> n.op + n.poll]}
Page(v, p) == d' = [d EXCEPT ![v] = Effects(p)]
UserWithCode(v, fresh) == (Overlap \/ ~ d[v].loading) /\ n.op < MaxOps /\ n' = [n EXCEPT !.op = @ + 1, !.code = @ + fresh]
User(v) == UserWithCode(v, 0)
UNCHANGEDServer == UNCHANGED <<slot, listener, tunnel>>

\* enablePortRelayForTarget
Enable(v, t, open) ==
  LET p == d[v] fresh == IF p.code = 0 THEN 1 ELSE 0 code == IF p.code = 0 THEN n.code + 1 ELSE p.code
      ts == upsertPortRelayTarget(p.targets, t)
  IN  /\ ~ portRelayAccessCodeUnknown(p) /\ UserWithCode(v, fresh)
      /\ Page(v, persistPortRelaySettings([p EXCEPT !.code = code, !.targets = ts, !.sel = t, !.loading = TRUE, !.frame = IF open THEN t ELSE @], ts, t))
      /\ Send(v, "enable", t, code, FALSE, open)
      /\ UNCHANGEDServer

\* openPortRelayWorkbenchTab: from settings, the floating button or a link
\* in a chat.  It enables the relay unless it already has this target.
openPortRelayWorkbenchTab(v, t) ==
  LET p == d[v] IN
  IF portRelayAccessCodeUnknown(p) THEN FALSE
  ELSE IF p.snap.on /\ p.snap.status # "Error" /\ p.snap.target = t
  THEN User(v) /\ Page(v, [p EXCEPT !.frame = t]) /\ UNCHANGED reqs /\ UNCHANGEDServer
  ELSE Enable(v, t, TRUE)

\* The checkbox of a target; switches the relay when it is enabled.
selectPortRelayTarget(v, t) ==
  LET p == d[v] q == persistPortRelaySettings([p EXCEPT !.sel = t], p.targets, t) IN
  /\ InSeq(t, p.targets)
  /\ IF ~ p.snap.on \/ p.sel = t \/ portRelayAccessCodeUnknown(p)
     THEN User(v) /\ Page(v, q) /\ UNCHANGED reqs /\ UNCHANGEDServer
     ELSE /\ User(v) /\ Page(v, [q EXCEPT !.loading = TRUE, !.frame = ""]) /\ Send(v, "enable", t, p.code, FALSE, FALSE) /\ UNCHANGEDServer

commitPortRelayDraftTarget(v, t) ==
  LET ts == upsertPortRelayTarget(d[v].targets, t) IN
  /\ User(v) /\ Page(v, persistPortRelaySettings([d[v] EXCEPT !.targets = ts, !.sel = t], ts, t)) /\ UNCHANGED reqs /\ UNCHANGEDServer

deletePortRelayTarget(v, t) ==
  LET p == d[v] ts == removePortRelayTarget(p.targets, t)
      sel == IF p.sel = t THEN (IF ts = <<>> THEN "" ELSE ts[1]) ELSE p.sel
      q == persistPortRelaySettings([p EXCEPT !.targets = ts, !.sel = sel], ts, sel)
  IN  /\ InSeq(t, p.targets) /\ ~ p.loading /\ User(v) /\ UNCHANGEDServer
      /\ IF p.sel = t /\ p.snap.on
         THEN Page(v, [q EXCEPT !.loading = TRUE]) /\ Send(v, "disable", "", 0, FALSE, FALSE)
         ELSE Page(v, q) /\ UNCHANGED reqs

disablePortRelay(v) ==
  /\ ~ d[v].loading /\ d[v].snap.on /\ User(v) /\ Page(v, [d[v] EXCEPT !.loading = TRUE]) /\ Send(v, "disable", "", 0, FALSE, FALSE)
  /\ UNCHANGEDServer

\* The new code is shown at once; the registry is told when enabled.
regeneratePortRelayAccessCode(v) ==
  LET p == [d[v] EXCEPT !.code = n.code + 1] IN
  /\ ~ d[v].loading /\ UserWithCode(v, 1) /\ UNCHANGEDServer
  /\ IF ~ p.snap.on THEN Page(v, p) /\ UNCHANGED reqs
     ELSE Page(v, [p EXCEPT !.loading = TRUE]) /\ Send(v, "regenerate", "", p.code, FALSE, FALSE)

\* Opening the settings page, its Refresh, and the silent poll while Opening.
refreshPortRelayStatus(v, silent) ==
  /\ n.poll < MaxPolls /\ n' = [n EXCEPT !.poll = @ + 1]
  /\ (silent => d[v].snap.status = "Opening") /\ (~ silent => ~ d[v].loading)
  /\ Page(v, [d[v] EXCEPT !.loading = @ \/ ~ silent]) /\ Send(v, "status", "", 0, silent, FALSE)
  /\ UNCHANGEDServer
-----------------------------------------------------------------------------
\* The registry.
Put(r, q) == reqs' = (reqs \ {r}) \union {q}
Answered(r, s) == [r EXCEPT !.ph = "answer", !.snap = s]

ControllerDisable(r) ==
  /\ r.op = "disable" /\ r.ph = "sent" /\ slot' = NoSlot /\ listener' = NoListener /\ tunnel' = 0
  /\ Put(r, Answered(r, NoSnap)) /\ UNCHANGED <<d, n>>
ControllerRegenerate(r) ==
  /\ r.op = "regenerate" /\ r.ph = "sent"
  /\ IF slot.on THEN slot' = [slot EXCEPT !.code = r.code, !.gen = @ + 1] /\ Put(r, Answered(r, snapshotLocked(slot')))
     ELSE Put(r, [r EXCEPT !.ph = "answer", !.err = TRUE]) /\ UNCHANGED slot
  /\ UNCHANGED <<listener, tunnel, d, n>>
ControllerStatus(r) == r.op = "status" /\ r.ph = "sent" /\ Put(r, Answered(r, snapshotLocked(slot))) /\ UNCHANGED <<slot, listener, tunnel, d, n>>

\* Enable replaces the slot and reuses the listener of the same port.
ControllerEnable(r) ==
  /\ r.op = "enable" /\ r.ph = "sent" /\ n' = [n EXCEPT !.id = @ + 1]
  /\ slot' = [on |-> TRUE, status |-> "Opening", target |-> r.target, code |-> r.code, gen |-> slot.gen + 1, id |-> n.id + 1]
  /\ listener' = (IF listener = NoListener THEN [id |-> n.id + 1, open |-> TRUE] ELSE listener) /\ tunnel' = 0
  /\ Put(r, [r EXCEPT !.ph = "opening", !.id = n.id + 1, !.lis = listener'.id, !.snap = snapshotLocked(slot')]) /\ UNCHANGED d
markError(s, id) == IF s.id = id THEN [s EXCEPT !.status = "Error"] ELSE s
ForwardFails(r) ==
  /\ HubFails /\ r.ph = "opening" /\ slot' = markError(slot, r.id)
  /\ listener' = [listener EXCEPT !.open = @ /\ listener.id # r.lis]
  /\ Put(r, [r EXCEPT !.ph = "answer", !.err = TRUE]) /\ UNCHANGED <<tunnel, d, n>>
acceptTunnel(id) ==
  /\ slot.on /\ slot.id = id /\ listener.open /\ tunnel = 0 /\ tunnel' = id /\ slot' = [slot EXCEPT !.status = "Up"]
  /\ reqs' = {IF r.ph = "opening" /\ r.id = id THEN [r EXCEPT !.ph = "ready"] ELSE r : r \in reqs} /\ UNCHANGED <<listener, d, n>>
markTunnelClosed ==
  /\ tunnel # 0 /\ HubFails /\ tunnel' = 0 /\ slot' = [slot EXCEPT !.status = "Error"] /\ UNCHANGED <<listener, d, reqs, n>>
\* Enable returns: the tunnel of this slot came up, or the wait is over.
EnableReturns(r) ==
  /\ r.ph \in {"opening", "ready"}
  /\ \E s \in {r.snap} \union (IF r.ph = "ready" THEN {snapshotLocked(slot)} ELSE {}) : Put(r, Answered(r, s))
  /\ UNCHANGED <<slot, listener, tunnel, d, n>>

\* What the page does with an answer or an error.
Answer(p, r) ==
  LET q == [p EXCEPT !.loading = @ /\ r.silent] IN
  IF r.err THEN q
  ELSE applyPortRelaySnapshot([q EXCEPT !.known = IF r.op \in {"enable", "regenerate"} THEN r.snap.gen ELSE @,
                                        !.auto = IF r.op = "enable" THEN r.open /\ r.snap.on ELSE @,
                                        !.frame = IF r.op = "disable" THEN "" ELSE @], r, r.snap)
Receive(r) ==
  /\ r.ph = "answer" /\ reqs' = reqs \ {r}
  /\ IF r.lost THEN UNCHANGED d ELSE Page(r.dev, Answer(d[r.dev], r))
  /\ UNCHANGED <<slot, listener, tunnel, n>>
\* The request times out at the device; the registry may still act on it.
TimesOut(r) ==
  /\ ~ r.lost /\ n.lost < MaxLost /\ n' = [n EXCEPT !.lost = @ + 1] /\ Put(r, [r EXCEPT !.lost = TRUE])
  /\ Page(r.dev, Answer(d[r.dev], [r EXCEPT !.err = TRUE])) /\ UNCHANGED <<slot, listener, tunnel>>

Registry ==
  \/ (\E r \in reqs : ControllerDisable(r) \/ ControllerRegenerate(r) \/ ControllerStatus(r) \/ ControllerEnable(r)
                      \/ ForwardFails(r) \/ EnableReturns(r))
  \/ (\E id \in 1..n.id : acceptTunnel(id)) \/ markTunnelClosed
Pages ==
  \/ (\E v \in Devices, t \in Targets : openPortRelayWorkbenchTab(v, t) \/ selectPortRelayTarget(v, t)
                                        \/ commitPortRelayDraftTarget(v, t) \/ deletePortRelayTarget(v, t))
  \/ (\E v \in Devices : disablePortRelay(v) \/ regeneratePortRelayAccessCode(v) \/ (\E s \in BOOLEAN : refreshPortRelayStatus(v, s)))
  \/ (\E r \in reqs : Receive(r) \/ TimesOut(r))
Next == Registry \/ Pages
Serve(r) == ControllerDisable(r) \/ ControllerRegenerate(r) \/ ControllerStatus(r) \/ ControllerEnable(r) \/ EnableReturns(r) \/ Receive(r)
Fairness == WF_vars(\E r \in reqs : Serve(r)) /\ WF_vars(\E id \in 1..n.id : acceptTunnel(id))
Spec == Init /\ [][Next]_vars
FairSpec == Spec /\ Fairness
-----------------------------------------------------------------------------
Mine(v) == {r \in reqs : r.dev = v /\ ~ r.lost}
TypeOK ==
  /\ listener.id \in 0..n.id /\ tunnel \in 0..n.id /\ slot.gen \in Nat
  /\ slot.on <=> slot.status # "Disabled"
  /\ \A v \in Devices : (d[v].loading => \E r \in Mine(v) : ~ r.silent) /\ Len(d[v].targets) <= Cardinality(Targets)

\* Up means that the listener is open and the tunnel is that of the slot:
\* requests never reach the hub of an earlier target.
UpMeansReachable == slot.status = "Up" => listener.open /\ tunnel = slot.id

\* A device that shows a code as current shows the code of the slot.
KnownCodeIsTheSlots ==
  \A v \in Devices : Mine(v) = {} /\ slot.on /\ d[v].snap.on /\ d[v].snap.gen = slot.gen /\ ~ portRelayAccessCodeUnknown(d[v])
                     => d[v].code = slot.code

\* The saved targets are the ones on the page.
\* Not kept by the code: see the README.
SavedIsShown == \A v \in Devices : Mine(v) = {} => d[v].saved = [targets |-> d[v].targets, sel |-> d[v].sel]

\* A request does not leave the page loading.
LoadingEnds == \A v \in Devices : d[v].loading ~> ~ d[v].loading

\* An enabled relay comes up when the hub can be reached.
\* Not kept by the code: see the README.
ComesUp == (slot.status = "Opening") ~> (slot.status # "Opening")
=============================================================================
