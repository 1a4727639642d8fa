---------------------------- MODULE TerminalSync ----------------------------
(***************************************************************************)
(* One terminal of a hub as one page shows it: output events with run and  *)
(* sequence number, snapshots, what is buffered while one is fetched, and  *)
(* the emulator that parses a snapshot while further output arrives.       *)
(***************************************************************************)
EXTENDS Naturals, Sequences, SequencesExt

CONSTANTS MaxSeq,   \* bound on the outputs of a run
          MaxRuns,  \* bound on runs of the terminal
          MaxBuf,   \* MAX_BUFFERED_EVENTS
          MaxNet,   \* bound on output on its way
          Ops       \* what happens: "lose", "drop", "restart", "close", "hide", "tab", "slow", "fail"
TerminalConstants == {MaxSeq, MaxRuns, MaxBuf, MaxNet} \subseteq Nat /\ Ops \subseteq {"lose", "drop", "restart", "close", "hide", "tab", "slow", "fail"}

VARIABLES run,       \* the run of the hub's terminal, 0 when it was closed
          seq,       \* its output so far
          up,        \* whether it is running
          net,       \* output events on their way
          changed,   \* terminal.changed events on their way
          connected, \* connectedRef
          list,      \* whether a terminal.list is not answered
          known,     \* terminals[key]: run and status
          available, \* not in unavailableHubIds
          att,       \* attached[key]
          flight,    \* the refresh: "none", "sent", "answered", "parsing"
          answer,    \* the snapshot of an answered refresh
          tail,      \* writes that wait for the snapshot to be parsed
          retry,     \* retrySnapshot
          want,      \* a refresh that the effect asked for at the next frame
          open,      \* terminalOpen
          sel,       \* whether activeTerminalKey names it
          screen,    \* what the emulator shows: run, output, and whether it is in order
          spoilt     \* since the last snapshot: whether the emulator was built anew
                     \* without one, or output was written before earlier output
hub == <<run, seq, up>>
wire == <<net, changed, connected, list>>
page == <<known, available, att, flight, answer, tail, retry, want, open, sel, screen, spoilt>>
vars == <<hub, wire, page>>

NoTerminal == [run |-> 0, up |-> FALSE]
NotAttached == [there |-> FALSE, run |-> 0, exp |-> 1, loading |-> FALSE, asked |-> FALSE, buf |-> <<>>]
Blank == [run |-> 0, n |-> 0, ok |-> TRUE]
NoAnswer == [run |-> 0, seq |-> 0, up |-> FALSE]
Meta == [run |-> run, up |-> up]
Init ==
  /\ run = 1 /\ seq = 0 /\ up = TRUE /\ net = <<>> /\ changed = {} /\ connected = TRUE /\ list = FALSE
  /\ known = [run |-> 1, up |-> TRUE] /\ available = TRUE /\ att = NotAttached /\ flight = "none" /\ answer = NoAnswer /\ tail = <<>> /\ retry = FALSE
  /\ want = TRUE /\ open = TRUE /\ sel = TRUE /\ screen = Blank /\ spoilt = FALSE
-----------------------------------------------------------------------------
\* The hub.  Output is numbered under the lock and then published, which may
\* fail; a change is published from a goroutine of its own.
commitPreparedOutput ==
  /\ up /\ seq < MaxSeq /\ seq' = seq + 1 /\ UNCHANGED <<run, up, changed, connected, list, page>>
  /\ \/ connected /\ Len(net) < MaxNet /\ net' = Append(net, [run |-> run, seq |-> seq + 1])
     \/ (~ connected \/ "lose" \in Ops) /\ UNCHANGED net
publishChanged(m) == changed' = IF connected THEN changed \union {m} ELSE changed
finishRun == "restart" \in Ops /\ up /\ up' = FALSE /\ publishChanged([run |-> run, up |-> FALSE]) /\ UNCHANGED <<run, seq, net, connected, list, page>>
Restart == "restart" \in Ops /\ run # 0 /\ ~ up /\ run < MaxRuns /\ run' = run + 1 /\ seq' = 0 /\ up' = TRUE /\ publishChanged([run |-> run + 1, up |-> TRUE]) /\ UNCHANGED <<net, connected, list, page>>
CloseTerminal == "close" \in Ops /\ run # 0 /\ run' = 0 /\ up' = FALSE /\ seq' = 0 /\ publishChanged(NoTerminal) /\ UNCHANGED <<net, connected, list, page>>
-----------------------------------------------------------------------------
\* runTerminalEffects writes to the emulator that is mounted.
Written(s, e) == [run |-> s.run, n |-> e.seq, ok |-> s.ok /\ s.run = e.run /\ e.seq = s.n + 1]
WriteAll(s, es) == FoldLeft(Written, s, es)
Shown == open /\ sel
\* refreshTerminal; one at a time for a terminal.
beginTerminalSnapshot(a) == [a EXCEPT !.there = TRUE, !.loading = TRUE, !.asked = TRUE, !.buf = <<>>]
Refreshes(a) == IF flight = "none" THEN flight' = "sent" /\ att' = beginTerminalSnapshot(a) ELSE flight' = flight /\ att' = a
Effect ==
  /\ want /\ want' = FALSE /\ (IF connected /\ open /\ sel /\ known.run # 0 THEN Refreshes(att) ELSE UNCHANGED <<flight, att>>)
  /\ UNCHANGED <<hub, wire, known, available, answer, tail, retry, open, sel, screen, spoilt>>
\* Get: terminal, number and screen under one lock.
Get ==
  /\ flight = "sent" /\ connected /\ run # 0 /\ flight' = "answered" /\ answer' = [run |-> run, seq |-> seq, up |-> up]
  /\ UNCHANGED <<hub, wire, known, available, att, tail, retry, want, open, sel, screen, spoilt>>
\* The call fails: its terminal is gone, the connection was lost, or it is late.
GetFails ==
  /\ flight = "sent" /\ (run = 0 \/ ~ connected \/ "fail" \in Ops) /\ flight' = "none" /\ available' = FALSE
  /\ UNCHANGED <<hub, wire, known, att, answer, tail, retry, want, open, sel, screen, spoilt>>
\* What of the buffered events follows the snapshot, up to the first gap.
Drain(buf, exp) ==
  LET fits(k) == \A i \in 1..k : buf[i].run = answer.run /\ buf[i].seq <= exp + i - 1 - Len(SelectSeq(SubSeq(buf, 1, i - 1), LAMBDA e : e.seq < exp))
      n == CHOOSE k \in 0..Len(buf) : fits(k) /\ (k = Len(buf) \/ ~ fits(k + 1))
      ws == SelectSeq(SubSeq(buf, 1, n), LAMBDA e : e.seq >= exp)
  IN [exp |-> exp + Len(ws), writes |-> ws, gap |-> n < Len(buf)]

\* applyTerminalSnapshot and its effects: the emulator is reset and parses the
\* snapshot, at once or while other events are handled; without an emulator
\* there is nothing to wait for.
applyTerminalSnapshot ==
  /\ flight = "answered" /\ known' = [run |-> answer.run, up |-> answer.up] /\ answer' = NoAnswer /\ spoilt' = (spoilt /\ ~ Shown)
  /\ \E d \in {Drain(att.buf, answer.seq + 1)} :
       \E a \in {[there |-> TRUE, run |-> answer.run, exp |-> d.exp, loading |-> d.gap, asked |-> d.gap, buf |-> <<>>]} :
         \E s \in {IF Shown THEN [run |-> answer.run, n |-> answer.seq, ok |-> TRUE] ELSE screen} :
           \/ "slow" \in Ops /\ Shown /\ flight' = "parsing" /\ att' = a /\ screen' = s /\ tail' = d.writes /\ retry' = d.gap
           \/ /\ ("slow" \notin Ops \/ ~ Shown) /\ screen' = (IF Shown THEN WriteAll(s, d.writes) ELSE s) /\ UNCHANGED <<tail, retry>>
              /\ IF d.gap THEN flight' = "sent" /\ att' = beginTerminalSnapshot(a) ELSE flight' = "none" /\ att' = a
  /\ UNCHANGED <<hub, wire, available, want, open, sel>>
\* The snapshot is parsed: the rest is written, then a gap is fetched again.
Parsed ==
  /\ flight = "parsing" /\ screen' = (IF Shown THEN WriteAll(screen, tail) ELSE screen) /\ tail' = <<>> /\ retry' = FALSE
  /\ (IF retry /\ known.run # 0 THEN flight' = "sent" /\ att' = beginTerminalSnapshot(att) ELSE flight' = "none" /\ UNCHANGED att)
  /\ UNCHANGED <<hub, wire, known, available, answer, want, open, sel, spoilt>>
-----------------------------------------------------------------------------
AnySeq(e) == att' = [att EXCEPT !.exp = e.seq + 1] /\ screen' = (IF Shown THEN Written(screen, e) ELSE screen) /\ UNCHANGED flight
InOrder(e) ==
  \/ e.run = att.run /\ e.seq = att.exp /\ att' = [att EXCEPT !.exp = @ + 1] /\ screen' = (IF Shown THEN Written(screen, e) ELSE screen) /\ UNCHANGED flight
  \/ e.run = att.run /\ e.seq < att.exp /\ UNCHANGED <<att, screen, flight>>
  \/ (e.run # att.run \/ e.seq > att.exp) /\ Refreshes([att EXCEPT !.loading = TRUE, !.asked = TRUE, !.buf = <<e>>]) /\ UNCHANGED screen
Buffered(e) == IF Len(att.buf) + 1 > MaxBuf THEN Refreshes([att EXCEPT !.buf = <<>>]) ELSE att' = [att EXCEPT !.buf = Append(@, e)] /\ UNCHANGED flight
\* receiveTerminalOutput
receiveTerminalOutput ==
  /\ connected /\ net # <<>> /\ net' = Tail(net)
  /\ \E e \in {Head(net)} :
       \/ ~ att.there /\ UNCHANGED <<att, flight, screen>>
       \/ att.there /\ att.loading /\ Buffered(e) /\ UNCHANGED screen
       \/ att.there /\ ~ att.loading /\ InOrder(e)
  /\ spoilt' = (spoilt \/ (screen' # screen /\ tail # <<>>))
  /\ UNCHANGED <<hub, changed, connected, list, known, available, answer, tail, retry, want, open, sel>>
\* The page no longer lists the terminal; what was attached goes with it.
Forgotten == known' = NoTerminal /\ att' = NotAttached /\ screen' = Blank /\ spoilt' = FALSE /\ sel' = FALSE /\ UNCHANGED <<flight, want>>
\* applyTerminalChanged; another run is fetched.
applyTerminalChanged(m) ==
  /\ connected /\ m \in changed /\ changed' = changed \ {m} /\ available' = TRUE
  /\ IF m.run = 0 THEN Forgotten
     ELSE /\ known' = m /\ UNCHANGED <<screen, spoilt, sel, want>>
          /\ IF sel /\ m.run # att.run THEN Refreshes(att) ELSE UNCHANGED <<att, flight>>
  /\ UNCHANGED <<hub, net, connected, list, answer, tail, retry, open>>
-----------------------------------------------------------------------------
Disconnect ==
  /\ "drop" \in Ops /\ connected /\ connected' = FALSE /\ net' = <<>> /\ changed' = {} /\ list' = FALSE /\ available' = FALSE
  /\ flight' = (IF flight = "answered" THEN "sent" ELSE flight) /\ answer' = NoAnswer /\ UNCHANGED <<hub, known, att, tail, retry, want, open, sel, screen, spoilt>>
Reconnect == ~ connected /\ flight # "sent" /\ connected' = TRUE /\ list' = TRUE /\ want' = TRUE /\ UNCHANGED <<hub, net, changed, known, available, att, flight, answer, tail, retry, open, sel, screen, spoilt>>
\* mergeTerminalLists: the hub's terminals replace what was known of it.
mergeTerminalLists ==
  /\ connected /\ list /\ list' = FALSE /\ available' = TRUE
  /\ IF run = 0 THEN Forgotten ELSE known' = Meta /\ sel' = TRUE /\ want' = (want \/ ~ sel) /\ UNCHANGED <<att, flight, screen, spoilt>>
  /\ UNCHANGED <<hub, net, changed, connected, answer, tail, retry, open>>
\* handleSelectTerminal
handleSelectTerminal == ~ sel /\ known.run # 0 /\ sel' = TRUE /\ open' = TRUE /\ want' = TRUE /\ UNCHANGED <<hub, wire, known, available, att, flight, answer, tail, retry, screen, spoilt>>
\* The panel is hidden or shown; the emulator is built anew.
ToggleTerminal ==
  /\ "hide" \in Ops /\ open' = ~ open /\ screen' = Blank /\ want' = TRUE /\ spoilt' = (spoilt \/ flight = "parsing")
  /\ UNCHANGED <<hub, wire, known, available, att, flight, answer, tail, retry, sel>>
\* So it is when another tab was shown, but nothing asks for a snapshot.
Remount == "tab" \in Ops /\ open /\ screen' = Blank /\ spoilt' = TRUE /\ UNCHANGED <<hub, wire, known, available, att, flight, answer, tail, retry, want, open, sel>>
canSendTerminalInput == connected /\ known.run # 0 /\ known.up /\ available /\ att.there /\ ~ att.loading /\ att.run = known.run
-----------------------------------------------------------------------------
PageStep == Effect \/ Get \/ GetFails \/ applyTerminalSnapshot \/ Parsed \/ receiveTerminalOutput \/ mergeTerminalLists \/ (\E m \in changed : applyTerminalChanged(m))
Next == commitPreparedOutput \/ finishRun \/ Restart \/ CloseTerminal \/ PageStep \/ Disconnect \/ Reconnect \/ ToggleTerminal \/ handleSelectTerminal \/ Remount
Spec == Init /\ [][Next]_vars
\* Calls are answered or fail, events arrive, snapshots are parsed.
Fairness ==
  /\ WF_vars(Effect) /\ WF_vars(Get) /\ WF_vars(GetFails) /\ WF_vars(applyTerminalSnapshot) /\ WF_vars(Parsed)
  /\ WF_vars(receiveTerminalOutput) /\ WF_vars(mergeTerminalLists) /\ WF_vars(\E m \in changed : applyTerminalChanged(m))
FairSpec == Spec /\ Fairness
-----------------------------------------------------------------------------
TypeOK ==
  /\ run \in 0..MaxRuns /\ seq \in 0..MaxSeq /\ {up, connected, list, available, retry, want, open, sel, screen.ok} \subseteq BOOLEAN
  /\ flight \in {"none", "sent", "answered", "parsing"} /\ att.exp \in 1..(MaxSeq + 1) /\ Len(att.buf) <= MaxBuf /\ screen.n \in 0..MaxSeq

\* Whenever the page takes input, the emulator shows the output of that run
\* as far as it was received, in order and without a gap.  There are three
\* exceptions, none of which the code repairs before the next snapshot: the
\* emulator was built anew by a change of tabs, or while a snapshot was being
\* parsed (the refresh that follows is dropped as one under way), or output
\* was written while buffered output waited for the parser.
ScreenIsFaithful ==
  (Shown /\ ~ want /\ flight = "none" /\ canSendTerminalInput /\ ~ spoilt) => screen.ok /\ screen.run = att.run /\ screen.n = att.exp - 1

\* A terminal that stays shown on a connection that stays up ends up with all
\* of the output of the hub's run.
ShowsEverything == (<>[](connected /\ open /\ sel /\ run # 0)) => <>[](screen = [run |-> run, n |-> seq, ok |-> TRUE])

\* A snapshot that is needed is fetched: the terminal does not stay loading.
LoadingEnds == (connected /\ open /\ att.loading) ~> (~ connected \/ ~ open \/ ~ att.loading)

\* A terminal that was closed is gone from the page too.
\* Not kept by the code: see the README.
ClosedIsRemoved == (<>[](connected /\ run = 0)) => <>[](known.run = 0)
=============================================================================
