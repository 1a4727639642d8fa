---------------------------- MODULE VoiceButton ----------------------------
(***************************************************************************)
(* VoiceInputButton: one button that sends on a short press when there is  *)
(* something to send, records while it is held, and records "locked" after *)
(* a tap.  A press is a pointer from its pointerdown; starting to record   *)
(* is asynchronous (the permission prompt), and the browser's click event  *)
(* follows a press and must not act a second time.                         *)
(***************************************************************************)
EXTENDS Naturals, FiniteSets

CONSTANTS SlowPress,   \* whether a press may last longer than the 800 ms a click is suppressed
          MaxPresses   \* bound
ButtonConstants == SlowPress \in BOOLEAN /\ MaxPresses \in Nat

VARIABLES
  ptr,        \* pointerRef.current
  suppress,   \* suppressNextClickRef
  click,      \* the browser still owes the click event of the last press
  held,       \* a finger or button is down
  starts,     \* presses whose onStart has not settled
  rec, mode,  \* the app: "idle", "on" or "finishing", and voiceInteractionMode
  content,    \* hasSendableContent
  n, did      \* the number of the press and what the button called since
vars == <<ptr, suppress, click, held, starts, rec, mode, content, n, did>>

NoPointer == [id |-> 0, started |-> FALSE, mode |-> "none", settled |-> FALSE, cancel |-> FALSE, pending |-> "none", timer |-> FALSE]
Pointer == [NoPointer EXCEPT !.id = n + 1, !.timer = TRUE]
Recording == rec # "idle"
Calls == {"send", "finish", "cancel", "lock", "start"}

Init ==
  /\ ptr = NoPointer /\ suppress = FALSE /\ click = FALSE /\ held = FALSE /\ starts = {} /\ rec = "idle" /\ mode = "none"
  /\ content \in BOOLEAN /\ n = 0 /\ did = {}
-----------------------------------------------------------------------------
\* What the app does with a call of the button.
Call(a) ==
  /\ did' = did \union {a}
  /\ rec' = CASE a = "start" -> (IF rec = "idle" THEN "on" ELSE rec)
              [] a = "finish" -> (IF rec = "on" THEN "finishing" ELSE rec)
              [] a = "cancel" -> "idle" [] OTHER -> rec
  /\ mode' = CASE a = "lock" -> "locked" [] a = "cancel" -> "none" [] OTHER -> mode

\* runTerminalAction
Terminal(a) ==
  IF a = "none" THEN UNCHANGED <<suppress, did, rec, mode>>
  ELSE suppress' = TRUE /\ Call(a)

\* beginVoiceStart
Begin(p, m) ==
  /\ ptr' = [p EXCEPT !.timer = FALSE, !.started = TRUE, !.mode = m]
  /\ suppress' = TRUE /\ starts' = starts \union {p.id} /\ did' = did \union {"start"}
  /\ rec' = (IF rec = "idle" THEN "on" ELSE rec) /\ mode' = (IF rec = "idle" THEN m ELSE mode)

onPointerDown ==
  /\ ~ held /\ ~ click /\ n < MaxPresses /\ held' = TRUE /\ n' = n + 1
  /\ IF Recording
     THEN /\ ptr' = NoPointer /\ suppress' = TRUE /\ did' = {"finish"} /\ UNCHANGED <<starts, mode>>
          /\ rec' = "finishing"
     ELSE IF ptr # NoPointer THEN did' = {} /\ UNCHANGED <<ptr, suppress, starts, rec, mode>>
     ELSE IF content
     THEN ptr' = Pointer /\ did' = {} /\ UNCHANGED <<suppress, starts, rec, mode>>
     ELSE /\ ptr' = [Pointer EXCEPT !.started = TRUE, !.mode = "locked"] /\ suppress' = TRUE
          /\ starts' = starts \union {n + 1} /\ did' = {"start"} /\ rec' = "on" /\ mode' = "locked"
  /\ UNCHANGED <<click, content>>

\* The long-press timer: start, or turn a locked start into a held one.
promotePointerToHold ==
  /\ ptr.timer /\ held
  /\ IF ~ ptr.started THEN Begin(ptr, "hold")
     ELSE /\ ptr' = [ptr EXCEPT !.timer = FALSE, !.mode = "hold"] /\ mode' = "hold"
          /\ UNCHANGED <<suppress, starts, did, rec>>
  /\ UNCHANGED <<click, held, content, n>>

\* Sliding up while holding means cancel.
onPointerMove ==
  /\ held /\ ptr.id = n /\ ptr.mode = "hold" /\ ptr' = [ptr EXCEPT !.cancel = ~ @]
  /\ UNCHANGED <<suppress, click, held, starts, rec, mode, content, n, did>>

resolvePointerAction(p) ==
  IF p.mode = "hold" THEN (IF p.cancel THEN "cancel" ELSE "finish") ELSE "lock"

\* finishPointer: up or cancel of the active pointer; late when 260 ms had
\* passed although the timer has not run.
finishPointer(p, up, late) ==
  IF ~ p.started
  THEN IF up /\ late
       THEN /\ ptr' = [p EXCEPT !.timer = FALSE, !.started = TRUE, !.mode = "hold", !.pending = "lock"]
            /\ suppress' = TRUE /\ starts' = starts \union {p.id} /\ did' = did \union {"start"}
            /\ rec' = (IF rec = "idle" THEN "on" ELSE rec) /\ mode' = (IF rec = "idle" THEN "hold" ELSE mode)
       ELSE ptr' = NoPointer /\ Terminal(IF up /\ content THEN "send" ELSE "none") /\ UNCHANGED starts
  ELSE IF ~ p.settled
  THEN ptr' = [p EXCEPT !.timer = FALSE, !.cancel = FALSE, !.pending = "lock"] /\ UNCHANGED <<suppress, starts, did, rec, mode>>
  ELSE ptr' = NoPointer /\ Terminal(resolvePointerAction(p)) /\ UNCHANGED starts

Release(up, late) ==
  /\ held /\ held' = FALSE /\ click' \in {FALSE, up}
  /\ (late => ptr.timer)
  /\ IF ptr.id = n /\ ptr # NoPointer THEN finishPointer(ptr, up, late) ELSE UNCHANGED <<ptr, suppress, starts, did, rec, mode>>
  /\ UNCHANGED <<content, n>>

\* onStart settles (startVoiceInput reports failures itself): the action
\* that waited for it runs, if the press is still the active one.
StartSettles(i, failed) ==
  /\ i \in starts /\ ~ click /\ starts' = starts \ {i} /\ rec' = IF failed THEN "idle" ELSE rec
  /\ IF ptr.id # i THEN UNCHANGED <<ptr, suppress, did>> /\ mode' = IF failed THEN "none" ELSE mode
     ELSE IF ptr.pending = "none"
     THEN ptr' = [ptr EXCEPT !.settled = TRUE] /\ UNCHANGED <<suppress, did>> /\ mode' = IF failed THEN "none" ELSE mode
     ELSE ptr' = NoPointer /\ suppress' = TRUE /\ did' = did \union {"lock"} /\ mode' = "locked"
  /\ UNCHANGED <<click, held, content, n>>

\* The 800 ms of suppressNextClick pass.
SuppressEnds ==
  /\ suppress /\ ~ click /\ (held => SlowPress) /\ suppress' = FALSE
  /\ UNCHANGED <<ptr, click, held, starts, rec, mode, content, n, did>>

onClick ==
  /\ click /\ click' = FALSE
  /\ IF suppress THEN suppress' = FALSE /\ UNCHANGED <<ptr, starts, did, rec, mode>>
     ELSE IF Recording
     THEN /\ ptr' = NoPointer /\ Call("finish") /\ UNCHANGED <<suppress, starts>>
     ELSE IF ptr # NoPointer /\ ptr.started
     THEN ptr' = NoPointer /\ UNCHANGED <<suppress, starts, did, rec, mode>>
     ELSE IF content
     THEN ptr' = NoPointer /\ Call("send") /\ UNCHANGED <<suppress, starts>>
     ELSE ptr' = NoPointer /\ did' = did \union {"start"} /\ rec' = "on" /\ mode' = "locked" /\ UNCHANGED <<suppress, starts>>
  /\ UNCHANGED <<held, content, n>>

\* The app ends the input (final transcript, error), or text appears.
AppEnds ==
  /\ Recording /\ ~ click /\ rec' = "idle" /\ mode' = "none" /\ content' \in BOOLEAN
  /\ UNCHANGED <<ptr, suppress, click, held, starts, n, did>>

Next ==
  \/ onPointerDown \/ promotePointerToHold \/ onPointerMove \/ onClick \/ SuppressEnds \/ AppEnds
  \/ (\E up, late \in BOOLEAN : Release(up, late)) \/ (\E i \in starts, f \in BOOLEAN : StartSettles(i, f))
Fairness == WF_vars(\E i \in starts, f \in BOOLEAN : StartSettles(i, f)) /\ WF_vars(\E u, l \in BOOLEAN : Release(u, l)) /\ WF_vars(onClick)
Spec == Init /\ [][Next]_vars
FairSpec == Spec /\ Fairness
-----------------------------------------------------------------------------
TypeOK ==
  /\ ptr.id \in 0..n /\ ptr.mode \in {"none", "locked", "hold"} /\ ptr.pending \in {"none", "lock"}
  /\ {suppress, click, held, content, ptr.started, ptr.settled, ptr.cancel, ptr.timer} \subseteq BOOLEAN
  /\ starts \subseteq 1..n /\ rec \in {"idle", "on", "finishing"} /\ mode \in {"none", "locked", "hold"} /\ did \subseteq Calls

\* One press, click included, sends, finishes or cancels at most once, and
\* a press that began to record never sends.
OnePressOneAction ==
  /\ Cardinality(did \intersect {"send", "finish", "cancel"}) <= 1
  /\ ~ ({"start", "send"} \subseteq did)

\* A recording that lasts only while the button is held does not go on
\* after the press has ended and its start has settled.
HoldNeedsFinger == rec = "on" /\ mode = "hold" => held \/ starts # {}

\* Letting go while the permission prompt is open does not end the input.
\* Not kept by the code: see the README.
ReleaseKeepsInput == [][onClick /\ starts # {} /\ rec = "on" => rec' = "on"]_vars
=============================================================================
