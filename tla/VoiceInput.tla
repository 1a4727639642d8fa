----------------------------- MODULE VoiceInput -----------------------------
(***************************************************************************)
(* Voice input of the chat composer over the registry: the microphone, the *)
(* local buffer, the send queue of the current speech stream, the loop     *)
(* that starts a stream (and another after a disconnect), finishing, the   *)
(* transcript and error events, and the registry's one speech slot per     *)
(* connection.                                                             *)
(*                                                                         *)
(* c holds the refs of WorkspaceApp; its handlers are functions on it, as  *)
(* one handler calls another.  Audio is the number of a chunk, recognised  *)
(* text the number of the stream that produced it.  Promise reactions run  *)
(* before the next event: Micro has priority over every other step.        *)
(***************************************************************************)
EXTENDS Naturals, Sequences, FiniteSets

CONSTANTS Chats, NoChat,
          MaxBuffer,                                   \* chunks the local buffer holds
          MaxStarts, MaxChunks, MaxDrops, MaxErrors, MaxSwitches, MaxFinishes, MaxStreams  \* bounds

VoiceConstants ==
  /\ NoChat \notin Chats /\ MaxBuffer \in Nat \ {0}
  /\ {MaxStarts, MaxChunks, MaxDrops, MaxErrors, MaxSwitches, MaxFinishes, MaxStreams} \subseteq Nat

VARIABLES c, asks, fins, srv, got, origin, used
vars == <<c, asks, fins, srv, got, origin, used>>

Streams == 1..MaxStreams
NoSession == [chat |-> NoChat, base |-> {}, done |-> {}, live |-> {}]
NoQueue == [items |-> <<>>, flight |-> FALSE, gen |-> 0, cancelled |-> FALSE, err |-> "none"]
Ops == {"start", "chunk", "drop", "error", "switch", "finish"}
Bound == [start |-> MaxStarts, chunk |-> MaxChunks, drop |-> MaxDrops, error |-> MaxErrors, switch |-> MaxSwitches, finish |-> MaxFinishes]
Spend(o) == used[o] < Bound[o] /\ used' = [used EXCEPT ![o] = @ + 1]

Idle(chat) ==
  [gen |-> 0, rec |-> FALSE, stream |-> 0, q |-> 0, await |-> FALSE, pend |-> FALSE, req |-> FALSE,
   key |-> NoChat, timer |-> 0, capGen |-> 0, mic |-> 0, mics |-> {}, ready |-> FALSE, buf |-> <<>>, heard |-> <<>>,
   sess |-> NoSession, up |-> TRUE, cur |-> chat, text |-> [ch \in Chats |-> {}],
   queues |-> [s \in Streams |-> NoQueue], loops |-> {}, cancels |-> {}]

Init ==
  /\ \E chat \in Chats : c = Idle(chat)
  /\ asks = {} /\ fins = {} /\ srv = [s \in Streams |-> "none"] /\ got = [s \in Streams |-> <<>>]
  /\ origin = [s \in Streams |-> NoChat] /\ used = [o \in Ops |-> 0]
-----------------------------------------------------------------------------
(* The handlers' building blocks. *)

InContext(d) == d.key = NoChat \/ d.key = d.cur
Busy(d) == d.rec \/ d.stream # 0 \/ d.await
Active(d, g) == d.gen = g /\ (d.rec \/ d.stream # 0) /\ InContext(d)

Write(d, t) == [d EXCEPT !.text[d.cur] = t]
Commit(d) ==
  IF d.sess = NoSession THEN d
  ELSE LET s == [d.sess EXCEPT !.done = @ \union d.sess.live, !.live = {}]
       IN Write([d EXCEPT !.sess = s], s.base \union s.done)

StopCapture(d) == [d EXCEPT !.mics = @ \ {d.mic}, !.mic = 0, !.capGen = 0]
CancelQueue(d) == IF d.q = 0 THEN d ELSE [d EXCEPT !.queues[d.q].cancelled = TRUE, !.q = 0]
Clear(d) ==
  [CancelQueue(d) EXCEPT !.gen = @ + 1, !.timer = 0, !.buf = <<>>, !.pend = FALSE, !.await = FALSE,
     !.req = FALSE, !.key = NoChat, !.rec = FALSE, !.stream = 0, !.sess = NoSession]
SendCancel(d, s) == IF s # 0 /\ d.up THEN [d EXCEPT !.cancels = @ \union {s}] ELSE d

Cancel(d, restore) ==
  LET e == StopCapture(d)
      f == IF d.sess # NoSession /\ restore THEN Write(e, d.sess.base) ELSE e
  IN SendCancel(Clear(f), d.stream)
Preserve(d, cancelStream) == SendCancel(Clear(Commit(StopCapture(d))), IF cancelStream THEN d.stream ELSE 0)

Complete(d, g) == IF d.gen = g THEN Clear(Commit(d)) ELSE d

\* runVoiceStartLoop for the current generation.
Spawn(d) ==
  LET id == CHOOSE i \in 1..(Cardinality(d.loops) + 1) : \A l \in d.loops : l.id # i
  IN [d EXCEPT !.loops = @ \union {[id |-> id, gen |-> d.gen, pc |-> "top", sid |-> 0]}]

\* handleVoiceRegistryClosedDuringInput: keep what was recognised, forget
\* the stream and, while still recording, start another.
ClosedDuringInput(d) ==
  IF ~ Busy(d) THEN d
  ELSE LET e == [CancelQueue(Commit(d)) EXCEPT !.stream = 0, !.req = FALSE]
       IN IF ~ e.rec \/ e.pend \/ e.await THEN e ELSE Spawn(e)

\* handleVoiceChunkSendFailure: "closed" is the only retryable error here.
ChunkFailure(d, g, err) ==
  IF ~ Active(d, g) THEN d
  ELSE IF ~ d.pend /\ err = "closed" THEN ClosedDuringInput(d) ELSE Cancel(d, TRUE)

\* enqueue of voiceInputSendQueue: the first chunk is sent at once.
Enqueue(d, x) == [d EXCEPT !.queues[d.q].items = Append(@, x), !.queues[d.q].flight = TRUE]
\* flushVoiceInputBufferToQueue
Flush(d) == [d EXCEPT !.queues[d.q].items = @ \o d.buf, !.queues[d.q].flight = d.buf # <<>>, !.buf = <<>>]
-----------------------------------------------------------------------------
(* Starting: permission, microphone, stream. *)

startVoiceInput ==
  /\ ~ Busy(c) /\ Spend("start")
  /\ LET g == c.gen + 1 IN
     /\ c' = [c EXCEPT !.gen = g, !.sess = [NoSession EXCEPT !.chat = c.cur, !.base = c.text[c.cur]], !.buf = <<>>, !.heard = <<>>, !.q = 0,
                       !.pend = FALSE, !.await = FALSE, !.req = FALSE, !.key = c.cur,
                       !.capGen = g, !.rec = TRUE]
     /\ asks' = asks \union {g}
  /\ UNCHANGED <<fins, srv, got, origin>>

GrantedAlways(g) ==
  /\ g \in asks /\ asks' = asks \ {g} /\ c' = [c EXCEPT !.mic = g, !.mics = @ \union {g}, !.ready = FALSE]
  /\ UNCHANGED <<fins, srv, got, origin, used>>
\* The microphone is granted; it is released again if the input has gone.
Granted(g) ==
  /\ g \in asks /\ asks' = asks \ {g}
  /\ c' = IF c.capGen = g /\ Active(c, g) THEN [c EXCEPT !.mic = g, !.mics = @ \union {g}, !.ready = FALSE] ELSE c
  /\ UNCHANGED <<fins, srv, got, origin, used>>

Denied(g) ==
  /\ g \in asks /\ asks' = asks \ {g}
  /\ c' = SendCancel(Clear(StopCapture(c)), c.stream)
  /\ UNCHANGED <<fins, srv, got, origin, used>>

\* onReady: the first audio callback starts the stream.
MicReady ==
  /\ c.mic # 0 /\ ~ c.ready
  /\ c' = LET d == [c EXCEPT !.ready = TRUE]
          IN IF Active(d, d.capGen) /\ ~ d.req THEN Spawn([d EXCEPT !.req = TRUE]) ELSE d
  /\ UNCHANGED <<asks, fins, srv, got, origin, used>>

PCMChunkOver(d, x) ==
  IF ~ Active(d, d.capGen) \/ d.pend THEN d
  ELSE LET e == [d EXCEPT !.heard = Append(@, x)]
       IN IF d.q # 0 THEN Enqueue(e, x)
          ELSE IF Len(d.buf) > MaxBuffer THEN Preserve(d, TRUE)
          ELSE [e EXCEPT !.buf = Append(@, x)]
\* handleVoicePCMChunk
PCMChunk(d, x) ==
  IF ~ Active(d, d.capGen) \/ d.pend THEN d
  ELSE LET e == [d EXCEPT !.heard = Append(@, x)]
       IN IF d.q # 0 THEN Enqueue(e, x)
          ELSE IF Len(d.buf) >= MaxBuffer THEN Preserve(d, TRUE)
          ELSE [e EXCEPT !.buf = Append(@, x)]

onChunk ==
  /\ c.mic # 0 /\ c.ready /\ Spend("chunk") /\ c' = PCMChunk(c, used["chunk"] + 1)
  /\ UNCHANGED <<asks, fins, srv, got, origin>>

\* The track ends by itself.
MicEnded ==
  /\ c.mic # 0 /\ (c.rec \/ c.stream # 0) /\ Spend("error") /\ c' = Preserve(c, TRUE)
  /\ UNCHANGED <<asks, fins, srv, got, origin>>
-----------------------------------------------------------------------------
(* runVoiceStartLoop and startVoiceRegistryStream. *)

Move(d, l, pc) == [d EXCEPT !.loops = (@ \ {l}) \union {[l EXCEPT !.pc = pc]}]
End(d, l) == [d EXCEPT !.loops = @ \ {l}]
StartRequest(d, l) ==
  IF d.stream # 0 \/ ~ Active(d, l.gen) THEN End(d, l)
  ELSE IF d.up THEN Move(d, l, "start") ELSE Move(d, l, "wait")

LoopTop(l) ==
  /\ l \in c.loops /\ l.pc = "top"
  /\ c' = IF ~ Active(c, l.gen) \/ c.stream # 0 THEN End(c, l)
          ELSE IF c.up THEN StartRequest(c, l) ELSE Move(c, l, "connect")
  /\ UNCHANGED <<asks, fins, srv, got, origin, used>>

\* connect() returns at once when another attempt is in flight.
ConnectReturns(l) ==
  /\ l \in c.loops /\ l.pc = "connect" /\ c' = StartRequest(c, l)
  /\ UNCHANGED <<asks, fins, srv, got, origin, used>>
Waited(l) ==
  /\ l \in c.loops /\ l.pc = "wait" /\ c' = Move(c, l, "top")
  /\ UNCHANGED <<asks, fins, srv, got, origin, used>>

\* The registry opens a stream and closes the others of the connection.
ServerStarts(l) ==
  /\ l \in c.loops /\ l.pc = "start" /\ c.up
  /\ \E n \in Streams :
       /\ srv[n] = "none" /\ \A k \in Streams : k < n => srv[k] # "none"
       /\ srv' = [s \in Streams |-> IF s = n THEN "active" ELSE IF srv[s] = "none" THEN "none" ELSE "gone"]
       /\ c' = [c EXCEPT !.loops = (@ \ {l}) \union {[l EXCEPT !.pc = "started", !.sid = n]}]
  /\ UNCHANGED <<asks, fins, got, origin, used>>

\* The stream is adopted, or cancelled when the input has gone.
Adopt(d, l) ==
  IF ~ Active(d, l.gen) THEN Move(SendCancel(d, l.sid), l, "top")
  ELSE End(Flush([d EXCEPT !.stream = l.sid, !.req = TRUE, !.q = l.sid, !.queues[l.sid] = [NoQueue EXCEPT !.gen = l.gen]]), l)
StartReply(l) ==
  /\ l \in c.loops /\ l.pc = "started" /\ c' = Adopt(c, l)
  /\ origin' = [origin EXCEPT ![l.sid] = IF Active(c, l.gen) THEN c.sess.chat ELSE @]
  /\ UNCHANGED <<asks, fins, srv, got, used>>

\* The provider refuses: no retry.
StartRefused(l) ==
  /\ l \in c.loops /\ l.pc = "start" /\ Spend("error")
  /\ c' = IF Active(c, l.gen) THEN Cancel(End(c, l), TRUE) ELSE End(c, l)
  /\ UNCHANGED <<asks, fins, srv, got, origin>>
-----------------------------------------------------------------------------
(* The send queue. *)

ServerChunk(s) ==
  /\ c.queues[s].flight /\ c.queues[s].err = "none" /\ c.up
  /\ IF srv[s] = "active"
     THEN /\ got' = [got EXCEPT ![s] = Append(@, Head(c.queues[s].items))]
          /\ c' = [c EXCEPT !.queues[s].items = Tail(@), !.queues[s].flight = Len(c.queues[s].items) > 1 /\ ~ c.queues[s].cancelled]
     ELSE c' = [c EXCEPT !.queues[s].err = "missing"] /\ UNCHANGED got
  /\ UNCHANGED <<asks, fins, srv, origin, used>>

\* The first chunk in line rejects: with the error of its request, and
\* after a cancel() with "voice input send queue cancelled".
Rejecting(d, s) == d.queues[s].items # <<>> /\ (d.queues[s].err # "none" \/ (d.queues[s].cancelled /\ ~ d.queues[s].flight))
ChunkRejects(s) ==
  /\ Rejecting(c, s)
  /\ LET q == c.queues[s]
         err == IF ~ q.flight /\ q.cancelled THEN "cancelled" ELSE q.err
         d == [c EXCEPT !.queues[s].items = Tail(@), !.queues[s].flight = FALSE, !.queues[s].err = err]
     IN c' = ChunkFailure(d, q.gen, err)
  /\ UNCHANGED <<asks, fins, srv, got, origin, used>>
-----------------------------------------------------------------------------
(* Finishing. *)

FinId == CHOOSE i \in 1..(Cardinality(fins) + 1) : \A f \in fins : f.id # i
\* finishVoiceInput; the transcoder's last short chunk is flushed first.
finishVoiceInput(tail) ==
  /\ c.rec /\ ~ c.await /\ used["finish"] < MaxFinishes
  /\ tail => c.mic # 0 /\ c.ready /\ used["chunk"] < MaxChunks
  /\ used' = [used EXCEPT !["finish"] = @ + 1, !["chunk"] = @ + IF tail THEN 1 ELSE 0]
  /\ c' = [StopCapture(IF tail THEN PCMChunk(c, used'["chunk"]) ELSE c) EXCEPT !.pend = TRUE]
  /\ fins' = fins \union {[id |-> FinId, gen |-> c.gen, pc |-> IF c.stream = 0 THEN "ready" ELSE "drain", sid |-> c.q]}
  /\ UNCHANGED <<asks, srv, got, origin>>

FinMove(f, pc, sid) == fins' = (fins \ {f}) \union {[f EXCEPT !.pc = pc, !.sid = sid]}
\* waitForVoiceStreamReady: the stream came, or 15 s passed, or the input went.
StreamReady(f) ==
  /\ f \in fins /\ f.pc = "ready" /\ Active(c, f.gen) /\ c.stream # 0 /\ c.q # 0
  /\ FinMove(f, "drain", c.q)
  /\ UNCHANGED <<c, asks, srv, got, origin, used>>
NotReady(f) ==
  /\ f \in fins /\ f.pc = "ready" /\ ~ (Active(c, f.gen) /\ c.stream # 0 /\ c.q # 0)
  /\ fins' = fins \ {f} /\ c' = Cancel(c, TRUE)
  /\ UNCHANGED <<asks, srv, got, origin, used>>

Drained(f) == f.pc = "drain" /\ (f.sid = 0 \/ c.queues[f.sid].items = <<>>)
\* drain() ends: finish the stream, or give up and keep the text.
AfterDrain(f) ==
  /\ f \in fins /\ Drained(f)
  /\ IF f.sid # 0 /\ c.queues[f.sid].err # "none"
     THEN c' = (IF Active(c, f.gen) THEN Preserve(c, TRUE) ELSE c) /\ fins' = fins \ {f}
     ELSE /\ UNCHANGED c
          /\ IF c.stream = 0 \/ ~ Active(c, f.gen) THEN fins' = fins \ {f}
             ELSE FinMove(f, IF c.up THEN "finish" ELSE "bad", c.stream)
  /\ UNCHANGED <<asks, srv, got, origin, used>>

ServerFinish(f) ==
  /\ f \in fins /\ f.pc = "finish" /\ c.up
  /\ FinMove(f, IF srv[f.sid] = "active" THEN "ok" ELSE "bad", f.sid)
  /\ srv' = IF srv[f.sid] = "active" THEN [srv EXCEPT ![f.sid] = "closing"] ELSE srv
  /\ UNCHANGED <<c, asks, got, origin, used>>

\* The state voiceRecording; an effect copies a change of it to the ref.
Shown(d) == d.rec \/ d.await
\* speech.finish is answered: recognizing, for at most 15 s.
FinishReply(f) ==
  /\ f \in fins /\ f.pc = "ok" /\ fins' = fins \ {f}
  /\ c' = [c EXCEPT !.await = TRUE, !.rec = ~ Shown(c), !.timer = f.gen]
  /\ UNCHANGED <<asks, srv, got, origin, used>>
FinishFails(f) ==
  /\ f \in fins /\ f.pc = "bad" /\ fins' = fins \ {f}
  /\ c' = IF Active(c, f.gen) THEN Preserve(c, TRUE) ELSE c
  /\ UNCHANGED <<asks, srv, got, origin, used>>

FinalTimeout ==
  /\ c.timer # 0 /\ c' = Complete([c EXCEPT !.timer = 0], c.timer)
  /\ UNCHANGED <<asks, fins, srv, got, origin, used>>
-----------------------------------------------------------------------------
(* Events of the registry, the user and the connection. *)

Transcript(s, final) ==
  /\ c.up /\ s = c.stream /\ c.sess # NoSession
  /\ IF final THEN srv[s] = "closing" /\ srv' = [srv EXCEPT ![s] = "gone"]
     ELSE srv[s] \in {"active", "closing"} /\ got[s] # <<>> /\ c.sess.live # {s} /\ UNCHANGED srv
  /\ c' = LET d == IF got[s] = <<>> THEN c
                   ELSE Write([c EXCEPT !.sess.live = {s}], c.sess.base \union c.sess.done \union {s})
          IN IF ~ InContext(c) THEN Cancel(c, FALSE) ELSE IF final THEN Complete(StopCapture(d), d.gen) ELSE d
  /\ UNCHANGED <<asks, fins, got, origin, used>>

\* A final for a stream the client no longer has, and the registry's own
\* 15 s limit for a closing stream.
StreamExpires(s) ==
  /\ srv[s] = "closing" /\ srv' = [srv EXCEPT ![s] = "gone"]
  /\ UNCHANGED <<c, asks, fins, got, origin, used>>

SpeechError(s, retryable) ==
  /\ c.up /\ srv[s] \in {"active", "closing"} /\ Spend("error") /\ srv' = [srv EXCEPT ![s] = "gone"]
  /\ c' = IF s # c.stream THEN c
          ELSE IF retryable /\ c.rec /\ ~ c.pend THEN ClosedDuringInput(c) ELSE Preserve(c, FALSE)
  /\ UNCHANGED <<asks, fins, got, origin>>

CancelHandled(s) ==
  /\ s \in c.cancels /\ c' = [c EXCEPT !.cancels = @ \ {s}]
  /\ srv' = [srv EXCEPT ![s] = "gone"]
  /\ UNCHANGED <<asks, fins, got, origin, used>>

cancelVoiceInputByGesture ==
  /\ c.rec /\ ~ c.await /\ Spend("finish") /\ c' = Cancel(c, TRUE)
  /\ UNCHANGED <<asks, fins, srv, got, origin>>

\* Another chat is selected; the effect cancels an input of the old one.
SelectChat(chat) ==
  /\ chat # c.cur /\ Spend("switch")
  /\ c' = LET d == [c EXCEPT !.cur = chat]
          IN IF (d.rec \/ d.stream # 0) /\ ~ InContext(d) THEN Cancel(d, FALSE) ELSE d
  /\ UNCHANGED <<asks, fins, srv, got, origin>>

\* The connection closes: pending requests reject, then onClose runs.
Drop ==
  /\ c.up /\ Spend("drop")
  /\ c' = LET d == [c EXCEPT !.up = FALSE, !.cancels = {},
                             !.queues = [s \in Streams |-> IF c.queues[s].flight THEN [c.queues[s] EXCEPT !.err = "closed"] ELSE c.queues[s]],
                             !.loops = {IF l.pc \in {"start", "started"} THEN [l EXCEPT !.pc = "wait", !.sid = 0] ELSE l : l \in c.loops}]
          IN ClosedDuringInput(d)
  /\ srv' = [s \in Streams |-> IF srv[s] = "none" THEN "none" ELSE "gone"]
  /\ fins' = {IF f.pc \in {"finish", "ok"} THEN [f EXCEPT !.pc = "bad"] ELSE f : f \in fins}
  /\ UNCHANGED <<asks, got, origin>>
Reconnected ==
  /\ ~ c.up /\ c' = [c EXCEPT !.up = TRUE]
  /\ UNCHANGED <<asks, fins, srv, got, origin, used>>
-----------------------------------------------------------------------------
Micro == (\E s \in Streams : Rejecting(c, s)) \/ (\E f \in fins : Drained(f) \/ f.pc = "bad")
MicroStep == (\E s \in Streams : ChunkRejects(s)) \/ (\E f \in fins : AfterDrain(f) \/ FinishFails(f))

UserStep ==
  \/ startVoiceInput \/ (\E t \in BOOLEAN : finishVoiceInput(t)) \/ cancelVoiceInputByGesture \/ (\E ch \in Chats : SelectChat(ch))
Environment ==
  \/ MicEnded \/ Drop \/ (\E s \in Streams, r \in BOOLEAN : SpeechError(s, r)) \/ (\E l \in c.loops : StartRefused(l)) \/ (\E g \in asks : Denied(g)) \/ onChunk
Progress ==
  \/ (\E g \in asks : Granted(g)) \/ MicReady \/ FinalTimeout \/ Reconnected
  \/ (\E l \in c.loops : LoopTop(l) \/ ConnectReturns(l) \/ Waited(l) \/ ServerStarts(l) \/ StartReply(l))
  \/ (\E s \in Streams : ServerChunk(s) \/ CancelHandled(s) \/ StreamExpires(s) \/ Transcript(s, TRUE) \/ Transcript(s, FALSE))
  \/ (\E f \in fins : StreamReady(f) \/ NotReady(f) \/ ServerFinish(f) \/ FinishReply(f))
Next == MicroStep \/ (~ Micro /\ (UserStep \/ Environment \/ Progress))
Spec == Init /\ [][Next]_vars
-----------------------------------------------------------------------------
Increasing(q) == \A i, j \in DOMAIN q : i < j => q[i] < q[j]

TypeOK ==
  /\ c.gen \in Nat /\ {c.rec, c.await, c.pend, c.req, c.up, c.ready} \subseteq BOOLEAN
  /\ c.stream \in Streams \union {0} /\ c.q \in Streams \union {0} /\ c.key \in Chats \union {NoChat} /\ c.cur \in Chats
  /\ Len(c.buf) <= MaxBuffer /\ c.text \in [Chats -> SUBSET Streams] /\ c.cancels \subseteq Streams
  /\ \A l \in c.loops : l.pc \in {"top", "connect", "wait", "start", "started"} /\ l.sid \in Streams \union {0}
  /\ \A f \in fins : f.pc \in {"ready", "drain", "finish", "ok", "bad"}
  /\ srv \in [Streams -> {"none", "active", "closing", "gone"}] /\ origin \in [Streams -> Chats \union {NoChat}]

\* A microphone that is capturing is the one voiceCaptureRef can stop and
\* belongs to the recording that is going on: no late permission answer, no
\* error and no disconnect leaves one running.
MicOwned == \A g \in c.mics : g = c.mic /\ g = c.gen /\ c.rec

\* Audio reaches the provider in the order it was captured, each chunk at
\* most once, across buffering, reconnecting and replaced streams.
AudioInOrder ==
  /\ \A s \in Streams : Increasing(got[s])
  /\ \A s, t \in Streams : s # t => {got[s][i] : i \in DOMAIN got[s]} \intersect {got[t][i] : i \in DOMAIN got[t]} = {}

\* The stream that is being recognised received everything that was
\* captured for it, the buffered beginning and the flushed tail included.
FinishedComplete == \A s \in Streams : srv[s] = "closing" /\ c.stream = s => got[s] = c.heard

\* Every stream the registry holds open is the client's current one or is
\* about to be adopted, cancelled or replaced.
StreamsAccounted ==
  \A s \in Streams : srv[s] = "active" =>
    s = c.stream \/ s \in c.cancels \/ (\E l \in c.loops : l.sid = s /\ l.pc = "started")

\* Recognised text only appears in the composer of the chat it was spoken for.
\* Not kept by the code: see the README.
TextStaysInChat == \A ch \in Chats : \A s \in c.text[ch] : origin[s] = ch

\* Recognised text leaves a composer only when the user cancels the input.
\* Not kept by the code: see the README.
TextKept == [][\A ch \in Chats : c.text[ch] \subseteq c'.text[ch] \/ cancelVoiceInputByGesture]_vars

\* While the user records, a closed connection does not end the input.
\* Not kept by the code: see the README.
SurvivesClose == [][(\E s \in Streams : ChunkRejects(s) /\ c.queues[s].err \in {"closed", "cancelled"} /\ c.rec /\ ~ c.pend) => c'.rec]_vars

Fairness == WF_vars(MicroStep) /\ WF_vars(~ Micro /\ Progress)
  /\ \A i \in 1..MaxFinishes : WF_vars((~ Micro /\ \E f \in fins : f.id = i /\ (StreamReady(f) \/ NotReady(f) \/ ServerFinish(f) \/ FinishReply(f))))
  /\ WF_vars(~ Micro /\ FinalTimeout) /\ \A s \in Streams : WF_vars(~ Micro /\ ServerChunk(s))
FairSpec == Spec /\ Fairness
\* A finished input ends: recognised, timed out or given up.
FinishingEnds == c.pend ~> ~ c.pend
\* Recognizing ends with the final transcript or after 15 s.
\* Not kept by the code: see the README.
RecognizingEnds == c.await ~> ~ c.await
=============================================================================
