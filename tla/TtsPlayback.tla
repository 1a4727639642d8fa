---------------------------- MODULE TtsPlayback ----------------------------
(***************************************************************************)
(* Reading an answer aloud: the text is cut into segments, each segment is *)
(* synthesised by the server, and one player plays them in order while the *)
(* next one is fetched.  A generation number tells a session that was      *)
(* stopped from the current one.                                           *)
(***************************************************************************)
EXTENDS Naturals, Sequences, SequencesExt, TLAPS

CONSTANTS Turns, NoTurn,
          Texts,    \* the answers, each as the lengths of its paragraphs
          MaxChars, \* MAX_SEGMENT_CHARS
          MaxGen,   \* bound on stops
          Bad       \* whether the server may answer with audio that does not decode
TtsConstants == NoTurn \notin Turns /\ Texts \subseteq Seq(Nat \ {0}) /\ {MaxChars, MaxGen} \subseteq Nat /\ Bad \in BOOLEAN

VARIABLES gen, state, active,
          segs,     \* segments of the session, each a sequence of paragraphs
          pc, idx,  \* where its loop is: "none", "fetch", "audio", "dead"
          pre,      \* prefetched: segments of which a URL is kept
          pend,     \* pendingFetches: "none", "sent", "null", "throws"
          net,      \* synthesis requests on their way, by generation and segment
          urls,     \* blob URLs that are not revoked
          audio,    \* the audio element the player knows
          sounding, \* audio elements that play or are about to
          aborted,  \* elements that were paused before they began, whose play() will reject
          stray,    \* elements that sound and that the player has lost
          heard     \* segments that were played to their end in this session
vars == <<gen, state, active, segs, pc, idx, pre, pend, net, urls, audio, sounding, aborted, stray, heard>>

Silence == <<0, 0>>
Indices == 1..Len(segs)
None == [i \in {} |-> "none"]
Init ==
  /\ gen = 0 /\ state = "idle" /\ active = NoTurn /\ segs = <<>> /\ pc = "none" /\ idx = 0 /\ pre = {} /\ pend = None
  /\ net = {} /\ urls = {} /\ audio = Silence /\ sounding = {} /\ aborted = {} /\ stray = {} /\ heard = <<>>
-----------------------------------------------------------------------------
\* The characters of paragraphs that are joined by an empty line.
Chars(ps) == FoldLeft(LAMBDA n, p : n + p, 0, ps) + 2 * (Len(ps) - 1)
segmentText(ps) ==
  LET Put(acc, p) == IF acc.cur # <<>> /\ Chars(acc.cur) + p + 2 > MaxChars THEN [out |-> Append(acc.out, acc.cur), cur |-> <<p>>] ELSE [acc EXCEPT !.cur = Append(@, p)]
      all == FoldLeft(Put, [out |-> <<>>, cur |-> <<>>], ps)
  IN IF all.cur = <<>> THEN all.out ELSE Append(all.out, all.cur)
-----------------------------------------------------------------------------
\* cleanup: an element that had not begun to play rejects its play() later.
cleanup ==
  /\ urls' = {} /\ audio' = Silence /\ sounding' = sounding \ {audio} /\ stray' = stray
  /\ aborted' \in {aborted, aborted \union ({audio} \ {Silence})}
\* setState and its listener in the page.
setState(s) == state' = s /\ active' = IF s = "idle" /\ state # "idle" THEN NoTurn ELSE active
stop == gen' = gen + 1 /\ cleanup /\ setState("idle") /\ pre' = {} /\ pend' = None /\ pc' = "none" /\ idx' = 0 /\ segs' = <<>> /\ heard' = <<>> /\ UNCHANGED net
\* prefetchSegment: what is there or under way is not asked for again.
prefetchSegment(i, p) == i \in Indices /\ i \notin pre /\ p[i] = "none"
Fetching(i, p) == IF prefetchSegment(i, p) THEN pend' = [p EXCEPT ![i] = "sent"] /\ net' = net \union {<<gen, i>>} ELSE pend' = p /\ UNCHANGED net
\* A click on the turn that plays stops; any other stops what is under way and
\* starts, unless there is nothing to read or no key, in the same task.
readAloudPromptDone(t) ==
  /\ gen + 2 <= MaxGen
  /\ \/ state # "idle" /\ stop
     \/ /\ state # "playing" \/ active # t
        /\ \E text \in Texts : segs' = segmentText(text)
        /\ segs' # <<>> /\ cleanup /\ active' = t /\ gen' = gen + (IF state = "idle" THEN 1 ELSE 2) /\ state' = "loading" /\ pc' = "fetch" /\ idx' = 1 /\ heard' = <<>> /\ pre' = {}
        /\ pend' = [i \in 1..Len(segs') |-> IF i = 1 THEN "sent" ELSE "none"] /\ net' = net \union {<<gen', 1>>}
AnyGeneration(g) == TRUE
CurrentGeneration(g) == g = gen
\* The answer of the server, or a failure.  One that is of another session is
\* dropped.
Synthesized(g, i, r) ==
  /\ <<g, i>> \in net /\ net' = net \ {<<g, i>>} /\ r \in {"ok", "null"} \union (IF Bad THEN {"throws"} ELSE {})
  /\ IF CurrentGeneration(g) /\ i \in DOMAIN pend
     THEN IF r = "ok" THEN pre' = pre \union {i} /\ urls' = urls \union {<<g, i>>} /\ pend' = [pend EXCEPT ![i] = "none"] ELSE pend' = [pend EXCEPT ![i] = r] /\ UNCHANGED <<pre, urls>>
     ELSE UNCHANGED <<pre, urls, pend>>
  /\ UNCHANGED <<gen, state, active, segs, pc, idx, audio, sounding, aborted, stray, heard>>
\* All segments are through.
Finished == cleanup /\ setState("idle") /\ pre' = {} /\ pend' = None /\ pc' = "none" /\ idx' = 0 /\ segs' = <<>> /\ UNCHANGED <<gen, net, heard>>
NextSegment == IF idx + 1 \in Indices THEN idx' = idx + 1 /\ pc' = "fetch" /\ Fetching(idx + 1, pend) /\ UNCHANGED <<gen, state, active, segs, pre, urls>> ELSE FALSE
\* The loop goes on when its fetch has an outcome: it plays and fetches the
\* one after, skips what failed, and ends with what cannot be decoded.
Play ==
  /\ pc = "fetch" /\ idx \in pre /\ pc' = "audio" /\ audio' = <<gen, idx>> /\ sounding' = sounding \union {<<gen, idx>>} /\ Fetching(idx + 1, pend)
  /\ UNCHANGED <<gen, state, active, segs, idx, pre, urls, aborted, stray, heard>>
Skip ==
  /\ pc = "fetch" /\ pend[idx] = "null" /\ UNCHANGED heard
  /\ \/ NextSegment /\ UNCHANGED <<audio, sounding, aborted, stray>>
     \/ idx = Len(segs) /\ Finished
Throw == pc = "fetch" /\ pend[idx] = "throws" /\ pc' = "dead" /\ UNCHANGED <<gen, state, active, segs, idx, pre, pend, net, urls, audio, sounding, aborted, stray, heard>>
\* onplaying
Playing == pc = "audio" /\ state # "playing" /\ setState("playing") /\ UNCHANGED <<gen, segs, pc, idx, pre, pend, net, urls, audio, sounding, aborted, stray, heard>>
\* done: the element ended, failed, or could not be started.
done ==
  /\ pc = "audio" /\ aborted' = aborted /\ stray' = stray \ {<<gen, idx>>}
  /\ \/ NextSegment /\ audio' = Silence /\ sounding' = sounding \ {<<gen, idx>>} /\ heard' = Append(heard, idx)
     \/ /\ idx = Len(segs) /\ sounding' = sounding \ {<<gen, idx>>} /\ heard' = Append(heard, idx) /\ urls' = {} /\ audio' = Silence /\ setState("idle") /\ pre' = {} /\ pend' = None
        /\ pc' = "none" /\ idx' = 0 /\ segs' = <<>> /\ UNCHANGED <<gen, net>>
\* done of an element of an earlier session: the player forgets the element
\* it has now, which goes on and can no longer be paused.  It runs when play()
\* of an element that was stopped rejects, and when a lost element ends.
ForgetAudio == audio' = Silence /\ stray' = (stray \union (sounding \intersect {audio})) \ (sounding \ sounding')
Aborted(a) ==
  /\ a \in aborted /\ aborted' = aborted \ {a} /\ sounding' = sounding /\ ForgetAudio
  /\ UNCHANGED <<gen, state, active, segs, pc, idx, pre, pend, net, urls, heard>>
StrayEnds(a) ==
  /\ a \in stray /\ (pc # "audio" \/ a # <<gen, idx>>) /\ sounding' = sounding \ {a} /\ ForgetAudio
  /\ UNCHANGED <<gen, state, active, segs, pc, idx, pre, pend, net, urls, aborted, heard>>
-----------------------------------------------------------------------------
Answer == \E n \in net : \E r \in {"ok", "null", "throws"} : Synthesized(n[1], n[2], r)
Next ==
  \/ (\E t \in Turns : readAloudPromptDone(t)) \/ Answer \/ Play \/ Skip \/ Throw \/ Playing \/ done
  \/ (\E a \in aborted : Aborted(a)) \/ (\E a \in stray : StrayEnds(a))
Spec == Init /\ [][Next]_vars
\* Requests are answered, tasks run, and audio comes to its end.
Fairness == WF_vars(Answer) /\ WF_vars(Play) /\ WF_vars(Skip) /\ WF_vars(Throw) /\ WF_vars(done) /\ WF_vars(\E a \in aborted : Aborted(a))
FairSpec == Spec /\ Fairness
-----------------------------------------------------------------------------
TypeOK ==
  /\ gen \in 0..MaxGen /\ state \in {"idle", "loading", "playing"} /\ active \in Turns \union {NoTurn} /\ pc \in {"none", "fetch", "audio", "dead"}
  /\ DOMAIN pend = Indices /\ pre \subseteq Indices /\ (pc = "none" => idx = 0) /\ (pc # "none" => idx \in Indices)

\* One element sounds at a time, and it is the one a stop would pause, except
\* for elements that a late rejection of play() has made the player forget.
OneAudio == sounding \ stray \subseteq {audio}

\* What is kept for a segment was synthesised for it in this session, and
\* what sounds and is known has not been revoked.
UrlsAreCurrent == urls = {<<gen, i>> : i \in pre} /\ sounding \ stray \subseteq urls

\* A turn is marked exactly while its text is being fetched or played.
MarkedWhileBusy == (active # NoTurn) = (state # "idle")

\* The segments of a session are played in order, each at most once.
InOrder == \A i, j \in 1..Len(heard) : i < j => heard[i] < heard[j]

\* Segments hold the paragraphs in order, and are as long as they may be.
SegmentsFit ==
  /\ segs # <<>> => FlattenSeq(segs) \in Texts
  /\ \A i \in Indices : segs[i] # <<>> /\ (Len(segs[i]) > 1 => Chars(segs[i]) <= MaxChars)
  /\ \A i \in 1..(Len(segs) - 1) : Chars(Append(segs[i], Head(segs[i + 1]))) > MaxChars

\* A session comes to an end.
PlaybackEnds == (state # "idle") ~> (state = "idle")
-----------------------------------------------------------------------------
(* Proofs, for any answers and any number of segments, stops and clicks. *)

\* What sounds is the element of the current segment or was lost; an element
\* that sounds and was not lost is known to the player, and its URL is kept.
PlayerInv ==
  /\ gen \in Nat /\ idx \in Nat /\ heard \in Seq(Nat)
  /\ pc \in {"none", "fetch", "audio", "dead"} /\ (pc = "audio" => idx \in pre)
  /\ sounding \subseteq {audio} \union stray /\ (pc = "audio" => sounding \subseteq {<<gen, idx>>} \union stray) /\ (pc # "audio" => sounding \subseteq stray)
  /\ urls = {<<gen, i>> : i \in pre} /\ sounding \ stray \subseteq urls
  /\ (active # NoTurn) = (state # "idle") /\ (pc # "none" => state # "idle")
  /\ (pc \in {"fetch", "audio"} => \A i \in 1..Len(heard) : heard[i] < idx)
  /\ InOrder

\* A session begins and ends with no URL, and only what was lost sounds.
LEMMA CleanedUp ==
  ASSUME PlayerInv, cleanup
  PROVE  urls' = {} /\ sounding' \subseteq stray'
<1>1. urls' = {} /\ sounding' = sounding \ {audio} /\ stray' = stray
  BY DEF cleanup
<1>2. sounding \subseteq {audio} \union stray
  BY DEF PlayerInv
<1> QED BY <1>1, <1>2

\* A session that has just been started or ended has heard nothing.
LEMMA NothingHeard ==
  ASSUME heard' = <<>>
  PROVE  /\ heard' \in Seq(Nat) /\ InOrder'
         /\ \A i \in 1..Len(heard') : heard'[i] < idx'
BY DEF InOrder

\* No end of a session leaves a turn marked.
LEMMA SetToIdle ==
  ASSUME PlayerInv, setState("idle")
  PROVE  (active' # NoTurn) = (state' # "idle")
<1>1. state' = "idle" /\ active' = (IF state # "idle" THEN NoTurn ELSE active)
  BY DEF setState
<1>2. state = "idle" => active = NoTurn
  BY DEF PlayerInv
<1> QED BY <1>1, <1>2

\* A session that ended leaves no part of it behind.
LEMMA EndedSession ==
  ASSUME PlayerInv, gen' \in Nat, urls' = {}, sounding' \subseteq stray', setState("idle"), pre' = {}, pc' = "none", idx' = 0,
         heard' \in Seq(Nat), InOrder'
  PROVE  PlayerInv'
<1>1. (active' # NoTurn) = (state' # "idle")
  BY SetToIdle
<1>2. urls' = {<<gen', i>> : i \in pre'}
  OBVIOUS
<1> QED BY <1>1, <1>2 DEF PlayerInv

\* Playing a segment to its end keeps the order.
LEMMA HeardOneMore ==
  ASSUME PlayerInv, pc = "audio", heard' = Append(heard, idx)
  PROVE  /\ heard' \in Seq(Nat) /\ InOrder'
         /\ \A i \in 1..Len(heard') : heard'[i] < idx + 1
<1>1. heard \in Seq(Nat) /\ idx \in Nat /\ \A i \in 1..Len(heard) : heard[i] < idx
  BY DEF PlayerInv
<1>2. Len(heard) \in Nat /\ Len(heard') = Len(heard) + 1 /\ heard' \in Seq(Nat)
  BY <1>1
<1>3. \A i \in 1..Len(heard') : heard'[i] \in Nat /\ heard'[i] = (IF i = Len(heard) + 1 THEN idx ELSE heard[i])
  BY <1>1, <1>2
<1>4. \A i \in 1..Len(heard') : heard'[i] < idx + 1
  BY <1>1, <1>2, <1>3
<1>5. ASSUME NEW i \in 1..Len(heard'), NEW j \in 1..Len(heard'), i < j
      PROVE  heard'[i] < heard'[j]
  <2>1. i \in 1..Len(heard) /\ heard'[i] = heard[i]
    BY <1>2, <1>3, <1>5
  <2>2. CASE j = Len(heard) + 1
    BY <1>1, <1>3, <2>1, <2>2
  <2>3. CASE j # Len(heard) + 1
    <3>1. j \in 1..Len(heard) /\ heard'[j] = heard[j]
      BY <1>2, <1>3, <2>3
    <3>2. heard[i] < heard[j]
      BY <1>5, <2>1, <3>1 DEF PlayerInv, InOrder
    <3> QED BY <2>1, <3>1, <3>2
  <2> QED BY <2>2, <2>3
<1> QED BY <1>2, <1>4, <1>5 DEF InOrder

\* Nothing is fetched or played at first.
LEMMA PlayerInit ==
  Init => PlayerInv
<1> SUFFICES ASSUME Init PROVE PlayerInv
  OBVIOUS
<1>1. heard \in Seq(Nat) /\ InOrder /\ \A i \in 1..Len(heard) : heard[i] < idx
  BY DEF Init, InOrder
<1>2. urls = {<<gen, i>> : i \in pre}
  BY DEF Init
<1> QED BY <1>1, <1>2 DEF Init, PlayerInv

\* A click that stops what is under way.
LEMMA StopStep ==
  ASSUME PlayerInv, stop
  PROVE  PlayerInv'
<1>1. /\ gen' = gen + 1 /\ setState("idle") /\ pre' = {} /\ pc' = "none" /\ idx' = 0 /\ heard' = <<>>
      /\ cleanup
  BY DEF stop
<1>2. gen' \in Nat
  BY <1>1 DEF PlayerInv
<1> QED BY <1>1, <1>2, CleanedUp, NothingHeard, EndedSession

\* A click that starts, in place of what is under way.
LEMMA StartStep ==
  ASSUME PlayerInv, NoTurn \notin Turns, NEW t \in Turns, readAloudPromptDone(t), ~ stop
  PROVE  PlayerInv'
<1>1. /\ cleanup /\ active' = t /\ gen' = gen + (IF state = "idle" THEN 1 ELSE 2) /\ state' = "loading"
      /\ pc' = "fetch" /\ idx' = 1 /\ heard' = <<>> /\ pre' = {}
  BY DEF readAloudPromptDone
<1>2. gen' \in Nat /\ urls' = {} /\ sounding' \subseteq stray'
  BY <1>1, CleanedUp DEF PlayerInv
<1>3. urls' = {<<gen', i>> : i \in pre'}
  BY <1>1, <1>2
<1>4. (active' # NoTurn) = (state' # "idle")
  BY <1>1
<1> QED BY <1>1, <1>2, <1>3, <1>4, NothingHeard DEF PlayerInv

\* An answer of the server: one that is kept is of this session.
LEMMA SynthesizedStep ==
  ASSUME PlayerInv, NEW g, NEW i, NEW r, Synthesized(g, i, r)
  PROVE  PlayerInv'
<1>1. /\ gen' = gen /\ state' = state /\ active' = active /\ pc' = pc /\ idx' = idx /\ audio' = audio
      /\ sounding' = sounding /\ stray' = stray /\ heard' = heard
  BY DEF Synthesized
<1>2. \/ pre' = pre /\ urls' = urls
      \/ g = gen /\ pre' = pre \union {i} /\ urls' = urls \union {<<g, i>>}
  BY DEF Synthesized, CurrentGeneration
<1>3. urls' = {<<gen', j>> : j \in pre'} /\ urls \subseteq urls' /\ pre \subseteq pre'
  BY <1>1, <1>2 DEF PlayerInv
<1> QED BY <1>1, <1>3 DEF PlayerInv, InOrder

\* The next segment is played when its URL is there.
LEMMA PlayStep ==
  ASSUME PlayerInv, Play
  PROVE  PlayerInv'
<1>1. /\ pc = "fetch" /\ idx \in pre /\ pc' = "audio" /\ audio' = <<gen, idx>> /\ sounding' = sounding \union {<<gen, idx>>}
      /\ gen' = gen /\ state' = state /\ active' = active /\ idx' = idx /\ pre' = pre /\ urls' = urls /\ stray' = stray
      /\ heard' = heard
  BY DEF Play
<1>2. sounding' \subseteq {<<gen, idx>>} \union stray /\ <<gen, idx>> \in urls
  BY <1>1 DEF PlayerInv
<1> QED BY <1>1, <1>2 DEF PlayerInv, InOrder

\* A segment that could not be fetched is passed over.
LEMMA SkipStep ==
  ASSUME PlayerInv, Skip
  PROVE  PlayerInv'
<1>1. pc = "fetch" /\ heard' = heard
  BY DEF Skip
<1>2. CASE NextSegment /\ UNCHANGED <<audio, sounding, aborted, stray>>
  <2>1. /\ idx' = idx + 1 /\ pc' = "fetch" /\ gen' = gen /\ state' = state /\ active' = active /\ pre' = pre /\ urls' = urls
        /\ audio' = audio /\ sounding' = sounding /\ stray' = stray
    BY <1>2 DEF NextSegment
  <2>2. \A i \in 1..Len(heard) : heard[i] \in Nat /\ heard[i] < idx + 1
    BY <1>1 DEF PlayerInv
  <2> QED BY <1>1, <2>1, <2>2 DEF PlayerInv, InOrder
<1>3. CASE idx = Len(segs) /\ Finished
  <2>1. /\ cleanup /\ setState("idle") /\ pre' = {} /\ pc' = "none" /\ idx' = 0 /\ gen' = gen
    BY <1>3 DEF Finished
  <2>2. gen' \in Nat /\ heard' \in Seq(Nat) /\ InOrder'
    BY <1>1, <2>1 DEF PlayerInv, InOrder
  <2> QED BY <2>1, <2>2, CleanedUp, EndedSession
<1> QED BY <1>2, <1>3 DEF Skip

\* An element ended, failed or could not be started.
LEMMA DoneStep ==
  ASSUME PlayerInv, done
  PROVE  PlayerInv'
<1>1. /\ pc = "audio" /\ stray' = stray \ {<<gen, idx>>} /\ sounding' = sounding \ {<<gen, idx>>} /\ heard' = Append(heard, idx)
      /\ audio' = Silence
  BY DEF done
<1>2. sounding' \subseteq stray'
  <2>1. sounding \subseteq {<<gen, idx>>} \union stray
    BY <1>1 DEF PlayerInv
  <2> QED BY <1>1, <2>1
<1>3. CASE NextSegment
  <2>1. /\ idx' = idx + 1 /\ pc' = "fetch" /\ gen' = gen /\ state' = state /\ active' = active /\ pre' = pre /\ urls' = urls
    BY <1>3 DEF NextSegment
  <2> QED BY <1>1, <1>2, <2>1, HeardOneMore DEF PlayerInv
<1>4. CASE ~ NextSegment
  <2>1. /\ urls' = {} /\ setState("idle") /\ pre' = {} /\ pc' = "none" /\ idx' = 0 /\ gen' = gen
    BY <1>4 DEF done
  <2>2. gen' \in Nat
    BY <2>1 DEF PlayerInv
  <2> QED BY <1>1, <1>2, <2>1, <2>2, HeardOneMore, EndedSession
<1> QED BY <1>3, <1>4

\* The steps that change nothing but where the player is.
LEMMA OtherStep ==
  ASSUME PlayerInv, Throw \/ Playing \/ (\E a \in aborted : Aborted(a)) \/ (\E a \in stray : StrayEnds(a))
  PROVE  PlayerInv'
<1>1. CASE Throw
  BY <1>1 DEF Throw, PlayerInv, InOrder
<1>2. CASE Playing
  <2>1. /\ pc = "audio" /\ state' = "playing" /\ active' = active /\ pc' = pc /\ gen' = gen /\ idx' = idx /\ pre' = pre
        /\ urls' = urls /\ audio' = audio /\ sounding' = sounding /\ stray' = stray /\ heard' = heard
    BY <1>2 DEF Playing, setState
  <2>2. (active' # NoTurn) = (state' # "idle")
    BY <2>1 DEF PlayerInv
  <2> QED BY <2>1, <2>2 DEF PlayerInv, InOrder
<1>3. CASE (\E a \in aborted : Aborted(a)) \/ (\E a \in stray : StrayEnds(a))
  <2>1. /\ audio' = Silence /\ state' = state /\ active' = active /\ pc' = pc /\ gen' = gen
        /\ idx' = idx /\ pre' = pre /\ urls' = urls /\ heard' = heard
        /\ sounding' \subseteq sounding /\ stray' = (stray \union (sounding \intersect {audio})) \ (sounding \ sounding')
    BY <1>3 DEF Aborted, StrayEnds, ForgetAudio
  <2>2. sounding' \subseteq stray'
    BY <2>1 DEF PlayerInv
  <2> QED BY <2>1, <2>2 DEF PlayerInv, InOrder
<1> QED BY <1>1, <1>2, <1>3

\* The invariant of the player, for every value of the constants.
THEOREM PlayerInvariance ==
  ASSUME TtsConstants
  PROVE  Spec => []PlayerInv
<1>1. ASSUME PlayerInv, [Next]_vars
      PROVE  PlayerInv'
  <2>1. CASE UNCHANGED vars
    BY <1>1, <2>1 DEF vars, PlayerInv, InOrder
  <2>2. CASE \E t \in Turns : readAloudPromptDone(t)
    BY <1>1, <2>2, StopStep, StartStep DEF TtsConstants
  <2>3. CASE Answer
    BY <1>1, <2>3, SynthesizedStep DEF Answer
  <2> QED BY <1>1, <2>1, <2>2, <2>3, PlayStep, SkipStep, DoneStep, OtherStep DEF Next
<1> QED BY <1>1, PlayerInit, PTL DEF Spec

\* However starts, stops, answers and rejected play() calls are ordered, one
\* element that the player has not lost sounds at a time, and it is the one
\* that a stop pauses: a second one sounds only after a late rejection.
THEOREM OneAudioAlways ==
  ASSUME TtsConstants
  PROVE  Spec => []OneAudio
<1>1. PlayerInv => OneAudio
  BY DEF PlayerInv, OneAudio
<1> QED BY <1>1, PlayerInvariance, PTL

\* What is kept for a segment is of this session and this segment, and a URL is
\* not revoked while the element the player knows sounds.
THEOREM UrlsAreCurrentAlways ==
  ASSUME TtsConstants
  PROVE  Spec => []UrlsAreCurrent
<1>1. PlayerInv => UrlsAreCurrent
  BY DEF PlayerInv, UrlsAreCurrent
<1> QED BY <1>1, PlayerInvariance, PTL

\* A turn is marked exactly while the player is not idle.
THEOREM MarkedWhileBusyAlways ==
  ASSUME TtsConstants
  PROVE  Spec => []MarkedWhileBusy
<1>1. PlayerInv => MarkedWhileBusy
  BY DEF PlayerInv, MarkedWhileBusy
<1> QED BY <1>1, PlayerInvariance, PTL

\* Whatever is skipped, no segment is played after a later one or twice.
THEOREM InOrderAlways ==
  ASSUME TtsConstants
  PROVE  Spec => []InOrder
<1>1. PlayerInv => InOrder
  BY DEF PlayerInv
<1> QED BY <1>1, PlayerInvariance, PTL
=============================================================================
