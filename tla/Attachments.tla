---------------------------- MODULE Attachments ----------------------------
(***************************************************************************)
(* Files attached to a prompt: the tiles of each session's draft, the      *)
(* upload that a send makes of them one after the other, and the hub's     *)
(* attachment manager with its part files, artifacts and sidecars.         *)
(* An artifact is named by its content, so that the same file attached     *)
(* twice is one artifact.  A call and its answer are one step; everything  *)
(* else happens between the calls of an upload.  The cancel button of an   *)
(* uploading tile is disabled, so a client cancels only after a failure.   *)
(***************************************************************************)
EXTENDS Naturals, Sequences, SequencesExt, FiniteSets

CONSTANTS Sessions, Contents,
          Uploads,  \* ids for uploads; one is used again when its part file is gone
          MaxTiles, \* bound on the files that are attached
          Twice,    \* the user may attach the same content again
          MaxFaults \* bound on failed calls and hub restarts
AttachmentsConstants == {MaxTiles, MaxFaults} \subseteq Nat /\ Twice \in BOOLEAN

VARIABLES sel,     \* the selected session
          draft,   \* tiles of each session's draft
          send,    \* the send of each session that is under way
          pending, \* blocks of the undelivered prompt of each session
          uploads, parts, \* hub: upload records in memory, and part files
          store,   \* hub: sidecar of each content of a session: none, kept or sent
          posts,   \* cancel and delete calls nobody waits for
          hist,    \* contents in delivered prompts
          removed, \* ids of tiles the user removed
          prompt,  \* the last delivered prompt
          tiles, faults
web == <<sel, draft, send, pending, removed, tiles>>
hub == <<uploads, parts, store, hist, prompt>>
vars == <<web, hub, posts, faults>>

Idle == [at |-> "idle", list |-> <<>>, i |-> 1, live |-> FALSE, u |-> 0]
Init ==
  /\ sel \in Sessions /\ draft = [s \in Sessions |-> <<>>] /\ send = [s \in Sessions |-> Idle] /\ pending = [s \in Sessions |-> <<>>]
  /\ uploads = {} /\ parts = {} /\ store = [s \in Sessions |-> [c \in Contents |-> "none"]]
  /\ posts = {} /\ hist = [s \in Sessions |-> {}] /\ removed = {} /\ prompt = [s |-> sel, list |-> <<>>, gone |-> {}] /\ tiles = 0 /\ faults = 0
-----------------------------------------------------------------------------
Set(ts, id, st) == [i \in DOMAIN ts |-> IF ts[i].id = id THEN [ts[i] EXCEPT !.status = st] ELSE ts[i]]
\* updateChatAttachment: in the draft the upload was started for, unless that
\* draft was emptied or replaced since.
InShownDraft(s, id, st) == IF send[s].live THEN [draft EXCEPT ![sel] = [i \in DOMAIN @ |-> IF @[i].id = id THEN [@[i] EXCEPT !.status = st] ELSE @[i]]] ELSE draft
updateChatAttachment(s, id, st) == IF send[s].live THEN [draft EXCEPT ![s] = Set(@, id, st)] ELSE draft
Submitting(s) == send[s].at # "idle"
Fault == faults < MaxFaults /\ faults' = faults + 1
Fine == UNCHANGED faults

\* Picker, paste and drop.
enqueueChatAttachmentFiles(c) ==
  /\ ~ Submitting(sel) /\ tiles < MaxTiles
  /\ Twice \/ (\A s \in Sessions : store[s][c] = "none" /\ \A i \in DOMAIN draft[s] : draft[s][i].c # c)
  /\ tiles' = tiles + 1 /\ draft' = [draft EXCEPT ![sel] = Append(@, [id |-> tiles + 1, c |-> c, status |-> "queued", file |-> TRUE])]
  /\ UNCHANGED <<sel, send, pending, removed, hub, posts>> /\ Fine
\* The button is off while this very tile uploads.
removeChatAttachment(i) ==
  /\ i \in DOMAIN draft[sel] /\ draft[sel][i].status # "uploading"
  /\ draft' = [draft EXCEPT ![sel] = RemoveAt(@, i)] /\ removed' = removed \cup {draft[sel][i].id}
  /\ posts' = IF draft[sel][i].status = "completed" THEN posts \cup {[kind |-> "delete", s |-> sel, c |-> draft[sel][i].c, u |-> 0]} ELSE posts
  /\ UNCHANGED <<sel, send, pending, tiles, hub>> /\ Fine
retryChatAttachment(i) ==
  /\ i \in DOMAIN draft[sel] /\ draft[sel][i].status = "failed" /\ draft[sel][i].file
  /\ draft' = [draft EXCEPT ![sel][i].status = "queued"] /\ UNCHANGED <<sel, send, pending, removed, tiles, hub, posts>> /\ Fine
SelectSession(s) == s # sel /\ sel' = s /\ UNCHANGED <<draft, send, pending, removed, tiles, hub, posts>> /\ Fine
\* The undelivered prompt goes back into the composer; the generation goes up.
editPendingChatPrompt ==
  /\ pending[sel] # <<>> /\ send[sel].at \notin {"post", "mark"} /\ tiles + Len(pending[sel]) <= MaxTiles /\ tiles' = tiles + Len(pending[sel])
  /\ draft' = [draft EXCEPT ![sel] = [i \in DOMAIN pending[sel] |-> [id |-> tiles + i, c |-> pending[sel][i].c, status |-> "completed", file |-> FALSE]]]
  /\ send' = [send EXCEPT ![sel].live = FALSE] /\ pending' = [pending EXCEPT ![sel] = <<>>]
  /\ UNCHANGED <<sel, removed, hub, posts>> /\ Fine
-----------------------------------------------------------------------------
\* The hub.  A part file goes when its upload ends, or with the first call
\* after three minutes without one.
Expired == {u \in uploads : u.idle}
Alive == uploads \ Expired
PartsAfter(ups) == parts \ {u.id : u \in uploads \ ups}
Upload(s) == {u \in Alive : u.id = send[s].u /\ u.s = s}
BecomesIdle(u) == ~ u.idle /\ uploads' = (uploads \ {u}) \cup {[u EXCEPT !.idle = TRUE]} /\ UNCHANGED <<web, parts, store, hist, prompt, posts>> /\ Fine
\* The records are lost, the part files stay.
HubRestart == uploads # {} /\ uploads' = {} /\ UNCHANGED <<web, parts, store, hist, prompt, posts>> /\ Fault
PostCancel(p) == uploads' = {u \in Alive : u.id # p.u} /\ parts' = PartsAfter(uploads') /\ UNCHANGED store
deleteAttachment(p) ==
  /\ UNCHANGED <<uploads, parts>>
  /\ IF store[p.s][p.c] = "kept" THEN store' = [store EXCEPT ![p.s][p.c] = "none"] ELSE UNCHANGED store
ServePost(p) == (IF p.kind = "cancel" THEN PostCancel(p) ELSE deleteAttachment(p)) /\ posts' = posts \ {p} /\ UNCHANGED <<web, hist, prompt>> /\ Fine
LosePost(p) == posts' = posts \ {p} /\ UNCHANGED <<web, hub>> /\ Fault
-----------------------------------------------------------------------------
\* sendChatMessage with the tiles of that moment; the button is off while one
\* of them uploads.
sendChatMessage ==
  /\ ~ Submitting(sel) /\ draft[sel] # <<>> /\ \A i \in DOMAIN draft[sel] : draft[sel][i].status # "uploading"
  /\ send' = [send EXCEPT ![sel] = [at |-> "next", list |-> draft[sel], i |-> 1, live |-> TRUE, u |-> 0]]
  /\ UNCHANGED <<sel, draft, pending, removed, tiles, hub, posts>> /\ Fine
Tile(s) == send[s].list[send[s].i]
At(s, a) == send[s].at = a /\ send[s].i <= Len(send[s].list)
\* An upload fails: cancel it at the hub, mark the tile, end the send.
Fails(s, u) ==
  /\ send' = [send EXCEPT ![s] = Idle] /\ draft' = updateChatAttachment(s, Tile(s).id, "failed")
  /\ posts' = IF u = 0 THEN posts ELSE posts \cup {[kind |-> "cancel", s |-> s, c |-> Tile(s).c, u |-> u]}
  /\ UNCHANGED <<sel, pending, removed, tiles>>
\* Completed tiles are taken as they are.
SkipCompleted(s) ==
  /\ At(s, "next") /\ Tile(s).status = "completed" /\ send' = [send EXCEPT ![s].i = @ + 1]
  /\ UNCHANGED <<sel, draft, pending, removed, tiles, hub, posts>> /\ Fine
BeginUpload(s) ==
  /\ At(s, "next") /\ Tile(s).status # "completed"
  /\ draft' = updateChatAttachment(s, Tile(s).id, "uploading") /\ send' = [send EXCEPT ![s].at = "start"]
  /\ UNCHANGED <<sel, pending, removed, tiles, hub, posts>> /\ Fine
\* session.attachment.start, .chunk and .finish: served, refused or lost.
start(s) ==
  /\ At(s, "start") /\ UNCHANGED <<store, hist, prompt>>
  /\ \/ \E u \in Uploads \ parts :
          /\ uploads' = Alive \cup {[id |-> u, s |-> s, c |-> Tile(s).c, got |-> FALSE, idle |-> FALSE]} /\ parts' = PartsAfter(Alive) \cup {u}
          /\ \/ send' = [send EXCEPT ![s].at = "chunk", ![s].u = u] /\ UNCHANGED <<sel, draft, pending, removed, tiles, posts>> /\ Fine
             \/ Fails(s, 0) /\ Fault
     \/ Fails(s, 0) /\ Fault /\ UNCHANGED <<uploads, parts>>
appendChunk(s) ==
  /\ At(s, "chunk") /\ UNCHANGED <<store, hist, prompt>> /\ parts' = PartsAfter(Alive)
  /\ \/ \E u \in Upload(s) :
          /\ uploads' = (Alive \ {u}) \cup {[u EXCEPT !.got = TRUE]} /\ send' = [send EXCEPT ![s].at = "finish"]
          /\ UNCHANGED <<sel, draft, pending, removed, tiles, posts>> /\ Fine
     \/ Upload(s) = {} /\ uploads' = Alive /\ Fails(s, send[s].u) /\ Fine
     \/ Upload(s) # {} /\ uploads' = Alive /\ Fails(s, send[s].u) /\ Fault
\* The sidecar is written anew, also where the artifact was there.
Written(s, c) == [store EXCEPT ![s][c] = "kept"]
finish(s) ==
  /\ At(s, "finish") /\ UNCHANGED <<hist, prompt>>
  /\ \/ \E u \in Upload(s) :
          /\ u.got /\ uploads' = Alive \ {u} /\ parts' = PartsAfter(Alive \ {u}) /\ store' = Written(s, u.c)
          /\ \/ /\ draft' = updateChatAttachment(s, Tile(s).id, "completed") /\ send' = [send EXCEPT ![s].at = "next", ![s].i = @ + 1, ![s].u = 0]
                /\ UNCHANGED <<sel, pending, removed, tiles, posts>> /\ Fine
             \/ Fails(s, send[s].u) /\ Fault
     \/ Upload(s) = {} /\ uploads' = Alive /\ parts' = PartsAfter(Alive) /\ UNCHANGED store /\ Fails(s, send[s].u) /\ Fine
\* All are uploaded: the prompt is remembered, the draft emptied, session.send called.
resetChatComposerDraft(s) ==
  /\ send[s].at = "next" /\ send[s].i > Len(send[s].list) /\ send' = [send EXCEPT ![s].at = "post", ![s].live = FALSE]
  /\ draft' = [draft EXCEPT ![s] = <<>>] /\ pending' = [pending EXCEPT ![s] = send[s].list] /\ UNCHANGED <<sel, removed, tiles, hub, posts>> /\ Fine
ContentsOf(ts) == {ts[i].c : i \in DOMAIN ts}
IdsOf(ts) == {ts[i].id : i \in DOMAIN ts}
\* validateSessionAttachmentBlocks, PromptToSession.
Prompted(s) ==
  /\ send[s].at = "post" /\ \A c \in ContentsOf(send[s].list) : store[s][c] # "none"
  /\ hist' = [hist EXCEPT ![s] = @ \cup ContentsOf(send[s].list)] /\ prompt' = [s |-> s, list |-> send[s].list, gone |-> IdsOf(send[s].list) \cap removed]
  /\ send' = [send EXCEPT ![s].at = "mark"] /\ UNCHANGED <<sel, draft, pending, removed, tiles, uploads, parts, store, posts>> /\ Fine
\* markSent, and the answer.
markSent(s) ==
  /\ send[s].at = "mark" /\ store' = [store EXCEPT ![s] = [c \in Contents |-> IF c \in ContentsOf(send[s].list) /\ @[c] # "none" THEN "sent" ELSE @[c]]]
  /\ send' = [send EXCEPT ![s] = Idle]
  /\ \/ pending' = [pending EXCEPT ![s] = <<>>] /\ Fine
     \/ UNCHANGED pending /\ Fault
  /\ UNCHANGED <<sel, draft, removed, tiles, uploads, parts, hist, prompt, posts>>
\* Refused, or the call is lost: the prompt stays as undelivered.
Undelivered(s) ==
  /\ send[s].at = "post" /\ send' = [send EXCEPT ![s] = Idle]
  /\ \/ (\E c \in ContentsOf(send[s].list) : store[s][c] = "none") /\ Fine
     \/ Fault
  /\ UNCHANGED <<sel, draft, pending, removed, tiles, hub, posts>>
-----------------------------------------------------------------------------
\* What follows an answer runs up to the next call without a break.
Continues(s) == SkipCompleted(s) \/ BeginUpload(s) \/ resetChatComposerDraft(s)
Settled == \A s \in Sessions : send[s].at # "next"
Called(s) == start(s) \/ appendChunk(s) \/ finish(s) \/ Prompted(s) \/ markSent(s) \/ Undelivered(s)
User ==
  \/ \E c \in Contents : enqueueChatAttachmentFiles(c)
  \/ \E i \in 1..MaxTiles : removeChatAttachment(i) \/ retryChatAttachment(i)
  \/ \E s \in Sessions : SelectSession(s)
  \/ editPendingChatPrompt \/ sendChatMessage
Next ==
  \/ \E s \in Sessions : Continues(s)
  \/ Settled /\ (User \/ (\E s \in Sessions : Called(s)) \/ (\E u \in uploads : BecomesIdle(u)) \/ HubRestart \/ (\E p \in posts : ServePost(p) \/ LosePost(p)))
Spec == Init /\ [][Next]_vars
Fairness == (\A s \in Sessions : WF_vars((Continues(s) \/ Called(s)))) /\ WF_vars(\E p \in posts : ServePost(p)) /\ WF_vars(\E u \in uploads : BecomesIdle(u))
FairSpec == Spec /\ Fairness
-----------------------------------------------------------------------------
TypeOK ==
  /\ \A s \in Sessions : \A i \in DOMAIN draft[s] : draft[s][i].status \in {"queued", "uploading", "failed", "completed"} /\ draft[s][i].id <= MaxTiles
  /\ {u.id : u \in uploads} \subseteq parts /\ parts \subseteq Uploads /\ faults <= MaxFaults
\* A tile that shows progress is being uploaded by the send of its session;
\* the tile's own buttons and the send button are off until that changes.
UploadingIsReal == \A s \in Sessions : \A i \in DOMAIN draft[s] :
  draft[s][i].status = "uploading" => send[s].at \in {"start", "chunk", "finish"} /\ Tile(s).id = draft[s][i].id
\* A file that shows as uploaded is stored at the hub, in its session.
CompletedIsStored == \A s \in Sessions : \A i \in DOMAIN draft[s] : (draft[s][i].file /\ draft[s][i].status = "completed") => store[s][draft[s][i].c] # "none"
\* Once sent, a tile is not in a draft any more: it is not sent twice.
SentLeavesDraft == \A s \in Sessions : IdsOf(prompt.list) \cap IdsOf(draft[s]) = {}
\* A file of a delivered prompt is not deleted.
\* Not kept by the code: see the README.
SentStays == \A s \in Sessions : \A c \in hist[s] : store[s][c] # "none"
\* A prompt has no file the user had removed.
\* Not kept by the code: see the README.
NothingRemovedIsSent == prompt.gone = {}
\* A tile does not say for ever that it uploads.
UploadEnds == \A s \in Sessions : (\E i \in DOMAIN draft[s] : draft[s][i].status = "uploading") ~> (\A i \in DOMAIN draft[s] : draft[s][i].status # "uploading")
\* The part file of an upload that is not finished goes away.
\* Not kept by the code: see the README.
PartsAreRemoved == \A u \in Uploads : u \in parts ~> u \notin parts
=============================================================================
