--------------------------- MODULE DraftSessions ---------------------------
(***************************************************************************)
(* Sessions that exist in the browser before the hub has them.  A draft    *)
(* row is shown and typed into while session.create runs; the real         *)
(* session may reach the client with the answer, with a session.updated    *)
(* event or with a list, in any order, and even after the call timed out.  *)
(* Whichever is first moves the composer and the selection to the real     *)
(* session.  The first prompt may be sent before the session is there.     *)
(* A chat is a pair: the draft's id, and whether it is the real session.   *)
(***************************************************************************)
EXTENDS Naturals, FiniteSets, TLAPS

CONSTANTS Drafts,   \* ids of drafts, which are also the ids of their create requests
          MaxEdits, \* bound on what the user types
          MaxFaults \* bound on creates that fail or time out
DraftSessionsConstants == {MaxEdits, MaxFaults} \subseteq Nat

VARIABLES row,        \* status of each draft row; "none" when there is no row
          call,       \* session.create of each draft id
          made,       \* sessions the hub has
          known,      \* sessions in the client's list
          sel,        \* the selected chat
          text,       \* the composer of each chat: the edits it holds
          waiting,    \* what the send that waits for the create has captured
          submitting, \* chats whose composer is read-only and cannot be sent
          sent,       \* how often each edit was sent
          dropped,    \* edits dismissed with a failed draft
          edits, faults
vars == <<row, call, made, known, sel, text, waiting, submitting, sent, dropped, edits, faults>>

Chats == Drafts \X BOOLEAN
DraftKey(d) == <<d, FALSE>>
RealKey(d) == <<d, TRUE>>
Nowhere == <<"", FALSE>>
Init ==
  /\ row = [d \in Drafts |-> "none"] /\ call = [d \in Drafts |-> "idle"] /\ made = {} /\ known = {} /\ sel = Nowhere
  /\ text = [k \in Chats |-> {}] /\ waiting = [d \in Drafts |-> {}] /\ submitting = {} /\ sent = [e \in 1..MaxEdits |-> 0] /\ dropped = {} /\ edits = 0 /\ faults = 0
-----------------------------------------------------------------------------
\* updateDraftChatSession, and what is done to a row.
UpdateRow(d, st) == [row EXCEPT ![d] = st]
createDraftChatSession(d) == UpdateRow(d, "creating")
markDraftChatSessionSending(d) == UpdateRow(d, "sendingFirstPrompt")
markDraftChatSessionFailed(d) == UpdateRow(d, IF row[d] = "none" THEN "none" ELSE "failed")
removeDraftChatSession(d) == UpdateRow(d, "none")
HasDraft(d) == row[d] # "none"
registerCreatedProjectSession(d) == known \cup {d}
\* handleProjectCreateSession: at once for codex, with a wait for the others.
CreateDraft(d) ==
  /\ call[d] = "idle" /\ call' = [call EXCEPT ![d] = "draft"] /\ row' = createDraftChatSession(d) /\ sel' = DraftKey(d)
  /\ UNCHANGED <<made, known, text, waiting, submitting, sent, dropped, edits, faults>>
CreateDirect(d) ==
  /\ call[d] = "idle" /\ call' = [call EXCEPT ![d] = "direct"]
  /\ UNCHANGED <<row, made, known, sel, text, waiting, submitting, sent, dropped, edits, faults>>
selectDraftChatSession(d) ==
  /\ HasDraft(d) /\ sel # DraftKey(d) /\ sel' = DraftKey(d)
  /\ UNCHANGED <<row, call, made, known, text, waiting, submitting, sent, dropped, edits, faults>>
SelectReal(d) ==
  /\ d \in known /\ sel # RealKey(d) /\ sel' = RealKey(d)
  /\ UNCHANGED <<row, call, made, known, text, waiting, submitting, sent, dropped, edits, faults>>
TypeText ==
  /\ sel # Nowhere /\ sel \notin submitting /\ edits < MaxEdits /\ edits' = edits + 1 /\ text' = [text EXCEPT ![sel] = @ \cup {edits + 1}]
  /\ UNCHANGED <<row, call, made, known, sel, waiting, submitting, sent, dropped, faults>>
\* Only a failed draft has the button.
dismissDraftChatSession(d) ==
  /\ row[d] = "failed" /\ row' = removeDraftChatSession(d) /\ text' = [text EXCEPT ![DraftKey(d)] = {}] /\ dropped' = dropped \cup text[DraftKey(d)]
  /\ sel' = (IF sel = DraftKey(d) THEN Nowhere ELSE sel) /\ UNCHANGED <<call, made, known, waiting, submitting, sent, edits, faults>>
-----------------------------------------------------------------------------
moveChatComposerDraft(d) == [text EXCEPT ![RealKey(d)] = IF @ = {} THEN text[DraftKey(d)] ELSE @, ![DraftKey(d)] = {}]
resolveDraftReplacementSelection(d) == IF sel = DraftKey(d) THEN RealKey(d) ELSE sel
\* The real session takes over from its draft.
applyDraftSessionCreateSuccess(d) == known' = registerCreatedProjectSession(d) /\ row' = removeDraftChatSession(d) /\ sel' = resolveDraftReplacementSelection(d)
\* A list or an event: with the request's id the draft is found, if it has a row still.
reconcileCreatedDraftSessions(d) ==
  IF ~ HasDraft(d) THEN known' = known \cup {d} /\ UNCHANGED <<row, sel, text>>
  ELSE applyDraftSessionCreateSuccess(d) /\ text' = moveChatComposerDraft(d)
SessionUpdated(d) == d \in made /\ reconcileCreatedDraftSessions(d) /\ UNCHANGED <<call, made, waiting, submitting, sent, dropped, edits, faults>>

\* One prompt more, with the edits in it.
Delivered(es) == [e \in 1..MaxEdits |-> IF e \in es THEN sent[e] + 1 ELSE sent[e]]
\* sendChatMessage on a session that is there.
SendReal(d) ==
  /\ sel = RealKey(d) /\ sel \notin submitting /\ text[sel] # {} /\ sent' = Delivered(text[sel]) /\ text' = [text EXCEPT ![sel] = {}]
  /\ submitting' = submitting \cup {sel} /\ UNCHANGED <<row, call, made, known, sel, waiting, dropped, edits, faults>>
\* The prompt is confirmed, or given back as undelivered (ChatPrompts).
Confirmed(d) == RealKey(d) \in submitting /\ submitting' = submitting \ {RealKey(d)} /\ UNCHANGED <<row, call, made, known, sel, text, waiting, sent, dropped, edits, faults>>
\* resolveSelectedDraftSessionForSend: capture the composer, then wait for the create.
canStartDraftChatSessionCreate(d) == row[d] # "failed"
SendDraft(d) ==
  /\ sel = DraftKey(d) /\ HasDraft(d) /\ canStartDraftChatSessionCreate(d) /\ sel \notin submitting /\ text[sel] # {}
  /\ row' = markDraftChatSessionSending(d) /\ waiting' = [waiting EXCEPT ![d] = text[sel]] /\ submitting' = submitting \cup {sel}
  /\ UNCHANGED <<call, made, known, sel, text, sent, dropped, edits, faults>>
-----------------------------------------------------------------------------
HubCreates(d) == call[d] # "idle" /\ d \notin made /\ made' = made \cup {d} /\ UNCHANGED <<row, call, known, sel, text, waiting, submitting, sent, dropped, edits, faults>>
\* The answer of a draft's create, and with it the send that waited: the
\* composer of the real session is emptied.
moveChatSubmittingRuntimeKey(d) == (submitting \ {DraftKey(d)}) \cup {RealKey(d)}
DraftAnswer(d) ==
  /\ call[d] = "draft" /\ d \in made /\ call' = [call EXCEPT ![d] = "over"] /\ applyDraftSessionCreateSuccess(d) /\ waiting' = [waiting EXCEPT ![d] = {}]
  /\ IF waiting[d] = {} THEN text' = moveChatComposerDraft(d) /\ UNCHANGED <<submitting, sent>>
     ELSE text' = [text EXCEPT ![RealKey(d)] = {}, ![DraftKey(d)] = {}] /\ submitting' = moveChatSubmittingRuntimeKey(d) /\ sent' = Delivered(waiting[d])
  /\ UNCHANGED <<made, dropped, edits, faults>>
\* Refused, lost or timed out; the hub may have the session, or get it later.
DraftFails(d) ==
  /\ call[d] = "draft" /\ faults < MaxFaults /\ faults' = faults + 1 /\ call' = [call EXCEPT ![d] = "over"]
  /\ row' = markDraftChatSessionFailed(d) /\ waiting' = [waiting EXCEPT ![d] = {}] /\ submitting' = submitting \ {DraftKey(d)}
  /\ UNCHANGED <<made, known, sel, text, sent, dropped, edits>>
DirectAnswer(d) ==
  /\ call[d] = "direct" /\ d \in made /\ call' = [call EXCEPT ![d] = "over"] /\ known' = registerCreatedProjectSession(d) /\ sel' = RealKey(d)
  /\ UNCHANGED <<row, made, text, waiting, submitting, sent, dropped, edits, faults>>
DirectFails(d) ==
  /\ call[d] = "direct" /\ faults < MaxFaults /\ faults' = faults + 1 /\ call' = [call EXCEPT ![d] = "over"]
  /\ UNCHANGED <<row, made, known, sel, text, waiting, submitting, sent, dropped, edits>>
-----------------------------------------------------------------------------
User(d) == CreateDraft(d) \/ CreateDirect(d) \/ selectDraftChatSession(d) \/ SelectReal(d) \/ dismissDraftChatSession(d) \/ SendReal(d) \/ SendDraft(d)
Answered(d) == DraftAnswer(d) \/ DraftFails(d) \/ DirectAnswer(d) \/ DirectFails(d)
Next == TypeText \/ (\E d \in Drafts : User(d) \/ HubCreates(d) \/ SessionUpdated(d) \/ Confirmed(d) \/ Answered(d))
Spec == Init /\ [][Next]_vars
\* The hub works, events or lists come in time, and every prompt is settled.
Fairness == \A d \in Drafts : WF_vars(HubCreates(d)) /\ WF_vars(SessionUpdated(d)) /\ WF_vars(Confirmed(d)) /\ WF_vars(Answered(d))
FairSpec == Spec /\ Fairness
-----------------------------------------------------------------------------
TypeOK ==
  /\ \A d \in Drafts : row[d] \in {"none", "creating", "sendingFirstPrompt", "failed"} /\ (row[d] = "sendingFirstPrompt" => call[d] = "draft")
  /\ known \subseteq made /\ submitting \subseteq Chats /\ faults <= MaxFaults
\* A draft and the session made from it are not both in the list, in whatever
\* way the session became known.
ShownOnce == \A d \in Drafts : d \in known => row[d] = "none"
\* The selected chat and every composer that holds text can be reached from the list.
Reachable ==
  /\ sel = Nowhere \/ (\E d \in Drafts : sel = DraftKey(d) /\ row[d] # "none") \/ (\E d \in known : sel = RealKey(d))
  /\ \A d \in Drafts : (text[DraftKey(d)] # {} => row[d] # "none") /\ (text[RealKey(d)] # {} => d \in known)
\* Whatever happens to the create, what was typed before the session was there
\* is in a composer, sent, or dismissed by the user.
TypedIsKeptStep ==
  \A d \in Drafts : call[d] = "draft" /\ call'[d] = "over" =>
    \A e \in text[DraftKey(d)] : sent'[e] > 0 \/ \E k \in Chats : e \in text'[k]
\* A row does not say for ever that it creates its session.
RowSettles == \A d \in Drafts : row[d] \in {"creating", "sendingFirstPrompt"} ~> row[d] \in {"none", "failed"}
\* While its send is under way a composer cannot be sent again.
\* Not kept by the code: see the README.
SentOnce == \A e \in 1..MaxEdits : sent[e] <= 1
-----------------------------------------------------------------------------
(* What the drafts promise for any number of sessions, edits and faults: a   *)
(* draft and its session are never both listed, no composer is out of reach, *)
(* and what was typed survives the end of the create.                        *)

\* The states of a draft's row, and the types of what the client keeps.
RowStates == {"none", "creating", "sendingFirstPrompt", "failed"}
Typed ==
  /\ row \in [Drafts -> RowStates] /\ call \in [Drafts -> {"idle", "draft", "direct", "over"}]
  /\ made \subseteq Drafts /\ known \subseteq made /\ submitting \subseteq Chats
  /\ text \in [Chats -> SUBSET (1..MaxEdits)] /\ waiting \in [Drafts -> SUBSET (1..MaxEdits)]
  /\ sent \in [1..MaxEdits -> Nat] /\ edits \in 0..MaxEdits /\ faults \in 0..MaxFaults
\* Where a row and its create stand: nothing exists before the call, a call
\* without a draft has no row, and a row that is not failed waits for its call.
Created ==
  \A d \in Drafts : /\ call[d] = "idle" => row[d] = "none" /\ d \notin made
                    /\ call[d] = "direct" => row[d] = "none"
                    /\ row[d] \in {"creating", "sendingFirstPrompt"} => call[d] = "draft"
\* The two parts of Reachable.
SelReachable == sel = Nowhere \/ (\E d \in Drafts : sel = DraftKey(d) /\ row[d] # "none") \/ (\E d \in known : sel = RealKey(d))
TextReachable == \A d \in Drafts : (text[DraftKey(d)] # {} => row[d] # "none") /\ (text[RealKey(d)] # {} => d \in known)
\* Nothing is typed behind a send that waits.
Captured == \A d \in Drafts : waiting[d] # {} => DraftKey(d) \in submitting /\ text[DraftKey(d)] \subseteq waiting[d]
DraftsInv == Typed /\ Created /\ SelReachable /\ TextReachable /\ Captured /\ ShownOnce

\* Keys of chats are told apart by id and kind.
LEMMA KeyFacts ==
  /\ \A d \in Drafts : DraftKey(d) \in Chats /\ RealKey(d) \in Chats
  /\ \A d, e \in Drafts : DraftKey(d) # RealKey(e)
  /\ \A d, e \in Drafts : DraftKey(d) = DraftKey(e) => d = e
  /\ \A d, e \in Drafts : RealKey(d) = RealKey(e) => d = e
BY DEF Chats, DraftKey, RealKey

\* What is prompted is counted once more.
LEMMA DeliveredFacts ==
  ASSUME Typed, NEW es \in SUBSET (1..MaxEdits)
  PROVE  Delivered(es) \in [1..MaxEdits -> Nat] /\ \A e \in es : Delivered(es)[e] > 0
BY DEF Typed, Delivered

\* The steps that leave the list and the composers alone.
LEMMA CallSteps ==
  ASSUME DraftSessionsConstants, DraftsInv, NEW d \in Drafts
  PROVE  /\ CreateDraft(d) => DraftsInv'
         /\ CreateDirect(d) => DraftsInv'
         /\ HubCreates(d) => DraftsInv'
         /\ selectDraftChatSession(d) => DraftsInv'
         /\ SelectReal(d) => DraftsInv'
         /\ Confirmed(d) => DraftsInv'
         /\ DirectAnswer(d) => DraftsInv'
         /\ DirectFails(d) => DraftsInv'
<1>0. Typed /\ Created /\ SelReachable /\ TextReachable /\ Captured /\ ShownOnce
  BY DEF DraftsInv
<1>1. ASSUME CreateDraft(d) PROVE DraftsInv'
  <2>1. row' = [row EXCEPT ![d] = "creating"] /\ call' = [call EXCEPT ![d] = "draft"] /\ call[d] = "idle" /\ sel' = DraftKey(d)
        /\ UNCHANGED <<made, known, text, waiting, submitting, sent, dropped, edits, faults>>
    BY <1>1 DEF CreateDraft, createDraftChatSession, UpdateRow
  <2>2. Typed'
    BY <1>0, <2>1 DEF Typed, RowStates
  <2>3. Created'
    BY <1>0, <2>1 DEF Typed, Created
  <2>4. SelReachable' /\ TextReachable' /\ Captured' /\ ShownOnce'
    BY <1>0, <2>1 DEF Typed, Created, SelReachable, TextReachable, Captured, ShownOnce
  <2> QED
    BY <2>2, <2>3, <2>4 DEF DraftsInv
<1>2. ASSUME CreateDirect(d) PROVE DraftsInv'
  <2>1. call' = [call EXCEPT ![d] = "direct"] /\ call[d] = "idle" /\ UNCHANGED <<row, made, known, sel, text, waiting, submitting, sent, dropped, edits, faults>>
    BY <1>2 DEF CreateDirect
  <2>2. Typed' /\ Created'
    BY <1>0, <2>1 DEF Typed, Created
  <2>3. SelReachable' /\ TextReachable' /\ Captured' /\ ShownOnce'
    BY <1>0, <2>1 DEF SelReachable, TextReachable, Captured, ShownOnce
  <2> QED
    BY <2>2, <2>3 DEF DraftsInv
<1>3. ASSUME HubCreates(d) PROVE DraftsInv'
  <2>1. call[d] # "idle" /\ made' = made \union {d} /\ UNCHANGED <<row, call, known, sel, text, waiting, submitting, sent, dropped, edits, faults>>
    BY <1>3 DEF HubCreates
  <2>2. Typed' /\ Created'
    BY <1>0, <2>1 DEF Typed, Created
  <2>3. SelReachable' /\ TextReachable' /\ Captured' /\ ShownOnce'
    BY <1>0, <2>1 DEF SelReachable, TextReachable, Captured, ShownOnce
  <2> QED
    BY <2>2, <2>3 DEF DraftsInv
<1>4. ASSUME selectDraftChatSession(d) \/ SelectReal(d) PROVE DraftsInv'
  <2>1. UNCHANGED <<row, call, made, known, text, waiting, submitting, sent, dropped, edits, faults>>
        /\ ((sel' = DraftKey(d) /\ row[d] # "none") \/ (sel' = RealKey(d) /\ d \in known))
    <3>1. CASE selectDraftChatSession(d)
      BY <3>1 DEF selectDraftChatSession, HasDraft
    <3>2. CASE SelectReal(d)
      BY <3>2 DEF SelectReal
    <3> QED
      BY <1>4, <3>1, <3>2
  <2>2. Typed' /\ Created' /\ TextReachable' /\ Captured' /\ ShownOnce'
    BY <1>0, <2>1 DEF Typed, Created, TextReachable, Captured, ShownOnce
  <2>3. SelReachable'
    BY <2>1 DEF SelReachable
  <2> QED
    BY <2>2, <2>3 DEF DraftsInv
<1>5. ASSUME Confirmed(d) PROVE DraftsInv'
  <2>1. submitting' = submitting \ {RealKey(d)} /\ UNCHANGED <<row, call, made, known, sel, text, waiting, sent, dropped, edits, faults>>
    BY <1>5 DEF Confirmed
  <2>2. Typed' /\ Created' /\ SelReachable' /\ TextReachable' /\ ShownOnce'
    BY <1>0, <2>1 DEF Typed, Created, SelReachable, TextReachable, ShownOnce
  <2>3. Captured'
    BY <1>0, <2>1, KeyFacts DEF Captured
  <2> QED
    BY <2>2, <2>3 DEF DraftsInv
<1>6. ASSUME DirectAnswer(d) PROVE DraftsInv'
  <2>1. call[d] = "direct" /\ d \in made /\ call' = [call EXCEPT ![d] = "over"] /\ known' = known \union {d} /\ sel' = RealKey(d)
        /\ UNCHANGED <<row, made, text, waiting, submitting, sent, dropped, edits, faults>>
    BY <1>6 DEF DirectAnswer, registerCreatedProjectSession
  <2>2. Typed' /\ Created'
    BY <1>0, <2>1 DEF Typed, Created
  <2>3. ShownOnce'
    BY <1>0, <2>1 DEF Created, ShownOnce
  <2>4. SelReachable' /\ TextReachable' /\ Captured'
    BY <1>0, <2>1 DEF SelReachable, TextReachable, Captured
  <2> QED
    BY <2>2, <2>3, <2>4 DEF DraftsInv
<1>7. ASSUME DirectFails(d) PROVE DraftsInv'
  <2>1. call[d] = "direct" /\ faults < MaxFaults /\ faults' = faults + 1 /\ call' = [call EXCEPT ![d] = "over"]
        /\ UNCHANGED <<row, made, known, sel, text, waiting, submitting, sent, dropped, edits>>
    BY <1>7 DEF DirectFails
  <2>0. faults + 1 \in 0..MaxFaults
    BY <1>0, <2>1 DEF Typed, DraftSessionsConstants
  <2>2. Typed' /\ Created'
    BY <1>0, <2>0, <2>1 DEF Typed, Created
  <2>3. SelReachable' /\ TextReachable' /\ Captured' /\ ShownOnce'
    BY <1>0, <2>1 DEF SelReachable, TextReachable, Captured, ShownOnce
  <2> QED
    BY <2>2, <2>3 DEF DraftsInv
<1> QED
  BY <1>1, <1>2, <1>3, <1>4, <1>5, <1>6, <1>7

\* The steps of the user in a composer and on a failed row.
LEMMA ComposerSteps ==
  ASSUME DraftSessionsConstants, DraftsInv
  PROVE  /\ TypeText => DraftsInv'
         /\ \A d \in Drafts : dismissDraftChatSession(d) => DraftsInv'
         /\ \A d \in Drafts : SendReal(d) => DraftsInv'
         /\ \A d \in Drafts : SendDraft(d) => DraftsInv'
<1>0. Typed /\ Created /\ SelReachable /\ TextReachable /\ Captured /\ ShownOnce
  BY DEF DraftsInv
<1>1. ASSUME TypeText PROVE DraftsInv'
  <2>1. /\ sel # Nowhere /\ sel \notin submitting /\ edits < MaxEdits /\ edits' = edits + 1 /\ text' = [text EXCEPT ![sel] = @ \union {edits + 1}]
        /\ UNCHANGED <<row, call, made, known, sel, waiting, submitting, sent, dropped, faults>>
    BY <1>1 DEF TypeText
  <2>2. edits + 1 \in 1..MaxEdits /\ edits + 1 \in 0..MaxEdits
    BY <1>0, <2>1 DEF Typed, DraftSessionsConstants
  <2>3. PICK d \in Drafts : (sel = DraftKey(d) /\ row[d] # "none") \/ (sel = RealKey(d) /\ d \in known)
    BY <1>0, <2>1 DEF SelReachable, Typed
  <2>4. sel \in Chats
    BY <2>3, KeyFacts
  <2>5. text' \in [Chats -> SUBSET (1..MaxEdits)] /\ \A k \in Chats : k # sel => text'[k] = text[k]
    BY <1>0, <2>1, <2>2, <2>4 DEF Typed
  <2>6. Typed'
    BY <1>0, <2>1, <2>2, <2>5 DEF Typed
  <2>7. TextReachable'
    BY <1>0, <2>1, <2>3, <2>5, KeyFacts DEF TextReachable
  <2>8. Captured'
    BY <1>0, <2>1, <2>5, KeyFacts DEF Captured
  <2>9. Created' /\ SelReachable' /\ ShownOnce'
    BY <1>0, <2>1 DEF Created, SelReachable, ShownOnce
  <2> QED
    BY <2>6, <2>7, <2>8, <2>9 DEF DraftsInv
<1>2. ASSUME NEW d \in Drafts, dismissDraftChatSession(d) PROVE DraftsInv'
  <2>1. /\ row[d] = "failed" /\ row' = [row EXCEPT ![d] = "none"] /\ text' = [text EXCEPT ![DraftKey(d)] = {}]
        /\ sel' = (IF sel = DraftKey(d) THEN Nowhere ELSE sel) /\ UNCHANGED <<call, made, known, waiting, submitting, sent, edits, faults>>
    BY <1>2 DEF dismissDraftChatSession, removeDraftChatSession, UpdateRow
  <2>2. text' \in [Chats -> SUBSET (1..MaxEdits)] /\ text'[DraftKey(d)] = {} /\ \A k \in Chats : k # DraftKey(d) => text'[k] = text[k]
    BY <1>0, <2>1, KeyFacts DEF Typed
  <2>3. row' \in [Drafts -> RowStates] /\ row'[d] = "none" /\ \A e \in Drafts : e # d => row'[e] = row[e]
    BY <1>0, <2>1 DEF Typed, RowStates
  <2>4. Typed'
    BY <1>0, <2>1, <2>2, <2>3 DEF Typed
  <2>5. Created' /\ ShownOnce'
    BY <1>0, <2>1, <2>3 DEF Created, ShownOnce
  <2>6. TextReachable'
    BY <1>0, <2>1, <2>2, <2>3, KeyFacts DEF TextReachable
  <2>7. Captured'
    BY <1>0, <2>1, <2>2, KeyFacts DEF Captured
  <2>8. SelReachable'
    BY <1>0, <2>1, <2>3 DEF SelReachable
  <2> QED
    BY <2>4, <2>5, <2>6, <2>7, <2>8 DEF DraftsInv
<1>3. ASSUME NEW d \in Drafts, SendReal(d) PROVE DraftsInv'
  <2>1. /\ sel = RealKey(d) /\ sent' = Delivered(text[RealKey(d)]) /\ text' = [text EXCEPT ![RealKey(d)] = {}]
        /\ submitting' = submitting \union {RealKey(d)} /\ UNCHANGED <<row, call, made, known, sel, waiting, dropped, edits, faults>>
    BY <1>3 DEF SendReal
  <2>2. text' \in [Chats -> SUBSET (1..MaxEdits)] /\ text'[RealKey(d)] = {} /\ \A k \in Chats : k # RealKey(d) => text'[k] = text[k]
    BY <1>0, <2>1, KeyFacts DEF Typed
  <2>3. text[RealKey(d)] \in SUBSET (1..MaxEdits)
    BY <1>0, KeyFacts DEF Typed
  <2>4. sent' \in [1..MaxEdits -> Nat]
    BY <1>0, <2>1, <2>3, DeliveredFacts
  <2>5. Typed'
    BY <1>0, <2>1, <2>2, <2>4, KeyFacts DEF Typed
  <2>6. TextReachable'
    BY <1>0, <2>1, <2>2, KeyFacts DEF TextReachable
  <2>7. Captured'
    BY <1>0, <2>1, <2>2, KeyFacts DEF Captured
  <2>8. Created' /\ SelReachable' /\ ShownOnce'
    BY <1>0, <2>1 DEF Created, SelReachable, ShownOnce
  <2> QED
    BY <2>5, <2>6, <2>7, <2>8 DEF DraftsInv
<1>4. ASSUME NEW d \in Drafts, SendDraft(d) PROVE DraftsInv'
  <2>1. /\ row[d] \notin {"none", "failed"} /\ row' = [row EXCEPT ![d] = "sendingFirstPrompt"]
        /\ waiting' = [waiting EXCEPT ![d] = text[DraftKey(d)]] /\ submitting' = submitting \union {DraftKey(d)}
        /\ UNCHANGED <<call, made, known, sel, text, sent, dropped, edits, faults>>
    BY <1>4 DEF SendDraft, HasDraft, canStartDraftChatSessionCreate, markDraftChatSessionSending, UpdateRow
  <2>2. row' \in [Drafts -> RowStates] /\ row'[d] = "sendingFirstPrompt" /\ \A e \in Drafts : e # d => row'[e] = row[e]
    BY <1>0, <2>1 DEF Typed, RowStates
  <2>3. /\ waiting' \in [Drafts -> SUBSET (1..MaxEdits)] /\ waiting'[d] = text[DraftKey(d)] /\ \A e \in Drafts : e # d => waiting'[e] = waiting[e]
    BY <1>0, <2>1, KeyFacts DEF Typed
  <2>4. row[d] \in {"creating", "sendingFirstPrompt"}
    BY <1>0, <2>1 DEF Typed, RowStates
  <2>5. Typed'
    BY <1>0, <2>1, <2>2, <2>3, KeyFacts DEF Typed
  <2>6. Created' /\ ShownOnce'
    BY <1>0, <2>1, <2>2, <2>4 DEF Created, ShownOnce
  <2>7. TextReachable'
    BY <1>0, <2>1, <2>2 DEF TextReachable
  <2>8. Captured'
    BY <1>0, <2>1, <2>3 DEF Captured
  <2>9. SelReachable'
    BY <1>0, <2>1, <2>2 DEF SelReachable
  <2> QED
    BY <2>5, <2>6, <2>7, <2>8, <2>9 DEF DraftsInv
<1> QED
  BY <1>1, <1>2, <1>3, <1>4

\* What the take-over of a draft by its session leaves: the session is known,
\* the row is gone and the draft's text is with the session.
LEMMA TakeOver ==
  ASSUME DraftsInv, NEW d \in Drafts, d \in made, applyDraftSessionCreateSuccess(d), Typed', Created',
         text'[DraftKey(d)] = {}, \A k \in Chats \ {DraftKey(d), RealKey(d)} : text'[k] = text[k],
         \A e \in Drafts : (waiting'[e] = waiting[e] /\ (DraftKey(e) \in submitting => DraftKey(e) \in submitting')) \/ waiting'[e] = {}
  PROVE  DraftsInv'
<1>0. Typed /\ Created /\ SelReachable /\ TextReachable /\ Captured /\ ShownOnce
  BY DEF DraftsInv
<1>1. known' = known \union {d} /\ row' = [row EXCEPT ![d] = "none"] /\ sel' = (IF sel = DraftKey(d) THEN RealKey(d) ELSE sel)
  BY DEF applyDraftSessionCreateSuccess, registerCreatedProjectSession, removeDraftChatSession, UpdateRow, resolveDraftReplacementSelection
<1>2. row'[d] = "none" /\ \A e \in Drafts : e # d => row'[e] = row[e]
  BY <1>0, <1>1 DEF Typed
<1>3. SelReachable'
  BY <1>0, <1>1, <1>2 DEF SelReachable
<1>4. ShownOnce'
  BY <1>0, <1>1, <1>2 DEF ShownOnce
<1>5. \A e \in Drafts : e # d => text'[DraftKey(e)] = text[DraftKey(e)] /\ text'[RealKey(e)] = text[RealKey(e)]
  BY KeyFacts
<1>6. TextReachable'
  BY <1>0, <1>1, <1>2, <1>5 DEF TextReachable
<1>7. Captured'
  BY <1>0, <1>5 DEF Captured
<1> QED
  BY <1>3, <1>4, <1>6, <1>7 DEF DraftsInv

\* The text of a draft moves to its session, whose composer is empty as long as
\* the draft has its row.
LEMMA MoveFacts ==
  ASSUME DraftsInv, NEW d \in Drafts, text' = moveChatComposerDraft(d)
  PROVE  /\ text' \in [Chats -> SUBSET (1..MaxEdits)] /\ text'[DraftKey(d)] = {}
         /\ \A k \in Chats \ {DraftKey(d), RealKey(d)} : text'[k] = text[k]
         /\ text[DraftKey(d)] \subseteq text'[RealKey(d)]
<1>1. text \in [Chats -> SUBSET (1..MaxEdits)] /\ DraftKey(d) \in Chats /\ RealKey(d) \in Chats /\ DraftKey(d) # RealKey(d)
  BY KeyFacts DEF DraftsInv, Typed
<1>2. text' = [text EXCEPT ![RealKey(d)] = IF text[RealKey(d)] = {} THEN text[DraftKey(d)] ELSE text[RealKey(d)], ![DraftKey(d)] = {}]
  BY DEF moveChatComposerDraft
<1>3. text[DraftKey(d)] # {} => text[RealKey(d)] = {}
  BY DEF DraftsInv, TextReachable, ShownOnce
<1> QED
  BY <1>1, <1>2, <1>3

\* The session becomes known by an event or a list.
LEMMA UpdateStep ==
  ASSUME DraftsInv, NEW d \in Drafts, SessionUpdated(d)
  PROVE  DraftsInv'
<1>0. Typed /\ Created /\ SelReachable /\ TextReachable /\ Captured /\ ShownOnce
  BY DEF DraftsInv
<1>1. d \in made /\ reconcileCreatedDraftSessions(d) /\ UNCHANGED <<call, made, waiting, submitting, sent, dropped, edits, faults>>
  BY DEF SessionUpdated
<1>2. CASE row[d] = "none"
  <2>1. known' = known \union {d} /\ UNCHANGED <<row, sel, text>>
    BY <1>1, <1>2 DEF reconcileCreatedDraftSessions, HasDraft
  <2>2. Typed' /\ Created'
    BY <1>0, <1>1, <2>1 DEF Typed, Created
  <2>3. SelReachable' /\ TextReachable' /\ Captured' /\ ShownOnce'
    BY <1>0, <1>1, <1>2, <2>1 DEF SelReachable, TextReachable, Captured, ShownOnce
  <2> QED
    BY <2>2, <2>3 DEF DraftsInv
<1>3. CASE row[d] # "none"
  <2>1. applyDraftSessionCreateSuccess(d) /\ text' = moveChatComposerDraft(d)
    BY <1>1, <1>3 DEF reconcileCreatedDraftSessions, HasDraft
  <2>2. known' = known \union {d} /\ row' = [row EXCEPT ![d] = "none"]
    BY <2>1 DEF applyDraftSessionCreateSuccess, registerCreatedProjectSession, removeDraftChatSession, UpdateRow
  <2>3. Typed'
    BY <1>0, <1>1, <2>1, <2>2, MoveFacts DEF Typed, RowStates
  <2>4. Created'
    BY <1>0, <1>1, <2>2 DEF Typed, Created
  <2>5. \A e \in Drafts : waiting'[e] = waiting[e] /\ (DraftKey(e) \in submitting => DraftKey(e) \in submitting')
    BY <1>1
  <2> QED
    BY <1>1, <2>1, <2>3, <2>4, <2>5, MoveFacts, TakeOver
<1> QED
  BY <1>2, <1>3

\* The create of a draft ends: its text is with the session, sent, or still in
\* the draft's composer.
LEMMA AnswerStep ==
  ASSUME DraftSessionsConstants, DraftsInv, NEW d \in Drafts, DraftAnswer(d) \/ DraftFails(d)
  PROVE  DraftsInv' /\ \A e \in text[DraftKey(d)] : sent'[e] > 0 \/ e \in text'[DraftKey(d)] \/ e \in text'[RealKey(d)]
<1>0. Typed /\ Created /\ SelReachable /\ TextReachable /\ Captured /\ ShownOnce
  BY DEF DraftsInv
<1>1. CASE DraftAnswer(d)
  <2>1. /\ call[d] = "draft" /\ d \in made /\ call' = [call EXCEPT ![d] = "over"] /\ applyDraftSessionCreateSuccess(d) /\ waiting' = [waiting EXCEPT ![d] = {}]
        /\ UNCHANGED <<made, dropped, edits, faults>>
    BY <1>1 DEF DraftAnswer
  <2>2. known' = known \union {d} /\ row' = [row EXCEPT ![d] = "none"]
    BY <2>1 DEF applyDraftSessionCreateSuccess, registerCreatedProjectSession, removeDraftChatSession, UpdateRow
  <2>3. Created'
    BY <1>0, <2>1, <2>2 DEF Typed, Created
  <2>4. /\ row' \in [Drafts -> RowStates] /\ call' \in [Drafts -> {"idle", "draft", "direct", "over"}] /\ known' \subseteq made'
        /\ waiting' \in [Drafts -> SUBSET (1..MaxEdits)] /\ waiting'[d] = {} /\ \A e \in Drafts : e # d => waiting'[e] = waiting[e]
    BY <1>0, <2>1, <2>2 DEF Typed, RowStates
  <2>5. CASE waiting[d] = {}
    <3>1. text' = moveChatComposerDraft(d) /\ UNCHANGED <<submitting, sent>>
      BY <1>1, <2>5 DEF DraftAnswer
    <3>2. Typed'
      BY <1>0, <2>1, <2>4, <3>1, MoveFacts DEF Typed
    <3>3. \A e \in Drafts : (waiting'[e] = waiting[e] /\ (DraftKey(e) \in submitting => DraftKey(e) \in submitting')) \/ waiting'[e] = {}
      BY <2>4, <3>1
    <3>4. DraftsInv'
      BY <2>1, <2>3, <3>1, <3>2, <3>3, MoveFacts, TakeOver
    <3> QED
      BY <3>1, <3>4, MoveFacts
  <2>6. CASE waiting[d] # {}
    <3>1. /\ text' = [text EXCEPT ![RealKey(d)] = {}, ![DraftKey(d)] = {}] /\ sent' = Delivered(waiting[d])
          /\ submitting' = (submitting \ {DraftKey(d)}) \union {RealKey(d)}
      BY <1>1, <2>6 DEF DraftAnswer, moveChatSubmittingRuntimeKey
    <3>2. /\ text' \in [Chats -> SUBSET (1..MaxEdits)] /\ text'[DraftKey(d)] = {}
          /\ \A k \in Chats \ {DraftKey(d), RealKey(d)} : text'[k] = text[k]
      BY <1>0, <3>1, KeyFacts DEF Typed
    <3>3. waiting[d] \in SUBSET (1..MaxEdits) /\ text[DraftKey(d)] \subseteq waiting[d]
      BY <1>0, <2>6 DEF Typed, Captured
    <3>4. sent' \in [1..MaxEdits -> Nat] /\ \A e \in waiting[d] : sent'[e] > 0
      BY <1>0, <3>1, <3>3, DeliveredFacts
    <3>5. submitting' \subseteq Chats
      BY <1>0, <3>1, KeyFacts DEF Typed
    <3>6. Typed'
      BY <1>0, <2>1, <2>4, <3>2, <3>4, <3>5 DEF Typed
    <3>7. \A e \in Drafts : (waiting'[e] = waiting[e] /\ (DraftKey(e) \in submitting => DraftKey(e) \in submitting')) \/ waiting'[e] = {}
      BY <2>4, <3>1, KeyFacts
    <3>8. DraftsInv'
      BY <2>1, <2>3, <3>2, <3>6, <3>7, TakeOver
    <3> QED
      BY <3>3, <3>4, <3>8
  <2> QED
    BY <2>5, <2>6
<1>2. CASE DraftFails(d)
  <2>1. /\ call[d] = "draft" /\ faults < MaxFaults /\ faults' = faults + 1 /\ call' = [call EXCEPT ![d] = "over"]
        /\ row' = [row EXCEPT ![d] = IF row[d] = "none" THEN "none" ELSE "failed"] /\ waiting' = [waiting EXCEPT ![d] = {}]
        /\ submitting' = submitting \ {DraftKey(d)} /\ UNCHANGED <<made, known, sel, text, sent, dropped, edits>>
    BY <1>2 DEF DraftFails, markDraftChatSessionFailed, UpdateRow
  <2>2. faults + 1 \in 0..MaxFaults
    BY <1>0, <2>1 DEF Typed, DraftSessionsConstants
  <2>3. /\ row' \in [Drafts -> RowStates] /\ row'[d] \in {"none", "failed"} /\ (row'[d] = "none" <=> row[d] = "none")
        /\ \A e \in Drafts : e # d => row'[e] = row[e]
    BY <1>0, <2>1 DEF Typed, RowStates
  <2>4. Typed'
    BY <1>0, <2>1, <2>2, <2>3 DEF Typed
  <2>5. Created'
    BY <1>0, <2>1, <2>3 DEF Typed, Created
  <2>6. Captured'
    BY <1>0, <2>1, KeyFacts DEF Typed, Captured
  <2>7. SelReachable' /\ TextReachable' /\ ShownOnce'
    BY <1>0, <2>1, <2>3 DEF SelReachable, TextReachable, ShownOnce
  <2> QED
    BY <2>1, <2>4, <2>5, <2>6, <2>7 DEF DraftsInv
<1> QED
  BY <1>1, <1>2

\* The invariant holds before the first draft and is kept by every step.
LEMMA DraftsInduction ==
  ASSUME DraftSessionsConstants
  PROVE  (Init => DraftsInv) /\ (DraftsInv /\ [Next]_vars => DraftsInv')
<1>1. ASSUME Init PROVE DraftsInv
  <2>1. Typed
    BY <1>1 DEF Init, Typed, RowStates, DraftSessionsConstants
  <2> QED
    BY <1>1, <2>1, KeyFacts DEF Init, DraftsInv, Created, SelReachable, TextReachable, Captured, ShownOnce
<1>2. ASSUME DraftsInv, [Next]_vars PROVE DraftsInv'
  <2>1. CASE UNCHANGED vars
    BY <1>2, <2>1 DEF vars, DraftsInv, Typed, Created, SelReachable, TextReachable, Captured, ShownOnce
  <2>2. CASE TypeText
    BY <1>2, <2>2, ComposerSteps
  <2>3. ASSUME NEW d \in Drafts, User(d) PROVE DraftsInv'
    BY <1>2, <2>3, CallSteps, ComposerSteps DEF User
  <2>4. ASSUME NEW d \in Drafts, HubCreates(d) \/ Confirmed(d) PROVE DraftsInv'
    BY <1>2, <2>4, CallSteps
  <2>5. ASSUME NEW d \in Drafts, SessionUpdated(d) PROVE DraftsInv'
    BY <1>2, <2>5, UpdateStep
  <2>6. ASSUME NEW d \in Drafts, Answered(d) PROVE DraftsInv'
    BY <1>2, <2>6, CallSteps, AnswerStep DEF Answered
  <2> QED
    BY <1>2, <2>1, <2>2, <2>3, <2>4, <2>5, <2>6 DEF Next
<1> QED
  BY <1>1, <1>2

\* The invariant of the drafts, for every instance.
LEMMA DraftsInvariance ==
  ASSUME DraftSessionsConstants
  PROVE  Spec => []DraftsInv
BY DraftsInduction, PTL DEF Spec

\* Types: in particular a row that sends its first prompt waits for its create,
\* and what the client lists the hub has.
THEOREM TypeCorrect ==
  ASSUME DraftSessionsConstants
  PROVE  Spec => []TypeOK
<1>1. DraftsInv => TypeOK
  BY DEF DraftSessionsConstants, DraftsInv, Typed, RowStates, Created, TypeOK
<1> QED
  BY <1>1, DraftsInvariance, PTL

\* A draft and the session made from it are never both in the list, whether the
\* answer, an event or a list tells of the session first, or the call timed out.
THEOREM ShownOnceAlways ==
  ASSUME DraftSessionsConstants
  PROVE  Spec => []ShownOnce
<1>1. DraftsInv => ShownOnce
  BY DEF DraftsInv
<1> QED
  BY <1>1, DraftsInvariance, PTL

\* The selection and every composer with text can be reached from the list at
\* any time: applyDraftSessionCreateSuccess takes both along.
THEOREM ReachableAlways ==
  ASSUME DraftSessionsConstants
  PROVE  Spec => []Reachable
<1>1. DraftsInv => Reachable
  BY DEF DraftsInv, SelReachable, TextReachable, Reachable
<1> QED
  BY <1>1, DraftsInvariance, PTL

\* When the create of a draft ends, everything in its composer was sent or is in
\* a composer, also when the session came earlier by an event and when a prompt
\* waited for it.
THEOREM TypedIsKeptAlways ==
  ASSUME DraftSessionsConstants
  PROVE  Spec => [][TypedIsKeptStep]_vars
<1>1. ASSUME DraftsInv, [Next]_vars PROVE [TypedIsKeptStep]_vars
  <2>1. SUFFICES ASSUME Next, NEW d \in Drafts, call[d] = "draft", call'[d] = "over", NEW e \in text[DraftKey(d)]
                 PROVE  sent'[e] > 0 \/ \E k \in Chats : e \in text'[k]
    BY <1>1 DEF TypedIsKeptStep
  <2>2. Typed
    BY <1>1 DEF DraftsInv
  <2>3. DraftAnswer(d) \/ DraftFails(d)
    <3>1. call' # call
      BY <2>1
    <3>2. ~ TypeText /\ \A f \in Drafts : ~ (HubCreates(f) \/ SessionUpdated(f) \/ Confirmed(f))
      BY <3>1 DEF TypeText, HubCreates, SessionUpdated, Confirmed
    <3>3. PICK f \in Drafts : User(f) \/ Answered(f)
      BY <2>1, <3>2 DEF Next
    <3>4. ~ (selectDraftChatSession(f) \/ SelectReal(f) \/ dismissDraftChatSession(f) \/ SendReal(f) \/ SendDraft(f))
      BY <3>1 DEF selectDraftChatSession, SelectReal, dismissDraftChatSession, SendReal, SendDraft
    <3>5. ~ CreateDraft(f) /\ ~ CreateDirect(f)
      BY <2>1, <2>2 DEF CreateDraft, CreateDirect, Typed
    <3>6. ~ DirectAnswer(f) /\ ~ DirectFails(f)
      BY <2>1, <2>2 DEF DirectAnswer, DirectFails, Typed
    <3>7. f = d
      <4>1. call' = [call EXCEPT ![f] = "over"]
        BY <3>3, <3>4, <3>5, <3>6 DEF User, Answered, DraftAnswer, DraftFails
      <4> QED
        BY <2>1, <2>2, <4>1 DEF Typed
    <3> QED
      BY <3>3, <3>4, <3>5, <3>6, <3>7 DEF User, Answered
  <2>4. sent'[e] > 0 \/ e \in text'[DraftKey(d)] \/ e \in text'[RealKey(d)]
    BY <1>1, <2>1, <2>3, AnswerStep
  <2> QED
    BY <2>1, <2>4, KeyFacts
<1> QED
  BY <1>1, DraftsInvariance, PTL DEF Spec
=============================================================================
