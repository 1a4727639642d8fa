--------------------------- MODULE TerminalResize ---------------------------
(***************************************************************************)
(* Who decides on the size of a terminal: pages with a screen of their own *)
(* show one terminal of a hub; a token makes one of them the owner.        *)
(***************************************************************************)
EXTENDS Naturals, Sequences, TLAPS

CONSTANTS Pages, Sizes, MaxTokens, \* bound on claims
          MaxMoves,                \* bound on container changes and clicks
          Ops                      \* "fit": the button is used
ResizeConstants == Pages # {} /\ Sizes # {} /\ {MaxTokens, MaxMoves} \subseteq Nat /\ Ops \subseteq {"fit"}

VARIABLES hubSize, hubToken, \* meta and resizeToken of the terminal
          box,      \* what each page's container has room for
          size,     \* cols and rows the page knows
          emul,     \* size of its emulator
          last,     \* lastSizeRef
          token,    \* terminalResizeTokensRef, 0 for none
          enabled,  \* resizeEnabled as the emulator was last given it
          claiming, \* terminalResizeClaimsRef
          frame,    \* resizeFrameRef: a report is due
          calls,    \* terminal.resize on its way to the hub
          due,      \* goroutines of the hub that have yet to publish "resized"
          inbox,    \* answers and events on their way to the page, as sent
          overtaken, \* whether one has arrived before an earlier one
          asked,    \* whether the last claim came from the button
          moves     \* container changes and clicks so far
vars == <<hubSize, hubToken, box, size, emul, last, token, enabled, claiming, frame, calls, due, inbox, overtaken, asked, moves>>

\* The first page has created the terminal.
Init ==
  /\ \E s \in Sizes, creator \in Pages :
       /\ hubSize = s /\ size = [p \in Pages |-> s] /\ emul = size /\ last = size
       /\ token = [p \in Pages |-> IF p = creator THEN 1 ELSE 0] /\ box \in {b \in [Pages -> Sizes] : b[creator] = s}
  /\ hubToken = 1 /\ enabled = [p \in Pages |-> token[p] # 0] /\ claiming = [p \in Pages |-> FALSE] /\ frame = [p \in Pages |-> ~ enabled[p]]
  /\ calls = [p \in Pages |-> <<>>] /\ due = 0 /\ inbox = [p \in Pages |-> <<>>] /\ overtaken = FALSE /\ asked = FALSE /\ moves = 0
-----------------------------------------------------------------------------
\* A container changes; observers, focus and visibility ask for a report.
scheduleFitReport(p, s) == moves < MaxMoves /\ moves' = moves + 1 /\ box' = [box EXCEPT ![p] = s] /\ frame' = [frame EXCEPT ![p] = TRUE] /\ UNCHANGED <<hubSize, hubToken, size, emul, last, token, enabled, claiming, calls, due, inbox, overtaken, asked>>
Call(p, c) == calls' = [calls EXCEPT ![p] = Append(@, c)]
claimTerminalResize(p, s, b) ==
  IF claiming[p] THEN UNCHANGED <<claiming, calls>>
  ELSE claiming' = [claiming EXCEPT ![p] = TRUE] /\ Call(p, [claim |-> TRUE, size |-> s, token |-> 0, button |-> b])
handleTerminalResize(p, s, tok) ==
  IF tok = 0 THEN claimTerminalResize(p, s, FALSE)
  ELSE Call(p, [claim |-> FALSE, size |-> s, token |-> tok, button |-> FALSE]) /\ UNCHANGED claiming
\* reportFit: without the token the hub is asked for it, with it the emulator
\* is fitted first.
reportFit(p) ==
  /\ frame[p] /\ frame' = [frame EXCEPT ![p] = FALSE]
  /\ \/ ~ enabled[p] /\ UNCHANGED <<emul, last>> /\ (IF box[p] # size[p] THEN claimTerminalResize(p, box[p], FALSE) ELSE UNCHANGED <<claiming, calls>>)
     \/ /\ enabled[p] /\ box[p] # emul[p] /\ emul' = [emul EXCEPT ![p] = box[p]] /\ last' = [last EXCEPT ![p] = box[p]]
        /\ IF box[p] # last[p] THEN handleTerminalResize(p, box[p], token[p]) ELSE UNCHANGED <<claiming, calls>>
     \/ enabled[p] /\ box[p] = emul[p] /\ UNCHANGED <<emul, last, claiming, calls>>
  /\ UNCHANGED <<hubSize, hubToken, box, size, token, enabled, due, inbox, overtaken, asked, moves>>
handleClaimTerminalResize(p) ==
  /\ "fit" \in Ops /\ moves < MaxMoves /\ moves' = moves + 1 /\ emul' = [emul EXCEPT ![p] = box[p]] /\ claimTerminalResize(p, box[p], TRUE)
  /\ UNCHANGED <<hubSize, hubToken, box, size, last, token, enabled, frame, due, inbox, overtaken, asked>>
-----------------------------------------------------------------------------
Allowed(p, c) == c.claim \/ c.token = hubToken
\* Resize under the terminal's lock; a goroutine is left to tell the pages.
Resize(p) ==
  /\ calls[p] # <<>> /\ hubToken < MaxTokens /\ calls' = [calls EXCEPT ![p] = Tail(@)]
  /\ \E c \in {Head(calls[p])} :
       IF Allowed(p, c)
       THEN /\ hubSize' = c.size /\ hubToken' = (IF c.claim THEN hubToken + 1 ELSE hubToken) /\ asked' = c.button /\ due' = due + 1
            /\ inbox' = [inbox EXCEPT ![p] = Append(@, [kind |-> "ok", size |-> c.size, token |-> IF c.claim THEN hubToken + 1 ELSE 0])]
       ELSE /\ inbox' = [inbox EXCEPT ![p] = Append(@, [kind |-> "refused", size |-> c.size, token |-> 0])] /\ UNCHANGED <<hubSize, hubToken, asked, due>>
  /\ UNCHANGED <<box, size, emul, last, token, enabled, claiming, frame, overtaken, moves>>
\* The goroutine reads the size when it runs and publishes what it has read.
publishChanged ==
  /\ due > 0 /\ due' = due - 1 /\ inbox' = [q \in Pages |-> Append(inbox[q], [kind |-> "changed", size |-> hubSize, token |-> 0])]
  /\ UNCHANGED <<hubSize, hubToken, box, size, emul, last, token, enabled, claiming, frame, calls, overtaken, asked, moves>>
Without(s, i) == SubSeq(s, 1, i - 1) \o SubSeq(s, i + 1, Len(s))
\* Answers and the events of two goroutines may overtake each other.
Arrives(p, i) == i \in 1..Len(inbox[p]) /\ overtaken' = (overtaken \/ i # 1) /\ inbox' = [inbox EXCEPT ![p] = Without(@, i)] /\ UNCHANGED due
\* The page renders: a new size goes to the emulator, and one that has just
\* become the owner fits itself once.
Rendered(p, s, tok) ==
  /\ size' = [size EXCEPT ![p] = s] /\ enabled' = [enabled EXCEPT ![p] = tok # 0]
  /\ IF tok # 0 /\ ~ enabled[p]
     THEN /\ emul' = [emul EXCEPT ![p] = box[p]] /\ last' = [last EXCEPT ![p] = box[p]]
          /\ IF box[p] # s THEN Call(p, [claim |-> FALSE, size |-> box[p], token |-> tok, button |-> FALSE]) ELSE UNCHANGED calls
     ELSE /\ (IF s # size[p] THEN emul' = [emul EXCEPT ![p] = s] /\ last' = [last EXCEPT ![p] = s] ELSE UNCHANGED <<emul, last>>)
          /\ UNCHANGED calls
\* The answer to a resize, with the token when it was a claim.
Resized(p, i) ==
  /\ Arrives(p, i) /\ \E a \in {inbox[p][i]} :
       /\ a.kind = "ok" /\ \E tok \in {IF a.token # 0 THEN a.token ELSE token[p]} : token' = [token EXCEPT ![p] = tok] /\ Rendered(p, a.size, tok)
       /\ claiming' = (IF a.token # 0 THEN [claiming EXCEPT ![p] = FALSE] ELSE claiming)
  /\ UNCHANGED <<hubSize, hubToken, box, frame, asked, moves>>
\* A refused resize drops the token and claims; the emulator is told at the
\* next rendering only.
Refused(p, i) ==
  /\ Arrives(p, i) /\ \E a \in {inbox[p][i]} : a.kind = "refused" /\ claimTerminalResize(p, a.size, FALSE)
  /\ token' = [token EXCEPT ![p] = 0] /\ UNCHANGED <<hubSize, hubToken, box, size, emul, last, enabled, frame, asked, moves>>
Changed(p, i) ==
  /\ Arrives(p, i) /\ \E a \in {inbox[p][i]} : a.kind = "changed" /\ Rendered(p, a.size, token[p])
  /\ UNCHANGED <<hubSize, hubToken, box, token, claiming, frame, asked, moves>>
\* Something else of the page changes and it renders.
Rerender(p) == enabled[p] # (token[p] # 0) /\ Rendered(p, size[p], token[p]) /\ UNCHANGED <<hubSize, hubToken, box, token, claiming, frame, due, inbox, overtaken, asked, moves>>
-----------------------------------------------------------------------------
Inbox(p) == \E i \in 1..Len(inbox[p]) : Resized(p, i) \/ Refused(p, i) \/ Changed(p, i)
Next ==
  \/ publishChanged
  \/ \E p \in Pages :
       \/ \E s \in Sizes : scheduleFitReport(p, s)
       \/ reportFit(p) \/ handleClaimTerminalResize(p) \/ Resize(p) \/ Inbox(p) \/ Rerender(p)
Spec == Init /\ [][Next]_vars
-----------------------------------------------------------------------------
TypeOK ==
  /\ {hubSize} \union {box[p] : p \in Pages} \union {size[p] : p \in Pages} \union {emul[p] : p \in Pages} \subseteq Sizes
  /\ hubToken \in 1..MaxTokens /\ \A p \in Pages : token[p] \in 0..MaxTokens /\ Len(SelectSeq(calls[p], LAMBDA c : c.claim)) <= 1
Quiet == due = 0 /\ \A p \in Pages : ~ frame[p] /\ calls[p] = <<>> /\ inbox[p] = <<>>

\* The hub never accepts two owners: pages that hold a token hold different
\* ones, however claims and refusals overlap.
OneOwner == \A p, q \in Pages : p # q /\ token[p] # 0 => token[p] # token[q]

\* When nothing is under way every page shows the terminal at the hub's size,
\* unless an answer or event has overtaken an earlier one: however the steps
\* of pages and hub interleave, nothing else leaves a page at another size.
SameSize == Quiet /\ ~ overtaken => \A p \in Pages : size[p] = hubSize

\* When nothing is under way the terminal fits the screen of its owner.
\* Not kept by the code: see the README.
OwnerFits == Quiet => \A p \in Pages : token[p] = hubToken => hubSize = box[p]

\* A page becomes the owner when its user asks for it.
\* Not kept by the code: see the README.
OwnedOnRequest == [][hubToken' # hubToken => asked']_vars
-----------------------------------------------------------------------------
(* Proofs, for any pages, sizes and bounds. *)

ResizeCall == [claim : BOOLEAN, size : Sizes, token : Nat, button : BOOLEAN]
Message == [kind : {"ok", "refused", "changed"}, size : Sizes, token : Nat]

\* The tokens that a page holds or that are on their way to it.
Tokens(s) == {s[i].token : i \in 1..Len(s)}
Held(p) == {token[p]} \union Tokens(inbox[p])

Typed ==
  /\ hubSize \in Sizes /\ hubToken \in Nat \ {0} /\ box \in [Pages -> Sizes] /\ size \in [Pages -> Sizes] /\ token \in [Pages -> Nat]
  /\ calls \in [Pages -> Seq(ResizeCall)] /\ inbox \in [Pages -> Seq(Message)]

\* The hub has given out every token that is held, and none of them twice.
GivenOnce ==
  /\ \A p \in Pages : \A t \in Held(p) : t <= hubToken
  /\ \A p, q \in Pages : p # q => \A t \in Held(p) : t # 0 => t \notin Held(q)

TokensInv == Typed /\ GivenOnce

\* The messages after one.
LEMMA After ==
  ASSUME NEW s \in Seq(Message), NEW i \in 1..Len(s)
  PROVE  /\ SubSeq(s, i + 1, Len(s)) \in Seq(Message) /\ Len(SubSeq(s, i + 1, Len(s))) = Len(s) - i
         /\ \A k \in 1..Len(SubSeq(s, i + 1, Len(s))) : SubSeq(s, i + 1, Len(s))[k] = s[k + i]
<1>1. Len(s) \in Nat /\ i \in Nat /\ i >= 1 /\ i <= Len(s)
  OBVIOUS
<1> QED BY <1>1

\* Taking one message out of a sequence keeps the others.
LEMMA WithoutOne ==
  ASSUME NEW s \in Seq(Message), NEW i \in 1..Len(s)
  PROVE  Without(s, i) \in Seq(Message) /\ Tokens(Without(s, i)) \subseteq Tokens(s)
<1> DEFINE a == SubSeq(s, 1, i - 1)  b == SubSeq(s, i + 1, Len(s))
<1>1. Len(s) \in Nat /\ i \in Nat /\ i >= 1 /\ i <= Len(s)
  OBVIOUS
<1>2. a \in Seq(Message) /\ Len(a) = i - 1 /\ \A k \in 1..Len(a) : a[k] = s[k]
  BY <1>1
<1>3. b \in Seq(Message) /\ Len(b) = Len(s) - i /\ \A k \in 1..Len(b) : b[k] = s[k + i]
  BY After
<1>4. Without(s, i) = a \o b
  BY DEF Without
<1> HIDE DEF a, b
<1>5. a \o b \in Seq(Message) /\ Len(a \o b) = Len(a) + Len(b)
  <2>1. a \in Seq(Message) /\ b \in Seq(Message)
    BY <1>2, <1>3
  <2> QED BY <2>1
<1>6. ASSUME NEW k \in 1..Len(a \o b) PROVE \E j \in 1..Len(s) : (a \o b)[k] = s[j]
  <2>1. CASE k <= i - 1
    <3>1. k \in 1..Len(a) /\ k \in 1..Len(s) /\ (a \o b)[k] = a[k]
      BY <1>1, <1>2, <1>3, <1>5, <2>1
    <3> QED BY <1>2, <3>1
  <2>2. CASE k > i - 1
    <3>1. k - Len(a) \in 1..Len(b) /\ (a \o b)[k] = b[k - Len(a)] /\ (k - Len(a)) + i \in 1..Len(s)
      BY <1>1, <1>2, <1>3, <1>5, <2>2
    <3> QED BY <1>3, <3>1
  <2> QED BY <1>1, <1>5, <2>1, <2>2
<1>7. Tokens(a \o b) \subseteq Tokens(s)
  BY <1>6 DEF Tokens
<1> QED BY <1>4, <1>5, <1>7

\* One more message adds its token.
LEMMA OneMore ==
  ASSUME NEW s \in Seq(Message), NEW m \in Message
  PROVE  /\ Append(s, m) \in Seq(Message) /\ Tokens(Append(s, m)) \subseteq Tokens(s) \union {m.token}
         /\ s \o <<m>> = Append(s, m)
<1>1. Len(s) \in Nat /\ Append(s, m) \in Seq(Message) /\ Len(Append(s, m)) = Len(s) + 1
  OBVIOUS
<1>2. \A k \in 1..Len(Append(s, m)) : Append(s, m)[k] = (IF k = Len(s) + 1 THEN m ELSE s[k])
  BY <1>1
<1>3. ASSUME NEW k \in 1..Len(Append(s, m)) PROVE Append(s, m)[k].token \in Tokens(s) \union {m.token}
  <2>1. CASE k = Len(s) + 1
    BY <1>2, <2>1
  <2>2. CASE k # Len(s) + 1
    <3>1. k \in 1..Len(s) /\ Append(s, m)[k] = s[k]
      BY <1>1, <1>2, <2>2
    <3> QED BY <3>1 DEF Tokens
  <2> QED BY <2>1, <2>2
<1>4. Tokens(Append(s, m)) \subseteq Tokens(s) \union {m.token}
  BY <1>3 DEF Tokens
<1>5. s \o <<m>> = Append(s, m)
  OBVIOUS
<1> QED BY <1>1, <1>4, <1>5

\* Tokens are numbers.
LEMMA HeldAreNumbers ==
  ASSUME Typed, NEW p \in Pages
  PROVE  \A t \in Held(p) : t \in Nat
<1>1. token[p] \in Nat /\ inbox[p] \in Seq(Message)
  BY DEF Typed
<1>2. \A i \in 1..Len(inbox[p]) : inbox[p][i] \in Message
  BY <1>1
<1> QED BY <1>1, <1>2 DEF Held, Tokens, Message

\* A step in which no page comes to hold a token keeps the invariant.
LEMMA NothingGained ==
  ASSUME TokensInv, hubToken' = hubToken, \A p \in Pages : Held(p)' \subseteq Held(p) \union {0}
  PROVE  GivenOnce'
BY DEF TokensInv, Typed, GivenOnce

\* A claim that is granted gives its page a token nobody holds.
LEMMA OneGained ==
  ASSUME TokensInv, hubToken' = hubToken + 1, NEW p \in Pages,
         Held(p)' \subseteq Held(p) \union {0, hubToken'},
         \A q \in Pages : q # p => Held(q)' \subseteq Held(q) \union {0}
  PROVE  GivenOnce'
<1>1. hubToken \in Nat /\ \A q \in Pages : \A t \in Held(q) : t \in Nat /\ t <= hubToken
  BY HeldAreNumbers DEF TokensInv, Typed, GivenOnce
<1>2. \A q \in Pages : \A t \in Held(q)' : t = 0 \/ (t = hubToken + 1 /\ q = p) \/ t \in Held(q)
  OBVIOUS
<1>3. \A q \in Pages : \A t \in Held(q)' : t <= hubToken'
  BY <1>1, <1>2
<1>4. ASSUME NEW q \in Pages, NEW r \in Pages, q # r, NEW t \in Held(q)', t # 0
      PROVE  t \notin Held(r)'
  <2>1. CASE t = hubToken + 1 /\ q = p
    <3>1. \A u \in Held(r)' : u = 0 \/ u \in Held(r)
      BY <1>2, <1>4, <2>1
    <3> QED BY <1>1, <1>4, <2>1, <3>1
  <2>2. CASE t \in Held(q)
    <3>1. t \notin Held(r) /\ t # hubToken + 1
      BY <1>1, <1>4, <2>2 DEF TokensInv, GivenOnce
    <3> QED BY <1>2, <1>4, <3>1
  <2> QED BY <1>2, <1>4, <2>1, <2>2
<1> QED BY <1>3, <1>4 DEF GivenOnce

\* A call that is sent is a call.
LEMMA CallSent ==
  ASSUME Typed, NEW p \in Pages, NEW c \in ResizeCall, Call(p, c)
  PROVE  calls' \in [Pages -> Seq(ResizeCall)]
<1>1. calls \in [Pages -> Seq(ResizeCall)] /\ calls' = [calls EXCEPT ![p] = Append(calls[p], c)]
  BY DEF Typed, Call
<1> QED BY <1>1

\* A claim carries no token.
LEMMA ClaimSent ==
  ASSUME Typed, NEW p \in Pages, NEW s \in Sizes, NEW b \in BOOLEAN, claimTerminalResize(p, s, b)
  PROVE  calls' \in [Pages -> Seq(ResizeCall)]
<1>1. [claim |-> TRUE, size |-> s, token |-> 0, button |-> b] \in ResizeCall
  BY DEF ResizeCall
<1> QED BY <1>1, CallSent DEF claimTerminalResize, Typed

\* Nor does what a rendering sends harm the types.
LEMMA RenderedTypes ==
  ASSUME Typed, NEW p \in Pages, NEW s \in Sizes, NEW tok \in Nat, Rendered(p, s, tok)
  PROVE  size' \in [Pages -> Sizes] /\ calls' \in [Pages -> Seq(ResizeCall)]
<1>1. box[p] \in Sizes /\ size' = [size EXCEPT ![p] = s] /\ size \in [Pages -> Sizes]
  BY DEF Typed, Rendered
<1>2. [claim |-> FALSE, size |-> box[p], token |-> tok, button |-> FALSE] \in ResizeCall
  BY <1>1 DEF ResizeCall
<1>3. \/ calls' = calls
      \/ Call(p, [claim |-> FALSE, size |-> box[p], token |-> tok, button |-> FALSE])
  BY DEF Rendered
<1>4. size' \in [Pages -> Sizes]
  BY <1>1
<1>5. calls' \in [Pages -> Seq(ResizeCall)]
  BY <1>2, <1>3, CallSent DEF Typed
<1> QED BY <1>4, <1>5

\* The steps that neither give nor deliver anything.
LEMMA QuietStep ==
  ASSUME TokensInv, hubSize' = hubSize, hubToken' = hubToken, token' = token, inbox' = inbox,
         box' \in [Pages -> Sizes], size' \in [Pages -> Sizes], calls' \in [Pages -> Seq(ResizeCall)]
  PROVE  TokensInv'
<1>1. Typed'
  BY DEF TokensInv, Typed
<1>2. \A p \in Pages : Held(p)' = Held(p)
  BY DEF Held
<1> QED BY <1>1, <1>2, NothingGained DEF TokensInv

\* The steps of a page that answers nothing.
LEMMA PageStep ==
  ASSUME TokensInv, NEW p \in Pages,
         \/ \E s \in Sizes : scheduleFitReport(p, s)
         \/ reportFit(p) \/ handleClaimTerminalResize(p) \/ Rerender(p)
  PROVE  TokensInv'
<1>1. /\ box \in [Pages -> Sizes] /\ size \in [Pages -> Sizes] /\ token[p] \in Nat
      /\ calls \in [Pages -> Seq(ResizeCall)] /\ box[p] \in Sizes /\ size[p] \in Sizes
  BY DEF TokensInv, Typed
<1>2. ASSUME NEW s \in Sizes, scheduleFitReport(p, s) PROVE TokensInv'
  <2>1. /\ box' = [box EXCEPT ![p] = s] /\ size' = size /\ calls' = calls
        /\ hubSize' = hubSize /\ hubToken' = hubToken /\ token' = token /\ inbox' = inbox
    BY <1>2 DEF scheduleFitReport
  <2>2. box' \in [Pages -> Sizes]
    BY <1>1, <2>1
  <2> QED BY <1>1, <2>1, <2>2, QuietStep
<1>3. CASE reportFit(p)
  <2>1. hubSize' = hubSize /\ hubToken' = hubToken /\ box' = box /\ size' = size /\ token' = token /\ inbox' = inbox
    BY <1>3 DEF reportFit
  <2>2. \/ calls' = calls
        \/ claimTerminalResize(p, box[p], FALSE)
        \/ Call(p, [claim |-> FALSE, size |-> box[p], token |-> token[p], button |-> FALSE])
    BY <1>3 DEF reportFit, handleTerminalResize
  <2>3. [claim |-> FALSE, size |-> box[p], token |-> token[p], button |-> FALSE] \in ResizeCall
    BY <1>1 DEF ResizeCall
  <2>4. calls' \in [Pages -> Seq(ResizeCall)]
    BY <1>1, <2>2, <2>3, CallSent, ClaimSent DEF TokensInv
  <2> QED BY <1>1, <2>1, <2>4, QuietStep
<1>4. CASE handleClaimTerminalResize(p)
  <2>1. /\ hubSize' = hubSize /\ hubToken' = hubToken /\ box' = box /\ size' = size /\ token' = token /\ inbox' = inbox
        /\ claimTerminalResize(p, box[p], TRUE)
    BY <1>4 DEF handleClaimTerminalResize
  <2>2. calls' \in [Pages -> Seq(ResizeCall)]
    BY <1>1, <2>1, ClaimSent DEF TokensInv
  <2> QED BY <1>1, <2>1, <2>2, QuietStep
<1>5. CASE Rerender(p)
  <2>1. /\ hubSize' = hubSize /\ hubToken' = hubToken /\ box' = box /\ token' = token /\ inbox' = inbox
        /\ Rendered(p, size[p], token[p])
    BY <1>5 DEF Rerender
  <2>2. size' \in [Pages -> Sizes] /\ calls' \in [Pages -> Seq(ResizeCall)]
    BY <1>1, <2>1, RenderedTypes DEF TokensInv
  <2> QED BY <1>1, <2>1, <2>2, QuietStep
<1> QED BY <1>2, <1>3, <1>4, <1>5

\* The goroutine of a resize tells every page, and gives no token.
LEMMA PublishStep ==
  ASSUME TokensInv, publishChanged
  PROVE  TokensInv'
<1> DEFINE told == [kind |-> "changed", size |-> hubSize, token |-> 0]
<1>1. /\ hubSize' = hubSize /\ hubToken' = hubToken /\ box' = box /\ size' = size /\ token' = token /\ calls' = calls
      /\ inbox' = [q \in Pages |-> Append(inbox[q], told)]
  BY DEF publishChanged
<1>2. told \in Message /\ told.token = 0
  BY DEF TokensInv, Typed, Message
<1> HIDE DEF told
<1>3. \A q \in Pages : /\ inbox'[q] = Append(inbox[q], told) /\ Append(inbox[q], told) \in Seq(Message)
                       /\ Tokens(Append(inbox[q], told)) \subseteq Tokens(inbox[q]) \union {0}
  BY <1>1, <1>2, OneMore DEF TokensInv, Typed
<1>4. \A q \in Pages : Held(q)' \subseteq Held(q) \union {0}
  BY <1>1, <1>3 DEF Held
<1>5. Typed'
  BY <1>1, <1>3 DEF TokensInv, Typed
<1> QED BY <1>1, <1>4, <1>5, NothingGained DEF TokensInv

\* The hub resizes, with a fresh token for a claim, or refuses.
LEMMA ResizeStep ==
  ASSUME TokensInv, NEW p \in Pages, Resize(p)
  PROVE  TokensInv'
<1> DEFINE c == Head(calls[p])
           tok == IF c.claim THEN hubToken + 1 ELSE 0
           ok == [kind |-> "ok", size |-> c.size, token |-> tok]
           no == [kind |-> "refused", size |-> c.size, token |-> 0]
<1>1. /\ calls[p] # <<>> /\ calls' = [calls EXCEPT ![p] = Tail(calls[p])] /\ box' = box /\ size' = size /\ token' = token
  BY DEF Resize
<1>2. \/ /\ hubSize' = c.size /\ hubToken' = (IF c.claim THEN hubToken + 1 ELSE hubToken)
         /\ inbox' = [inbox EXCEPT ![p] = Append(inbox[p], ok)]
      \/ hubSize' = hubSize /\ hubToken' = hubToken /\ inbox' = [inbox EXCEPT ![p] = Append(inbox[p], no)]
  BY DEF Resize
<1>3. calls[p] \in Seq(ResizeCall) /\ calls \in [Pages -> Seq(ResizeCall)] /\ hubToken \in Nat \ {0} /\ hubSize \in Sizes
  BY DEF TokensInv, Typed
<1>4. c \in ResizeCall /\ calls' \in [Pages -> Seq(ResizeCall)]
  BY <1>1, <1>3
<1>5. c.size \in Sizes
  BY <1>4 DEF ResizeCall
<1> HIDE DEF c
<1>6. tok \in Nat
  BY <1>3
<1> HIDE DEF tok
<1>7. ok \in Message /\ ok.token = tok /\ no \in Message /\ no.token = 0
  BY <1>5, <1>6 DEF Message
<1> HIDE DEF no, ok
<1>8. \A q \in Pages : inbox[q] \in Seq(Message)
  BY DEF TokensInv, Typed
<1>9. CASE hubSize' = hubSize /\ hubToken' = hubToken /\ inbox' = [inbox EXCEPT ![p] = Append(inbox[p], no)]
  <2>1. \A q \in Pages : inbox'[q] = (IF q = p THEN Append(inbox[p], no) ELSE inbox[q])
    BY <1>9 DEF TokensInv, Typed
  <2>2. Append(inbox[p], no) \in Seq(Message) /\ Tokens(Append(inbox[p], no)) \subseteq Tokens(inbox[p]) \union {0}
    BY <1>7, <1>8, OneMore
  <2>3. inbox' \in [Pages -> Seq(Message)]
    BY <1>9, <2>2 DEF TokensInv, Typed
  <2>4. \A q \in Pages : Held(q)' \subseteq Held(q) \union {0}
    BY <1>1, <2>1, <2>2 DEF Held
  <2>5. Typed'
    BY <1>1, <1>4, <1>9, <2>3 DEF TokensInv, Typed
  <2> QED BY <1>9, <2>4, <2>5, NothingGained DEF TokensInv
<1>10. CASE /\ hubSize' = c.size /\ hubToken' = (IF c.claim THEN hubToken + 1 ELSE hubToken)
            /\ inbox' = [inbox EXCEPT ![p] = Append(inbox[p], ok)]
  <2>1. \A q \in Pages : inbox'[q] = (IF q = p THEN Append(inbox[p], ok) ELSE inbox[q])
    BY <1>10 DEF TokensInv, Typed
  <2>2. Append(inbox[p], ok) \in Seq(Message) /\ Tokens(Append(inbox[p], ok)) \subseteq Tokens(inbox[p]) \union {tok}
    BY <1>7, <1>8, OneMore
  <2>4. inbox' \in [Pages -> Seq(Message)]
    BY <1>10, <2>2 DEF TokensInv, Typed
  <2>5. \A q \in Pages : Held(q)' \subseteq Held(q) \union (IF q = p THEN {0, tok} ELSE {0})
    BY <1>1, <2>1, <2>2 DEF Held
  <2>6. hubToken' \in Nat \ {0}
    BY <1>3, <1>10
  <2>7. Typed'
    BY <1>1, <1>4, <1>5, <1>10, <2>4, <2>6 DEF TokensInv, Typed
  <2>8. CASE c.claim
    <3>1. hubToken' = hubToken + 1 /\ tok = hubToken'
      BY <1>10, <2>8 DEF tok
    <3> QED BY <2>5, <2>7, <3>1, OneGained DEF TokensInv
  <2>9. CASE ~ c.claim
    <3>1. hubToken' = hubToken /\ tok = 0
      BY <1>10, <2>9 DEF tok
    <3> QED BY <2>5, <2>7, <3>1, NothingGained DEF TokensInv
  <2> QED BY <2>8, <2>9
<1> QED BY <1>2, <1>9, <1>10

\* What arrives leaves the inbox.
LEMMA ArrivesStep ==
  ASSUME TokensInv, NEW p \in Pages, NEW i, Arrives(p, i)
  PROVE  /\ inbox' \in [Pages -> Seq(Message)] /\ inbox[p][i] \in Message /\ inbox[p][i].token \in Tokens(inbox[p])
         /\ \A q \in Pages : Tokens(inbox'[q]) \subseteq Tokens(inbox[q])
<1>1. inbox \in [Pages -> Seq(Message)] /\ inbox[p] \in Seq(Message)
  BY DEF TokensInv, Typed
<1>2. i \in 1..Len(inbox[p]) /\ inbox' = [inbox EXCEPT ![p] = Without(inbox[p], i)]
  BY DEF Arrives
<1>3. Without(inbox[p], i) \in Seq(Message) /\ Tokens(Without(inbox[p], i)) \subseteq Tokens(inbox[p])
  BY <1>1, <1>2, WithoutOne
<1>4. inbox[p][i] \in Message /\ inbox[p][i].token \in Tokens(inbox[p])
  BY <1>1, <1>2 DEF Tokens
<1> QED BY <1>1, <1>2, <1>3, <1>4

\* A page handles an answer or an event.
LEMMA InboxStep ==
  ASSUME TokensInv, NEW p \in Pages, NEW i, Resized(p, i) \/ Refused(p, i) \/ Changed(p, i)
  PROVE  TokensInv'
<1> DEFINE a == inbox[p][i]
<1>1. Arrives(p, i) /\ hubSize' = hubSize /\ hubToken' = hubToken /\ box' = box
  BY DEF Resized, Refused, Changed
<1>2. /\ inbox' \in [Pages -> Seq(Message)] /\ a \in Message /\ a.token \in Tokens(inbox[p])
      /\ \A q \in Pages : Tokens(inbox'[q]) \subseteq Tokens(inbox[q])
  BY <1>1, ArrivesStep
<1>3. a.size \in Sizes /\ a.token \in Nat /\ token \in [Pages -> Nat] /\ token[p] \in Nat
  BY <1>2 DEF Message, TokensInv, Typed
<1>4. /\ size' \in [Pages -> Sizes] /\ calls' \in [Pages -> Seq(ResizeCall)] /\ token' \in [Pages -> Nat]
      /\ \A q \in Pages : token'[q] \in {0, token[q]} \/ (q = p /\ token'[q] = a.token)
  <2>1. CASE Resized(p, i)
    <3> DEFINE tok == IF a.token # 0 THEN a.token ELSE token[p]
    <3>1. token' = [token EXCEPT ![p] = tok] /\ Rendered(p, a.size, tok)
      BY <2>1 DEF Resized
    <3>2. tok \in Nat /\ tok \in {token[p], a.token}
      BY <1>3
    <3> HIDE DEF tok, a
    <3>3. size' \in [Pages -> Sizes] /\ calls' \in [Pages -> Seq(ResizeCall)]
      BY <1>3, <3>1, <3>2, RenderedTypes DEF TokensInv
    <3> QED BY <1>3, <3>1, <3>2, <3>3
  <2>2. CASE Refused(p, i)
    <3>1. token' = [token EXCEPT ![p] = 0] /\ size' = size /\ claimTerminalResize(p, a.size, FALSE)
      BY <2>2 DEF Refused
    <3> HIDE DEF a
    <3>2. calls' \in [Pages -> Seq(ResizeCall)]
      BY <1>3, <3>1, ClaimSent DEF TokensInv
    <3> QED BY <1>3, <3>1, <3>2 DEF TokensInv, Typed
  <2>3. CASE Changed(p, i)
    <3>1. token' = token /\ Rendered(p, a.size, token[p])
      BY <2>3 DEF Changed
    <3> HIDE DEF a
    <3> QED BY <1>3, <3>1, RenderedTypes DEF TokensInv
  <2> QED BY <2>1, <2>2, <2>3
<1> HIDE DEF a
<1>5. Typed'
  BY <1>1, <1>2, <1>4 DEF TokensInv, Typed
<1>6. \A q \in Pages : Held(q)' \subseteq Held(q) \union {0}
  BY <1>2, <1>4 DEF Held
<1> QED BY <1>1, <1>5, <1>6, NothingGained DEF TokensInv

\* The creator holds the only token.
LEMMA TokensInit ==
  Init => TokensInv
<1> SUFFICES ASSUME Init PROVE TokensInv
  OBVIOUS
<1>1. PICK s \in Sizes, creator \in Pages :
        /\ hubSize = s /\ size = [p \in Pages |-> s] /\ token = [p \in Pages |-> IF p = creator THEN 1 ELSE 0] /\ box \in [Pages -> Sizes]
  BY DEF Init
<1>2. hubToken = 1 /\ calls = [p \in Pages |-> <<>>] /\ inbox = [p \in Pages |-> <<>>]
  BY DEF Init
<1>3. Typed
  BY <1>1, <1>2 DEF Typed
<1>4. \A p \in Pages : Held(p) = {token[p]}
  BY <1>2 DEF Held, Tokens
<1>5. GivenOnce
  BY <1>1, <1>2, <1>4 DEF GivenOnce
<1> QED BY <1>3, <1>5 DEF TokensInv

\* The hub gave out every token that is held or under way, and none twice.
THEOREM TokensInvariance ==
  Spec => []TokensInv
<1>1. ASSUME TokensInv, [Next]_vars
      PROVE  TokensInv'
  <2>1. CASE UNCHANGED vars
    BY <1>1, <2>1 DEF vars, TokensInv, Typed, GivenOnce, Held
  <2>2. CASE Next /\ ~ publishChanged
    <3>1. PICK p \in Pages :
            \/ \E s \in Sizes : scheduleFitReport(p, s)
            \/ reportFit(p) \/ handleClaimTerminalResize(p) \/ Resize(p) \/ Inbox(p) \/ Rerender(p)
      BY <2>2 DEF Next
    <3>2. CASE Inbox(p)
      BY <1>1, <3>2, InboxStep DEF Inbox
    <3> QED BY <1>1, <3>1, <3>2, PageStep, ResizeStep
  <2> QED BY <1>1, <2>1, <2>2, PublishStep
<1> QED BY <1>1, TokensInit, PTL DEF Spec

\* Two pages never hold the same token, in whatever order claims, refusals,
\* answers and events of any number of pages reach the hub and the pages.
THEOREM OneOwnerAlways ==
  Spec => []OneOwner
<1>1. TokensInv => OneOwner
  BY DEF TokensInv, GivenOnce, Held, OneOwner
<1> QED BY <1>1, TokensInvariance, PTL
-----------------------------------------------------------------------------
(* The size that every page comes to show. *)

\* A page that shows size x shows size h once the messages s have arrived.
Shows(s, x, h) ==
  \/ \E k \in 1..Len(s) : /\ s[k].kind # "refused" /\ s[k].size = h
                          /\ \A j \in 1..Len(s) : j > k => s[j].kind = "refused"
  \/ (\A k \in 1..Len(s) : s[k].kind = "refused") /\ x = h

\* As long as nothing has been overtaken, what is on its way to a page leads to
\* the size of the hub, or the hub has yet to tell it.
SizesInv == due = 0 /\ ~ overtaken => \A p \in Pages : Shows(inbox[p], size[p], hubSize)
DueInv == due \in Nat

\* The last message decides.
LEMMA ShowsNews ==
  ASSUME NEW s \in Seq(Message), NEW m \in Message, m.kind # "refused", NEW x
  PROVE  Shows(Append(s, m), x, m.size)
<1>1. Len(s) \in Nat /\ Len(Append(s, m)) = Len(s) + 1 /\ Append(s, m)[Len(s) + 1] = m
  OBVIOUS
<1>2. Len(s) + 1 \in 1..Len(Append(s, m)) /\ \A j \in 1..Len(Append(s, m)) : ~ (j > Len(s) + 1)
  BY <1>1
<1> QED BY <1>1, <1>2 DEF Shows

\* A refusal does not change what is shown.
LEMMA ShowsRefusal ==
  ASSUME NEW s \in Seq(Message), NEW m \in Message, m.kind = "refused", NEW x, NEW h, Shows(s, x, h)
  PROVE  Shows(Append(s, m), x, h)
<1> DEFINE t == Append(s, m)
<1>1. Len(s) \in Nat /\ Len(t) = Len(s) + 1 /\ t[Len(s) + 1] = m /\ \A k \in 1..Len(s) : t[k] = s[k]
  OBVIOUS
<1> HIDE DEF t
<1>2. \A k \in 1..Len(t) : k = Len(s) + 1 \/ k \in 1..Len(s)
  BY <1>1
<1>3. ASSUME \A k \in 1..Len(s) : s[k].kind = "refused", x = h
      PROVE  Shows(t, x, h)
  BY <1>1, <1>2, <1>3 DEF Shows
<1>4. ASSUME NEW k \in 1..Len(s), s[k].kind # "refused", s[k].size = h,
             \A j \in 1..Len(s) : j > k => s[j].kind = "refused"
      PROVE  Shows(t, x, h)
  <2>1. k \in 1..Len(t) /\ t[k] = s[k]
    BY <1>1
  <2>2. \A j \in 1..Len(t) : j > k => t[j].kind = "refused"
    BY <1>1, <1>2, <1>4
  <2> QED BY <1>4, <2>1, <2>2 DEF Shows
<1>5. Shows(t, x, h)
  <2>1. CASE (\A k \in 1..Len(s) : s[k].kind = "refused") /\ x = h
    BY <1>3, <2>1
  <2>2. CASE \E k \in 1..Len(s) : /\ s[k].kind # "refused" /\ s[k].size = h
                                  /\ \A j \in 1..Len(s) : j > k => s[j].kind = "refused"
    BY <1>4, <2>2
  <2> QED BY <2>1, <2>2 DEF Shows
<1> QED BY <1>5 DEF t

\* The first message arrives.
LEMMA ShowsNext ==
  ASSUME NEW s \in Seq(Message), NEW i \in 1..Len(s), i = 1, NEW x, NEW y, NEW h, Shows(s, x, h),
         y = IF s[1].kind = "refused" THEN x ELSE s[1].size
  PROVE  Shows(Without(s, i), y, h)
<1> DEFINE t == Without(s, i)  b == SubSeq(s, i + 1, Len(s))
<1>1. Len(s) \in Nat /\ Len(s) >= 1
  OBVIOUS
<1>2. b \in Seq(Message) /\ Len(b) = Len(s) - i /\ \A k \in 1..Len(b) : b[k] = s[k + i]
  BY After
<1>3. t = b
  <2>1. SubSeq(s, 1, i - 1) = <<>>
    BY <1>1
  <2>2. t = <<>> \o b
    BY <2>1 DEF Without
  <2> HIDE DEF t, b
  <2> QED BY <1>2, <2>2
<1> HIDE DEF t, b
<1>4. Len(t) = Len(s) - 1 /\ \A k \in 1..Len(t) : t[k] = s[k + 1]
  BY <1>2, <1>3
<1>5. \A k \in 1..Len(t) : k + 1 \in 1..Len(s) /\ k + 1 > 1
  BY <1>1, <1>4
<1>6. ASSUME \A k \in 1..Len(s) : s[k].kind = "refused", x = h
      PROVE  Shows(t, y, h)
  <2>1. y = h
    BY <1>1, <1>6
  <2>2. \A k \in 1..Len(t) : t[k].kind = "refused"
    BY <1>4, <1>5, <1>6
  <2> QED BY <2>1, <2>2 DEF Shows
<1>7. ASSUME NEW k \in 1..Len(s), s[k].kind # "refused", s[k].size = h,
             \A j \in 1..Len(s) : j > k => s[j].kind = "refused"
      PROVE  Shows(t, y, h)
  <2>1. CASE k = 1
    <3>1. y = h
      BY <1>7, <2>1
    <3>2. \A j \in 1..Len(t) : t[j].kind = "refused"
      BY <1>4, <1>5, <1>7, <2>1
    <3> QED BY <3>1, <3>2 DEF Shows
  <2>2. CASE k # 1
    <3>1. k - 1 \in 1..Len(t) /\ (k - 1) + 1 = k
      BY <1>1, <1>4, <2>2
    <3>2. t[k - 1] = s[k]
      BY <1>4, <3>1
    <3>3. \A j \in 1..Len(t) : j > k - 1 => j + 1 \in 1..Len(s) /\ j + 1 > k
      BY <1>1, <1>4, <3>1
    <3>4. \A j \in 1..Len(t) : j > k - 1 => t[j].kind = "refused"
      BY <1>4, <1>7, <3>3
    <3> QED BY <1>7, <3>1, <3>2, <3>4 DEF Shows
  <2> QED BY <2>1, <2>2
<1>8. Shows(t, y, h)
  <2>1. CASE (\A k \in 1..Len(s) : s[k].kind = "refused") /\ x = h
    BY <1>6, <2>1
  <2>2. CASE \E k \in 1..Len(s) : /\ s[k].kind # "refused" /\ s[k].size = h
                                  /\ \A j \in 1..Len(s) : j > k => s[j].kind = "refused"
    BY <1>7, <2>2
  <2> QED BY <2>1, <2>2 DEF Shows
<1> QED BY <1>8 DEF t

\* The goroutine that runs last tells every page the size of the hub.
LEMMA SizesTold ==
  ASSUME TokensInv, publishChanged
  PROVE  SizesInv'
<1> DEFINE told == [kind |-> "changed", size |-> hubSize, token |-> 0]
<1>1. hubSize' = hubSize /\ size' = size /\ inbox' = [q \in Pages |-> Append(inbox[q], told)]
  BY DEF publishChanged
<1>2. told \in Message /\ told.kind # "refused" /\ told.size = hubSize
  BY DEF TokensInv, Typed, Message
<1> HIDE DEF told
<1> SUFFICES ASSUME NEW q \in Pages PROVE Shows(inbox'[q], size'[q], hubSize')
  BY DEF SizesInv
<1>3. inbox[q] \in Seq(Message) /\ inbox'[q] = Append(inbox[q], told)
  BY <1>1 DEF TokensInv, Typed
<1>4. Shows(Append(inbox[q], told), size'[q], told.size)
  BY <1>2, <1>3, ShowsNews
<1> QED BY <1>1, <1>2, <1>3, <1>4

\* A refusal changes no size, and after any other resize a goroutine is due.
LEMMA SizesAtHub ==
  ASSUME TokensInv, SizesInv, DueInv, NEW p \in Pages, Resize(p)
  PROVE  SizesInv' /\ DueInv'
<1> DEFINE c == Head(calls[p])
           no == [kind |-> "refused", size |-> c.size, token |-> 0]
<1>1. \/ due' = due + 1
      \/ /\ hubSize' = hubSize /\ due' = due /\ overtaken' = overtaken /\ size' = size
         /\ inbox' = [inbox EXCEPT ![p] = Append(inbox[p], no)]
  BY DEF Resize
<1>2. DueInv'
  BY <1>1 DEF DueInv
<1>3. CASE due' = due + 1
  <2>1. due' # 0
    BY <1>3 DEF DueInv
  <2> QED BY <1>2, <2>1 DEF SizesInv
<1>4. CASE /\ hubSize' = hubSize /\ due' = due /\ overtaken' = overtaken /\ size' = size
           /\ inbox' = [inbox EXCEPT ![p] = Append(inbox[p], no)]
  <2> SUFFICES ASSUME due = 0, ~ overtaken, NEW q \in Pages PROVE Shows(inbox'[q], size'[q], hubSize')
    BY <1>2, <1>4 DEF SizesInv
  <2>1. calls[p] # <<>> /\ calls[p] \in Seq(ResizeCall) /\ \A r \in Pages : inbox[r] \in Seq(Message)
    BY DEF TokensInv, Typed, Resize
  <2>2. c \in ResizeCall
    BY <2>1
  <2>3. no \in Message /\ no.kind = "refused"
    BY <2>2 DEF ResizeCall, Message
  <2> HIDE DEF no, c
  <2>4. inbox'[q] = (IF q = p THEN Append(inbox[p], no) ELSE inbox[q]) /\ Shows(inbox[q], size[q], hubSize)
    BY <1>4 DEF TokensInv, Typed, SizesInv
  <2>5. CASE q = p
    <3>1. Shows(Append(inbox[q], no), size[q], hubSize)
      BY <2>1, <2>3, <2>4, ShowsRefusal
    <3> QED BY <1>4, <2>4, <2>5, <3>1
  <2> QED BY <1>4, <2>4, <2>5
<1> QED BY <1>1, <1>3, <1>4

\* A page renders the size of every answer and event, a refusal aside.
LEMMA SizesAtPage ==
  ASSUME TokensInv, SizesInv, NEW p \in Pages, NEW i, due = 0, ~ overtaken', Resized(p, i) \/ Refused(p, i) \/ Changed(p, i)
  PROVE  \A q \in Pages : Shows(inbox'[q], size'[q], hubSize')
<1> DEFINE a == inbox[p][1]  y == IF a.kind = "refused" THEN size[p] ELSE a.size
<1>1. Arrives(p, i) /\ hubSize' = hubSize
  BY DEF Resized, Refused, Changed
<1>2. i = 1 /\ ~ overtaken /\ 1 \in 1..Len(inbox[p]) /\ inbox' = [inbox EXCEPT ![p] = Without(inbox[p], 1)]
  BY <1>1 DEF Arrives
<1>3. /\ inbox \in [Pages -> Seq(Message)] /\ size \in [Pages -> Sizes] /\ inbox[p] \in Seq(Message)
  BY DEF TokensInv, Typed
<1>4. size' = [size EXCEPT ![p] = y]
  <2>1. CASE Resized(p, i)
    <3>1. a.kind = "ok" /\ size' = [size EXCEPT ![p] = a.size]
      BY <1>2, <2>1 DEF Resized, Rendered
    <3> QED BY <3>1
  <2>2. CASE Refused(p, i)
    <3>1. a.kind = "refused" /\ size' = size
      BY <1>2, <2>2 DEF Refused
    <3> QED BY <1>3, <3>1
  <2>3. CASE Changed(p, i)
    <3>1. a.kind = "changed" /\ size' = [size EXCEPT ![p] = a.size]
      BY <1>2, <2>3 DEF Changed, Rendered
    <3> QED BY <3>1
  <2> QED BY <2>1, <2>2, <2>3
<1> HIDE DEF y
<1>5. Shows(Without(inbox[p], 1), y, hubSize)
  BY <1>2, <1>3, ShowsNext DEF SizesInv, y
<1> SUFFICES ASSUME NEW q \in Pages PROVE Shows(inbox'[q], size'[q], hubSize')
  OBVIOUS
<1>6. inbox'[q] = (IF q = p THEN Without(inbox[p], 1) ELSE inbox[q]) /\ size'[q] = (IF q = p THEN y ELSE size[q])
  BY <1>2, <1>3, <1>4
<1>7. Shows(inbox[q], size[q], hubSize)
  BY <1>2 DEF SizesInv
<1> QED BY <1>1, <1>5, <1>6, <1>7

\* However the steps of any number of pages and the goroutines of the hub
\* interleave, a page at rest shows another size than the hub only after an
\* answer or event has overtaken an earlier one.
THEOREM SameSizeAlways ==
  Spec => []SameSize
<1> DEFINE I == SizesInv /\ DueInv
<1>1. Init => I
  <2> SUFFICES ASSUME Init PROVE (\A p \in Pages : Shows(inbox[p], size[p], hubSize)) /\ due = 0
    BY DEF SizesInv, DueInv
  <2> SUFFICES ASSUME NEW p \in Pages PROVE Shows(inbox[p], size[p], hubSize)
    BY DEF Init
  <2>1. inbox[p] = <<>> /\ size[p] = hubSize
    BY DEF Init
  <2> QED BY <2>1 DEF Shows
<1>2. ASSUME TokensInv, I, [Next]_vars
      PROVE  I'
  <2>1. ASSUME inbox' = inbox, size' = size, hubSize' = hubSize, due' = due, overtaken' = overtaken PROVE I'
    BY <1>2, <2>1 DEF SizesInv, DueInv
  <2>2. CASE publishChanged
    <3>1. DueInv'
      BY <1>2, <2>2 DEF publishChanged, DueInv
    <3> QED BY <1>2, <2>2, <3>1, SizesTold
  <2>3. CASE Next /\ ~ publishChanged
    <3>1. PICK p \in Pages :
            \/ \E s \in Sizes : scheduleFitReport(p, s)
            \/ reportFit(p) \/ handleClaimTerminalResize(p) \/ Resize(p) \/ Inbox(p) \/ Rerender(p)
      BY <2>3 DEF Next
    <3>2. CASE Inbox(p)
      <4>1. PICK i \in 1..Len(inbox[p]) : Resized(p, i) \/ Refused(p, i) \/ Changed(p, i)
        BY <3>2 DEF Inbox
      <4>2. due' = due
        BY <4>1 DEF Resized, Refused, Changed, Arrives
      <4>3. due = 0 /\ ~ overtaken' => \A q \in Pages : Shows(inbox'[q], size'[q], hubSize')
        BY <1>2, <4>1, SizesAtPage
      <4> QED BY <1>2, <4>2, <4>3 DEF SizesInv, DueInv
    <3>3. CASE Resize(p)
      BY <1>2, <3>3, SizesAtHub
    <3>4. CASE Rerender(p)
      <4>1. /\ size' = [size EXCEPT ![p] = size[p]] /\ inbox' = inbox /\ hubSize' = hubSize /\ due' = due /\ overtaken' = overtaken
        BY <3>4 DEF Rerender, Rendered
      <4>2. size' = size
        BY <1>2, <4>1 DEF TokensInv, Typed
      <4> QED BY <2>1, <4>1, <4>2
    <3>5. CASE (\E s \in Sizes : scheduleFitReport(p, s)) \/ reportFit(p) \/ handleClaimTerminalResize(p)
      BY <2>1, <3>5 DEF scheduleFitReport, reportFit, handleClaimTerminalResize
    <3> QED BY <3>1, <3>2, <3>3, <3>4, <3>5
  <2> QED BY <1>2, <2>1, <2>2, <2>3 DEF vars
<1>3. TokensInv /\ I => SameSize
  BY DEF SizesInv, Shows, SameSize, Quiet
<1> QED BY <1>1, <1>2, <1>3, TokensInvariance, PTL DEF Spec
=============================================================================
