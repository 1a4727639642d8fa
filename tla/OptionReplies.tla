---------------------------- MODULE OptionReplies ----------------------------
(***************************************************************************)
(* Answers that can be clicked.  The client reads the text of the newest   *)
(* answer line by line and offers the last list of options in it (A. B. or *)
(* 1. 2.), or else the last question that asks for a confirmation, and     *)
(* splits the text so that buttons stand where the lines were.  The text   *)
(* of a running answer grows, and is read anew each time.                  *)
(*                                                                         *)
(* A line is a fence of a code block, an option with its kind and its      *)
(* place among the labels, words that announce a numbered choice, a        *)
(* question that asks for a confirmation, or other text.                   *)
(***************************************************************************)
EXTENDS Naturals, Sequences, SequencesExt, FiniteSets, FiniteSetsExt

CONSTANTS Lines,    \* lines a text may have
          MaxLines, \* bound on the length of a text
          Context,  \* lines before a numbered list in which it is announced: 4
          Near      \* lines at the end in which a question counts: 700 characters
OptionRepliesConstants == {MaxLines, Context, Near} \subseteq Nat

VARIABLE text
Init == text = <<>>
\* The agent writes another line.
Grow(l) == Len(text) < MaxLines /\ text' = Append(text, l)
-----------------------------------------------------------------------------
isFenceLine(l) == l.t = "fence"
hasNumericChoiceContext(s, first) == \E j \in DOMAIN s : j < first /\ j + Context >= first /\ s[j].t = "announce"
\* A block is a sequence of line numbers.
validOptionBlock(s, b) ==
  /\ Len(b) >= 2 /\ (s[b[1]].k = "number" => hasNumericChoiceContext(s, b[1]))
  /\ \A j \in DOMAIN b : s[b[j]].k = s[b[1]].k /\ s[b[j]].i = j - 1
finishBlock(s, st) == [st EXCEPT !.block = <<>>, !.latest = IF validOptionBlock(s, st.block) THEN st.block ELSE @]
\* One line of the text.
ReadOption(s, st, j) ==
  IF s[j].i = 0 THEN [finishBlock(s, st) EXCEPT !.block = <<j>>]
  ELSE IF st.block = <<>> THEN st
  ELSE IF s[j].k # s[st.block[1]].k \/ s[j].i # Len(st.block) THEN finishBlock(s, st)
  ELSE [st EXCEPT !.block = Append(@, j)]
ReadLine(s, st, j) ==
  IF isFenceLine(s[j]) THEN [finishBlock(s, st) EXCEPT !.fence = ~ @]
  ELSE IF st.fence \/ s[j].t # "option" THEN st ELSE ReadOption(s, st, j)
findLatestOptionReplyBlock(s) ==
  finishBlock(s, FoldLeftDomain(LAMBDA st, j : ReadLine(s, st, j), [block |-> <<>>, latest |-> <<>>, fence |-> FALSE], s)).latest
extractChatOptionReplies(s) == findLatestOptionReplyBlock(s)
\* The lines before, between and after options, and the options.
splitChatOptionReplyText(s) ==
  LET b == findLatestOptionReplyBlock(s) At(j) == IF j = 0 THEN 0 ELSE b[j]
  IN  FlattenSeq([j \in DOMAIN b |-> << SubSeq(s, At(j - 1) + 1, b[j] - 1), <<s[b[j]]>> >>]) \o << SubSeq(s, At(Len(b)) + 1, Len(s)) >>
\* The line of the question to confirm; 0 for none.
Fences(s, j) == Cardinality({i \in 1..(j - 1) : isFenceLine(s[i])})
findLatestConfirmationReplyMatch(s) ==
  LET qs == {j \in DOMAIN s : s[j].t = "ask" /\ Fences(s, j) % 2 = 0 /\ j + Near > Len(s)}
  IN  IF extractChatOptionReplies(s) # <<>> \/ qs = {} THEN 0 ELSE Max(qs)
splitChatConfirmationReplyText(s) ==
  LET q == findLatestConfirmationReplyMatch(s)
  IN  IF q = 0 THEN <<s>> ELSE << SubSeq(s, 1, q - 1), <<s[q]>>, SubSeq(s, q + 1, Len(s)) >>
-----------------------------------------------------------------------------
Next == \E l \in Lines : Grow(l)
Spec == Init /\ [][Next]_text
-----------------------------------------------------------------------------
\* A choice: options of one kind in the order of their labels, with no fence
\* and no other option among them, outside a code block, with a number of
\* them that cannot be extended, and announced when they are numbered.
InCode(j) == Cardinality({i \in 1..j : text[i].t = "fence"}) % 2 = 1
AllChoices == {E \in SUBSET {j \in DOMAIN text : text[j].t = "option"} : Cardinality(E) >= 2 /\
  LET a == Min(E) z == Max(E) After == {j \in DOMAIN text : j > z /\ text[j].t \in {"option", "fence"}}
  IN  /\ ~ InCode(a) /\ \A j \in a..z : text[j].t # "fence" /\ (text[j].t = "option" => j \in E)
      /\ \A j \in E : text[j].k = text[a].k /\ text[j].i = Cardinality({i \in E : i < j})
      /\ After # {} => LET n == text[Min(After)] IN ~ (n.t = "option" /\ n.k = text[a].k /\ n.i = Cardinality(E))
      /\ text[a].k = "number" => \E j \in DOMAIN text : j < a /\ a - j <= Context /\ text[j].t = "announce"}
\* What is offered is the last choice of the text.
OffersLastChoice == Range(extractChatOptionReplies(text)) =
  (IF AllChoices = {} THEN {} ELSE CHOOSE E \in AllChoices : \A F \in AllChoices : Min(F) <= Min(E))
\* Splitting the text for its buttons neither loses nor repeats a line.
SplitKeepsText == FlattenSeq(splitChatOptionReplyText(text)) = text /\ FlattenSeq(splitChatConfirmationReplyText(text)) = text
\* A question is offered only when there is no choice, and it is the last
\* one outside code that is near the end.
AsksLast == LET q == findLatestConfirmationReplyMatch(text) IN
  q # 0 => /\ AllChoices = {} /\ ~ InCode(q) /\ Len(text) - q < Near
           /\ \A j \in DOMAIN text : (j > q /\ ~ InCode(j)) => text[j].t # "ask"
\* Options already offered stay offered while the answer grows by plain text.
PlainTextKeepsOffersStep ==
  (Len(text') > Len(text) /\ text'[Len(text')].t \in {"plain", "announce", "ask"}) =>
    extractChatOptionReplies(text') = extractChatOptionReplies(text)
=============================================================================
