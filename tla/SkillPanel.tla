----------------------------- MODULE SkillPanel -----------------------------
(***************************************************************************)
(* Installing, removing and reading skills: the source that is typed as a  *)
(* name or as a pasted command, the list of a source, what is ticked, what *)
(* the dialog is asked to confirm, and the cache of skill details.         *)
(***************************************************************************)
EXTENDS Naturals, FiniteSets, Sequences, SequencesExt

CONSTANTS Targets,   \* scopes that skills are installed to
          Sources,   \* tokens that name a source
          Names,     \* tokens that name a skill
          NamesOf,   \* of every source the skills that it lists
          Words,     \* tokens that may be typed
          MaxWords,  \* bound on the tokens of the input
          MaxCalls,  \* bound on lists in flight
          Ops        \* what happens: "type", "list", "tick", "detail"
PanelConstants == MaxWords \in Nat /\ MaxCalls \in Nat /\ Ops \subseteq {"type", "list", "tick", "detail"}

VARIABLES target,     \* skillInstallTarget
          input,      \* the tokens of skillSourceInput
          candidates, \* skillSourceCandidates
          selected,   \* skillSourceSelectedNames
          listing,    \* skillSourceLoading
          lists,      \* list calls in flight: target, source and names asked for
          confirm,    \* confirmTarget
          skills,     \* the skills the card shows: of every name "none", "managed", "external"
          ticked,     \* selectedSkillKeysByScope of that card
          detail,     \* skillDetailCache: of every name whether it loads, and what it holds
          fetches     \* names of getSkillDetail calls in flight
vars == <<target, input, candidates, selected, listing, lists, confirm, skills, ticked, detail, fetches>>

None == "none"
NoConfirm == [kind |-> "none", target |-> None, source |-> None, skills |-> {}]
Init ==
  /\ target = None /\ input = <<>> /\ candidates = {} /\ selected = {} /\ listing = FALSE /\ lists = {} /\ confirm = NoConfirm
  /\ skills = [n \in Names |-> "none"] /\ ticked = {} /\ detail = [n \in Names |-> [loading |-> FALSE, has |-> "none"]] /\ fetches = {}
-----------------------------------------------------------------------------
\* Tokens: "skills", "add", "--skill", "--flag", sources and names.
Flags == {"--skill", "--flag"}
SourceAt(t, i) == i < Len(t) - 1 /\ t[i] = "skills" /\ t[i + 1] = "add"
\* The token after the first "skills add", else the first that is no flag.
findSkillSourceTokenIndex(t) ==
  IF \E i \in 1..Len(t) : SourceAt(t, i) THEN (CHOOSE i \in 1..Len(t) : SourceAt(t, i) /\ \A j \in 1..(i - 1) : ~ SourceAt(t, j)) + 2
  ELSE SelectInSeq(t, LAMBDA w : w \notin Flags)
\* The words after every "--skill" up to the next flag.
extractSkillNamesFromTokens(t) ==
  FoldLeft(LAMBDA s, w : IF w \in Flags THEN [s EXCEPT !.on = w = "--skill"] ELSE [s EXCEPT !.names = IF s.on THEN @ \union {w} ELSE @], [on |-> FALSE, names |-> {}], t).names
parseSkillSourceInput(t) ==
  [source |-> LET i == findSkillSourceTokenIndex(t) IN IF i = 0 THEN None ELSE t[i], names |-> extractSkillNamesFromTokens(t)]
-----------------------------------------------------------------------------
Type(w) == "type" \in Ops /\ target # None /\ confirm = NoConfirm /\ Len(input) < MaxWords /\ input' = Append(input, w) /\ UNCHANGED <<target, candidates, selected, listing, lists, confirm, skills, ticked, detail, fetches>>
Erase == "type" \in Ops /\ confirm = NoConfirm /\ input # <<>> /\ input' = <<>> /\ UNCHANGED <<target, candidates, selected, listing, lists, confirm, skills, ticked, detail, fetches>>
requestSkillInstall(t) ==
  /\ confirm = NoConfirm /\ target # t /\ target' = t /\ candidates' = {} /\ selected' = {}
  /\ UNCHANGED <<input, listing, lists, confirm, skills, ticked, detail, fetches>>
closeSkillInstallPanel == target # None /\ confirm = NoConfirm /\ target' = None /\ candidates' = {} /\ selected' = {} /\ UNCHANGED <<input, listing, lists, confirm, skills, ticked, detail, fetches>>
toggleSkillSourceCandidate(n) == "list" \in Ops /\ n \in candidates /\ target # None /\ confirm = NoConfirm /\ selected' = (IF n \in selected THEN selected \ {n} ELSE selected \union {n}) /\ UNCHANGED <<target, input, candidates, listing, lists, confirm, skills, ticked, detail, fetches>>
toggleAllSkillSourceCandidates == candidates # {} /\ target # None /\ confirm = NoConfirm /\ selected' = (IF candidates \subseteq selected THEN {} ELSE candidates) /\ UNCHANGED <<target, input, candidates, listing, lists, confirm, skills, ticked, detail, fetches>>
\* The Enter key lists also while a list is under way.
listSkillSource ==
  /\ "list" \in Ops /\ target # None /\ confirm = NoConfirm
  /\ \E p \in {parseSkillSourceInput(input)} :
       /\ p.source # None /\ listing' = TRUE /\ lists' = lists \union {[target |-> target, source |-> p.source, names |-> p.names]}
  /\ UNCHANGED <<target, input, candidates, selected, confirm, skills, ticked, detail, fetches>>
Listed(q) == IF q.source \in Sources THEN NamesOf[q.source] ELSE {}
\* The answer, for whatever panel is open now: names that were asked for are
\* ticked at once.
SourceListed(q) ==
  /\ lists' = lists \ {q} /\ listing' = FALSE /\ candidates' = (IF q.names = {} THEN Listed(q) ELSE q.names \intersect Listed(q))
  /\ selected' = (IF q.names = {} THEN {} ELSE candidates') /\ UNCHANGED <<target, input, confirm, skills, ticked, detail, fetches>>
ListFailed(q) == lists' = lists \ {q} /\ listing' = FALSE /\ UNCHANGED <<target, input, candidates, selected, confirm, skills, ticked, detail, fetches>>
\* The source as it is typed now, the names as they are ticked.
requestSkillInstallConfirm ==
  /\ "list" \in Ops /\ target # None /\ confirm = NoConfirm /\ selected # {}
  /\ \E s \in {parseSkillSourceInput(input).source} : s # None /\ confirm' = [kind |-> "install", target |-> target, source |-> s, skills |-> selected]
  /\ UNCHANGED <<target, input, candidates, selected, listing, lists, skills, ticked, detail, fetches>>
-----------------------------------------------------------------------------
\* A scan of the hub answers with other skills, managed or external ones.
Scanned(n, v) == "tick" \in Ops /\ skills[n] # v /\ skills' = [skills EXCEPT ![n] = v] /\ UNCHANGED <<target, input, candidates, selected, listing, lists, confirm, ticked, detail, fetches>>
managedSkillNames == {n \in Names : skills[n] = "managed"}
toggleScopeSkillSelection(n) ==
  /\ "tick" \in Ops /\ confirm = NoConfirm /\ n \in managedSkillNames /\ ticked' = (IF n \in ticked THEN ticked \ {n} ELSE ticked \union {n})
  /\ UNCHANGED <<target, input, candidates, selected, listing, lists, confirm, skills, detail, fetches>>
setScopeSkillSelection ==
  /\ confirm = NoConfirm /\ managedSkillNames # {} /\ ticked' = (IF managedSkillNames \subseteq ticked THEN {} ELSE managedSkillNames)
  /\ UNCHANGED <<target, input, candidates, selected, listing, lists, confirm, skills, detail, fetches>>
\* What stays ticked when the card changes counts only while it is managed.
selectedManagedNames == ticked \intersect managedSkillNames
requestSkillBatchUninstall ==
  /\ "tick" \in Ops /\ confirm = NoConfirm /\ selectedManagedNames # {}
  /\ confirm' = [kind |-> "remove", target |-> None, source |-> None, skills |-> selectedManagedNames]
  /\ UNCHANGED <<target, input, candidates, selected, listing, lists, skills, ticked, detail, fetches>>
requestSkillUninstall(n) ==
  /\ "tick" \in Ops /\ confirm = NoConfirm /\ n \in managedSkillNames /\ confirm' = [kind |-> "remove", target |-> None, source |-> None, skills |-> {n}]
  /\ UNCHANGED <<target, input, candidates, selected, listing, lists, skills, ticked, detail, fetches>>
\* The dialog is cancelled, or its action was accepted; an install closes the
\* panel, but leaves the input and a list that is under way.
Confirmed ==
  /\ confirm # NoConfirm /\ confirm' = NoConfirm
  /\ IF confirm.kind = "install" THEN target' = None /\ candidates' = {} /\ selected' = {} ELSE UNCHANGED <<target, candidates, selected>>
  /\ UNCHANGED <<input, listing, lists, skills, ticked, detail, fetches>>
Cancelled == confirm # NoConfirm /\ confirm' = NoConfirm /\ UNCHANGED <<target, input, candidates, selected, listing, lists, skills, ticked, detail, fetches>>
-----------------------------------------------------------------------------
\* A detail that is there or on its way is not asked for again.
requestSkillDetail(n) ==
  /\ "detail" \in Ops /\ detail[n].has # "detail" /\ ~ detail[n].loading /\ detail' = [detail EXCEPT ![n] = [loading |-> TRUE, has |-> "none"]]
  /\ fetches' = fetches \union {n} /\ UNCHANGED <<target, input, candidates, selected, listing, lists, confirm, skills, ticked>>
DetailAnswered(n, v) == n \in fetches /\ fetches' = fetches \ {n} /\ detail' = [detail EXCEPT ![n] = [loading |-> FALSE, has |-> v]] /\ UNCHANGED <<target, input, candidates, selected, listing, lists, confirm, skills, ticked>>
-----------------------------------------------------------------------------
Panel ==
  \/ Erase \/ (\E w \in Words : Type(w)) \/ (\E t \in Targets : requestSkillInstall(t)) \/ closeSkillInstallPanel \/ (\E n \in Names : toggleSkillSourceCandidate(n))
  \/ toggleAllSkillSourceCandidates \/ (\E q \in lists : SourceListed(q) \/ ListFailed(q)) \/ requestSkillInstallConfirm
List == Cardinality(lists) < MaxCalls /\ listSkillSource
Rows ==
  \/ \E n \in Names : toggleScopeSkillSelection(n) \/ requestSkillUninstall(n) \/ (\E v \in {"none", "managed", "external"} : Scanned(n, v))
  \/ setScopeSkillSelection \/ requestSkillBatchUninstall
Details == \E n \in Names : requestSkillDetail(n) \/ (\E v \in {"detail", "error"} : DetailAnswered(n, v))
Next == Panel \/ List \/ Rows \/ Details \/ Confirmed \/ Cancelled
Spec == Init /\ [][Next]_vars
-----------------------------------------------------------------------------
TypeOK ==
  /\ target \in Targets \union {None} /\ input \in Seq(Words) /\ candidates \subseteq Names /\ listing \in BOOLEAN /\ confirm.kind \in {"none", "install", "remove"}
  /\ ticked \subseteq Names /\ \A n \in Names : skills[n] \in {"none", "managed", "external"} /\ detail[n].has \in {"none", "detail", "error"}

\* What the panel would install is among what it shows, whatever order lists
\* are answered in and whichever panel is open by then.
SelectionIsShown == selected \subseteq candidates

\* A pasted command gives the source after "skills add" and exactly the names
\* that stand after a "--skill" with no other flag in between.
CommandParses ==
  /\ \A n \in Words : n \in parseSkillSourceInput(input).names <=>
       \E i \in 1..Len(input) : input[i] = n /\ n \notin Flags /\ \E j \in 1..(i - 1) : input[j] = "--skill" /\ \A k \in (j + 1)..(i - 1) : input[k] \notin Flags
  /\ \A s \in Sources : (\E i \in 1..(Len(input) - 2) : SubSeq(input, 1, i + 2) = [k \in 1..(i + 2) |-> IF k <= i - 1 THEN "--flag" ELSE <<"skills", "add", s>>[k - i + 1]]) => parseSkillSourceInput(input).source = s

\* The list button says "Listing" and a detail says that it loads only while
\* an answer is due.
LoadingIsLoading == (listing => lists # {}) /\ \A n \in Names : detail[n].loading <=> n \in fetches

\* The names of an install belong to the source that it names.
\* Not kept by the code: see the README.
InstallsNamesOfSource == confirm.kind = "install" => confirm.source \in Sources /\ confirm.skills \subseteq NamesOf[confirm.source]
=============================================================================
