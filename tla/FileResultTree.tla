--------------------------- MODULE FileResultTree ---------------------------
(***************************************************************************)
(* The tree that the file search shows: the ranked files of an answer are  *)
(* put under their directories, in the order of the file explorer where    *)
(* its listings are loaded and in that of the paths where they are not.    *)
(* A path is the sequence of its names; a listing may be older or newer    *)
(* than the answer.                                                        *)
(***************************************************************************)
EXTENDS Naturals, Sequences, SequencesExt, FiniteSets

CONSTANTS Paths,       \* paths of files
          Directories, \* paths of directories, <<>> is the root
          Less(_, _),  \* localeCompare on paths
          Listing(_),  \* what readDir gives for a directory: a set of sequences of entries
          MaxResults   \* bound on the length of an answer
FileResultTreeConstants == <<>> \in Directories /\ MaxResults \in Nat

VARIABLES results, dirEntries, \* the answer; listings by directory, a partial function
          collapsed, activeIndex,
          ordered              \* the order of the explorer is used (options.dirEntries)
vars == <<results, dirEntries, collapsed, activeIndex, ordered>>
Init == results = <<>> /\ dirEntries = <<>> /\ collapsed = {} /\ activeIndex = 0 /\ ordered \in BOOLEAN
-----------------------------------------------------------------------------
File(p) == [kind |-> "file", path |-> p, children |-> <<>>]
Dir(p, cs) == [kind |-> "dir", path |-> p, children |-> cs]
Below(p, d) == Len(d) < Len(p) /\ SubSeq(p, 1, Len(d)) = d
\* normalizeResults: a path that was there before is dropped.
normalizeResults(rs) == FoldLeft(LAMBDA out, r : IF r \in Range(out) THEN out ELSE Append(out, r), <<>>, rs)
\* Children of d: files of d, and a directory at the place of its first file.
RECURSIVE buildTreeFromNormalizedResults(_, _)
buildTreeFromNormalizedResults(rs, d) ==
  LET child(p) == SubSeq(p, 1, Len(d) + 1)
      firsts == FoldLeft(LAMBDA out, p : IF child(p) \in Range(out) THEN out ELSE Append(out, child(p)), <<>>, rs)
      under(c) == SelectSeq(rs, LAMBDA p : Below(p, c))
  IN [i \in DOMAIN firsts |-> IF firsts[i] \in Range(rs) THEN File(firsts[i])
                              ELSE Dir(firsts[i], buildTreeFromNormalizedResults(under(firsts[i]), firsts[i]))]
RECURSIVE FilesOf(_)
FilesOf(nodes) == UNION {IF nodes[i].kind = "file" THEN {nodes[i].path} ELSE FilesOf(nodes[i].children) : i \in DOMAIN nodes}
Sorted(rs) == SortSeq(rs, Less)
\* buildDirectory, with the set of files that were seen; both are returned.
RECURSIVE buildDirectory(_, _, _)
buildDirectory(rs, d, seen) ==
  IF d \notin DOMAIN dirEntries
  THEN LET nodes == buildTreeFromNormalizedResults(Sorted(SelectSeq(rs, LAMBDA p : p \notin seen /\ Below(p, d))), d)
       IN [nodes |-> nodes, seen |-> seen \cup FilesOf(nodes)]
  ELSE FoldLeft(LAMBDA acc, e :
         IF e.kind = "file"
         THEN IF e.path \in Range(rs) \ acc.seen THEN [nodes |-> Append(acc.nodes, File(e.path)), seen |-> acc.seen \cup {e.path}] ELSE acc
         ELSE LET sub == buildDirectory(rs, e.path, acc.seen)
              IN IF sub.nodes = <<>> THEN [acc EXCEPT !.seen = sub.seen] ELSE [nodes |-> Append(acc.nodes, Dir(e.path, sub.nodes)), seen |-> sub.seen],
         [nodes |-> <<>>, seen |-> seen], dirEntries[d])
buildTreeFromSourceOrder(rs) ==
  LET top == buildDirectory(rs, <<>>, {})
  IN top.nodes \o buildTreeFromNormalizedResults(Sorted(SelectSeq(rs, LAMBDA p : p \notin top.seen)), <<>>)
buildFileSearchResultTree(rs) ==
  IF ordered THEN buildTreeFromSourceOrder(normalizeResults(rs)) ELSE buildTreeFromNormalizedResults(normalizeResults(rs), <<>>)
RECURSIVE FlattenOnlyTop(_, _)
FlattenOnlyTop(nodes, folded) ==
  FlattenSeq([i \in DOMAIN nodes |-> IF nodes[i].kind = "file" THEN <<nodes[i].path>>
                                     ELSE IF nodes[i].path \in folded THEN <<>> ELSE FlattenOnlyTop(nodes[i].children, {})])
RECURSIVE flattenFileSearchResultTree(_, _)
flattenFileSearchResultTree(nodes, folded) ==
  FlattenSeq([i \in DOMAIN nodes |-> IF nodes[i].kind = "file" THEN <<nodes[i].path>>
                                     ELSE IF nodes[i].path \in folded THEN <<>> ELSE flattenFileSearchResultTree(nodes[i].children, folded)])
-----------------------------------------------------------------------------
Tree == buildFileSearchResultTree(results)
VisibleResults == flattenFileSearchResultTree(Tree, collapsed)
AllResults == flattenFileSearchResultTree(Tree, {})
\* Answer, listing, fold: each in any order.
Answer(rs) == results' = rs /\ activeIndex' = 0 /\ UNCHANGED <<dirEntries, collapsed, ordered>>
LoadDirectory(d) ==
  /\ \E l \in Listing(d) : dirEntries' = [x \in DOMAIN dirEntries \cup {d} |-> IF x = d THEN l ELSE dirEntries[x]]
  /\ UNCHANGED <<results, collapsed, activeIndex, ordered>>
toggleDirectory(d) ==
  /\ d # <<>> /\ \E p \in Range(AllResults) : Below(p, d)
  /\ collapsed' = IF d \in collapsed THEN collapsed \ {d} ELSE collapsed \cup {d}
  /\ UNCHANGED <<results, dirEntries, activeIndex, ordered>>
\* An arrow key, over what is visible.
Arrow(k) ==
  /\ \E n \in {Len(VisibleResults)} : activeIndex' = (IF n = 0 THEN 0 ELSE IF k = "down" THEN (activeIndex + 1) % n ELSE (activeIndex + n - 1) % n)
  /\ UNCHANGED <<results, dirEntries, collapsed, ordered>>
Next ==
  \/ \E n \in 0..MaxResults : \E rs \in [1..n -> Paths] : rs # results /\ Answer(rs)
  \/ \E d \in Directories : LoadDirectory(d) \/ toggleDirectory(d)
  \/ \E k \in {"up", "down"} : Arrow(k)
Spec == Init /\ [][Next]_vars
-----------------------------------------------------------------------------
TypeOK == Range(results) \subseteq Paths /\ DOMAIN dirEntries \subseteq Directories /\ collapsed \subseteq Directories /\ activeIndex \in 0..(2 * MaxResults)
\* Every file of the answer is in the tree, once, whatever listings are
\* loaded and however old they are.
EveryFileOnce == Len(AllResults) = Cardinality(Range(results)) /\ Range(AllResults) = Range(results)
\* Folded directories hide exactly the files below them, and the rest keeps
\* its order.
FoldingHides == VisibleResults = SelectSeq(AllResults, LAMBDA p : \A d \in collapsed : ~ Below(p, d))
\* After an arrow key the index names a file that is visible, if there is one.
ArrowFindsFile == [][(activeIndex' # activeIndex /\ results' = results) => activeIndex' < Len(VisibleResults) \/ VisibleResults = <<>>]_vars
Position(p, l) == CHOOSE i \in DOMAIN l : l[i] = [kind |-> "file", path |-> p]
Listed(p, d) == [kind |-> "file", path |-> p] \in Range(dirEntries[d])
Reached(d) == \A k \in 0..(Len(d) - 1) : SubSeq(d, 1, k) \in DOMAIN dirEntries /\ [kind |-> "dir", path |-> SubSeq(d, 1, k + 1)] \in Range(dirEntries[SubSeq(d, 1, k)])
\* Two files of one directory stand in the order of its listing, when the
\* listing holds both and the explorer has loaded every directory above.
FollowsListing == ordered => \A d \in DOMAIN dirEntries : Reached(d) =>
  \A i \in DOMAIN AllResults : \A j \in DOMAIN AllResults :
     (i < j /\ Listed(AllResults[i], d) /\ Listed(AllResults[j], d)) => Position(AllResults[i], dirEntries[d]) < Position(AllResults[j], dirEntries[d])
=============================================================================
