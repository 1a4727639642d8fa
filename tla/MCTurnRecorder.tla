-------------------------- MODULE MCTurnRecorder --------------------------
(* Constants for model checking TurnRecorder. *)
EXTENDS TurnRecorder, TLC

CONSTANTS k1, k2, c1

AllMethods == AgentMethods
FewMethods == {"message", "tool"}
TwoToolCalls == {k1, k2}
OneToolCall == {k1}
OneClient == {c1}

ToolSymmetry == Permutations(TwoToolCalls)

\* No unlocked call is under way or has renamed the session, no compaction runs
\* and none has left a turn.
Plain ==
    /\ \A c \in Clients : call[c] = NoCall
    /\ ~row.renamed
    /\ exec \notin {"compactStart", "compact"}
    /\ \A t \in view : t.method # "operation"

\* Unlocked calls and compaction meet the handlers at every step; writes fail and
\* the hub dies where none is under way or has left a title or a turn (marking as
\* read may come before).  A failing finish beside a compaction breaks
\* DoneIsDurable (see the README); faults beside unlocked calls are too many states
\* for TLC and are in the theorems.
FaultsOrRaces == faults + crashes > 0 => Plain
=============================================================================
