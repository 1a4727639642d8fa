------------------------------ MODULE TurnLog ------------------------------
(***************************************************************************)
(* What the turn files of a session promise to the recorder, whatever      *)
(* their format: a log to which one writer appends.  A turn that has been  *)
(* synced is lost only by a delete; any other may be lost when the machine *)
(* stops.  A turn that is missing reads as a gap.                          *)
(***************************************************************************)
EXTENDS Naturals, Sequences

CONSTANTS
    Contents,   \* the contents of turns
    Gap         \* what a missing turn reads as

VARIABLES
    log,        \* log[i] is what a read of turn i returns
    synced,     \* the indices of the turns that survive a power loss
    todo        \* the contents the call in progress has yet to append

vars == <<log, synced, todo>>

Init == log = <<>> /\ synced = {} /\ todo = <<>>

\* A writer hands over a batch.
Submit ==
    /\ todo = <<>>
    /\ todo' \in Seq(Contents) \ {<<>>}
    /\ UNCHANGED <<log, synced>>

AppendNext ==
    /\ todo # <<>>
    /\ log' = Append(log, Head(todo))
    /\ todo' = Tail(todo)
    /\ UNCHANGED synced

\* A sync reaches at least the last turn.
Sync ==
    /\ log # <<>>
    /\ synced' \in SUBSET (1..Len(log))
    /\ synced \cup {Len(log)} \subseteq synced'
    /\ UNCHANGED <<log, todo>>

\* The call fails or the process dies: the rest of the batch is not written.
Abandon ==
    /\ todo' = <<>>
    /\ UNCHANGED <<log, synced>>

\* log without some of its turns: a missing turn is a gap, or the log is shorter.
Reduced(keep) ==
    {[i \in 1..n |-> IF i \in lost THEN Gap ELSE log[i]] :
        n \in 0..Len(log), lost \in SUBSET ((1..Len(log)) \ keep)}

\* The machine stops: only turns that were not synced can go.
Lose ==
    /\ log' \in Reduced(synced) /\ synced \subseteq 1..Len(log')
    /\ synced' = {i \in 1..Len(log') : log'[i] # Gap}
    /\ todo' = <<>>

\* Part of a delete.
Erase ==
    /\ todo = <<>>
    /\ log' \in Reduced({})
    /\ synced' = {i \in synced : i <= Len(log') /\ log'[i] # Gap}
    /\ UNCHANGED todo

Next == Submit \/ AppendNext \/ Sync \/ Abandon \/ Lose \/ Erase

Spec == Init /\ [][Next]_vars
=============================================================================
