---------------------------- MODULE MCTurnFiles ----------------------------
(* Constants for model checking TurnFiles. *)
EXTENDS TurnFiles

CONSTANTS a, b

TwoBytes == {a, b}
TwoContents == {<<a>>, <<b, a>>}
=============================================================================
