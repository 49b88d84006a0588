------------------------------ MODULE MCBacklog ------------------------------
(* Instance of Backlog for model checking: one card and two events of any  *)
(* kind, or two cards of different routes and one event, with one process  *)
(* that makes full passes and one that treats single cards.                *)
EXTENDS Backlog

CONSTANTS r1, r2

Starts == {[card |-> <<r1, "none">>, left |-> 2],
           [card |-> <<r1, r2>>, left |-> 1]}

=============================================================================
