------------------------------- MODULE MCSprint -------------------------------
(***************************************************************************)
(* Instances of Sprint: a sprint of two steps, the second depending on the *)
(* first, and a sprint of one step.                                        *)
(***************************************************************************)
EXTENDS Sprint

CONSTANTS A, B, i1, i2, i3

MCSteps == [s \in Sprints |-> IF s = A THEN <<i1, i2>> ELSE <<i3>>]

MCDepends == [i \in Items |-> IF i = i2 THEN {i1} ELSE {}]
=============================================================================
