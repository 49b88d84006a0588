------------------------------ MODULE MCFactory ------------------------------
(***************************************************************************)
(* Finite instances of Factory for TLC.                                    *)
(***************************************************************************)
EXTENDS Factory, TLC

CONSTANTS t1, t2, s1, s2, o1

OneTask == {t1}
TwoTasks == {t1, t2}
OneSession == {s1}
TwoSessions == {s1, s2}
OneOperator == {o1}

(* Sessions are interchangeable. *)
SessionSymmetry == Permutations(Session)
=============================================================================
