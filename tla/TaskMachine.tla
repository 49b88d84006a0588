----------------------------- MODULE TaskMachine -----------------------------
(***************************************************************************)
(* What the factory promises about a task, whatever processes work on it:  *)
(* its status moves along the edges of the lifecycle graph, except for two *)
(* audited recoveries, and it reaches DONE only from validation or human   *)
(* review.                                                                 *)
(***************************************************************************)
EXTENDS TaskLifecycle

CONSTANT Task

VARIABLE status

Init == status = [t \in Task |-> "DISCOVERED"]

(* An operator re-opens a terminal FAILED task (FAILED -> BLOCKED). *)
Edge(source, target) ==
    \/ CanTransition(source, target)
    \/ source = "FAILED" /\ target = "BLOCKED"

Move(t, target) == /\ Edge(status[t], target)
                   /\ status' = [status EXCEPT ![t] = target]

Next == \E t \in Task, target \in TaskStatus : Move(t, target)

Spec == Init /\ [][Next]_status

=============================================================================
