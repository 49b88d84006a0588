---------------------------- MODULE TaskLifecycle ----------------------------
(***************************************************************************)
(* The task lifecycle graph shared by orchestration and persistence        *)
(* (domain/enums.py, domain/task_lifecycle.py).  A graph is a set of       *)
(* <<source, target>> pairs.                                               *)
(***************************************************************************)

TaskStatus ==
    {"DISCOVERED", "READY", "CLAIMED", "RUNNING", "VALIDATING", "PR_OPEN",
     "WAITING_HUMAN", "CHANGES_REQUESTED", "BLOCKED",
     "DONE", "FAILED", "CANCELLED"}

(* The edges the orchestration services may take; DONE, FAILED and         *)
(* CANCELLED have none.  The store also lets three recovery edges through, *)
(* which no service asks for.                                              *)
Transitions ==
    UNION { {"DISCOVERED"} \X {"READY", "CANCELLED", "FAILED"},
            {"READY"} \X {"CLAIMED", "BLOCKED", "CANCELLED"},
            {"CLAIMED"} \X {"RUNNING", "BLOCKED", "CANCELLED"},
            {"RUNNING"} \X {"VALIDATING", "BLOCKED", "FAILED", "CANCELLED"},
            {"VALIDATING"} \X {"PR_OPEN", "READY", "BLOCKED", "DONE",
                               "FAILED", "CANCELLED"},
            {"PR_OPEN"} \X {"WAITING_HUMAN", "BLOCKED", "FAILED", "CANCELLED"},
            {"WAITING_HUMAN"} \X {"CHANGES_REQUESTED", "DONE", "FAILED",
                                  "CANCELLED"},
            {"CHANGES_REQUESTED"} \X {"READY", "CANCELLED"},
            {"BLOCKED"} \X {"READY", "VALIDATING", "CANCELLED"} }

CanTransition(source, target) == <<source, target>> \in Transitions
=============================================================================
