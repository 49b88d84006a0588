----------------------------- MODULE MCFeedback -----------------------------
(* One process against everything people may do, with a failure or with    *)
(* more decisions; two processes while the branch moves; two processes and *)
(* a failure after a merge; repeated failures of one process.              *)
EXTENDS Feedback

CONSTANTS worker, sync

People == {"push", "merge", "close", "reopen", "ci", "issue", "reopenIssue",
           "rework"}

MCSettings ==
    {[procs |-> {worker}, card |-> TRUE, superseded |-> TRUE, people |-> People,
      heads |-> 2, edits |-> 2, faults |-> 1],
     [procs |-> {worker}, card |-> TRUE, superseded |-> FALSE, people |-> People,
      heads |-> 2, edits |-> 3, faults |-> 0],
     [procs |-> {worker, sync}, card |-> FALSE, superseded |-> FALSE,
      people |-> {"push", "merge", "ci"}, heads |-> 3, edits |-> 3, faults |-> 0],
     [procs |-> {worker, sync}, card |-> TRUE, superseded |-> FALSE,
      people |-> {"merge", "ci"}, heads |-> 1, edits |-> 1, faults |-> 1],
     [procs |-> {worker}, card |-> TRUE, superseded |-> FALSE,
      people |-> {"merge", "ci"}, heads |-> 1, edits |-> 1, faults |-> 3]}
=============================================================================
