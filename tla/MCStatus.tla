------------------------------ MODULE MCStatus ------------------------------
(* Two processes flush one task; one process flushes two tasks; one        *)
(* process flushes a task that stalls twice, an event at a time; one       *)
(* process flushes a task whose run is replaced while it looks on.         *)
EXTENDS StatusOutbox

CONSTANTS t1, t2, watch, serve

MCSettings ==
    {[flushers |-> {watch, serve}, tasks |-> {t1}, start |-> {"RUNNING", "PR_OPEN"},
      limit |-> 2, moves |-> 3, beats |-> 1, faults |-> 1],
     [flushers |-> {watch}, tasks |-> {t1, t2}, start |-> {"RUNNING"},
      limit |-> 1, moves |-> 1, beats |-> 2, faults |-> 1],
     [flushers |-> {watch}, tasks |-> {t1}, start |-> {"RUNNING"},
      limit |-> 1, moves |-> 2, beats |-> 3, faults |-> 0],
     [flushers |-> {watch}, tasks |-> {t1}, start |-> {"RUNNING"},
      limit |-> 4, moves |-> 4, beats |-> 2, faults |-> 0]}
=============================================================================
