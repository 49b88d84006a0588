--------------------------- MODULE MCOperational ---------------------------
(* A pool of two sessions with every fault; one process under a policy     *)
(* that refuses the scratch task; one process that dies twice; two         *)
(* processes that are not one pool.                                        *)
EXTENDS Operational

CONSTANTS db, scratch, p1, p2

MCSettings ==
    {[permitted |-> {db, scratch}, procs |-> {p1, p2}, pool |-> TRUE,
      edits |-> 1, retries |-> 2, crashes |-> 1, failures |-> 1],
     [permitted |-> {db}, procs |-> {p1}, pool |-> FALSE,
      edits |-> 1, retries |-> 1, crashes |-> 0, failures |-> 0],
     [permitted |-> {db, scratch}, procs |-> {p1}, pool |-> FALSE,
      edits |-> 0, retries |-> 1, crashes |-> 2, failures |-> 0],
     [permitted |-> {db}, procs |-> {p1, p2}, pool |-> FALSE,
      edits |-> 0, retries |-> 1, crashes |-> 0, failures |-> 0]}
=============================================================================
