----------------------------- MODULE MCDelivery -----------------------------
(* A required and an optional gate.  The base fails the required one; one  *)
(* content passes both, one only the required gate and has a finding, one  *)
(* only the optional gate.                                                 *)
(*                                                                         *)
(* Settings: one change of the files, a lost worktree, failures and crashes*)
(* from the end of the agent on; everything others may do to a worktree    *)
(* that is bound; two processes on it; and the undisturbed ones, in pool   *)
(* mode and in run and watch.                                              *)
EXTENDS Delivery

MCSpecs == <<"test", "lint">>
MCPassing == {<<"test", "t1">>, <<"lint", "t1">>, <<"test", "t2">>, <<"lint", "t3">>}

MCSettings ==
    [procs : {{"p1"}}, pool : {TRUE}, start : {"running", "legacy"}, flagged : {{"t2"}},
     faults : {{"call", "crash"}}, left : {2}, world : {{"edit", "gone"}}, edits : {1}]
    \union
    {[procs |-> {"p1"}, pool |-> TRUE, start |-> "bound", flagged |-> {"t2"},
      faults |-> {"call", "lost", "review", "crash"}, left |-> 2,
      world |-> {"edit", "agentCommit", "close", "push", "base", "rework", "override"},
      edits |-> 2],
     [procs |-> {"p1", "p2"}, pool |-> TRUE, start |-> "bound", flagged |-> {},
      faults |-> {}, left |-> 0,
      world |-> {"agentCommit", "rework"}, edits |-> 2],
     [procs |-> {"p1"}, pool |-> TRUE, start |-> "running", flagged |-> {"t2"},
      faults |-> {"call", "lost"}, left |-> 3,
      world |-> {"base", "rework", "override"}, edits |-> 2],
     [procs |-> {"p1"}, pool |-> FALSE, start |-> "legacy", flagged |-> {},
      faults |-> {"call", "lost", "crash"}, left |-> 3, world |-> {"rework"},
      edits |-> 1]}
=============================================================================
