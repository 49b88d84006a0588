-------------------------------- MODULE Agent --------------------------------
(***************************************************************************)
(* What a coding agent of one run shows to the factory, whatever engine    *)
(* executes it: it is started once, it ends once, a result is final, and   *)
(* an agent that died without a result (LOST) can only pass its deadline   *)
(* (EXPIRED).  ABSENT: it was never started.                               *)
(***************************************************************************)

VARIABLE st

Results == {"SUCCEEDED", "FAILED", "TIMEOUT", "CANCELLED"}

Init == st = "none"

Start == st = "none" /\ st' \in {"RUNNING", "ABSENT"}

End == st = "RUNNING" /\ st' \in Results \union {"LOST", "EXPIRED"}

Expire == st = "LOST" /\ st' = "EXPIRED"

Next == Start \/ End \/ Expire

Spec == Init /\ [][Next]_st

=============================================================================
