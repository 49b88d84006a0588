------------------------------- MODULE Operator -------------------------------
(***************************************************************************)
(* What a human operator does beside the running pool, each command in a   *)
(* process of its own: retry (orchestration/retry.py, recovery.py), human  *)
(* QA (rework.py) and the exceptional recovery of terminal or orphaned     *)
(* runs (terminal_recovery.py).                                            *)
(***************************************************************************)
EXTENDS FactoryStore

CONSTANTS
    Operators,  \* concurrent operator processes
    Commands    \* which operator commands are given at all

ASSUME OperatorAssumption ==
    Commands \subseteq {"retry", "rework", "recover", "override"}

VARIABLES
    opc,     \* per operator: idle, unclaim or apply (a retry under way)
    otask,   \* the task of that retry
    otarget  \* the state it decided on

operator == <<opc, otask, otarget>>

OperatorTypeOK ==
    /\ opc \in [Operators -> {"idle", "unclaim", "apply"}]
    /\ otask \in [Operators -> Task]
    /\ otarget \in [Operators -> {"READY", "VALIDATING"}]

OperatorInit ==
    /\ opc = [o \in Operators |-> "idle"]
    /\ otask \in [Operators -> Task]
    /\ otarget = [o \in Operators |-> "READY"]

-----------------------------------------------------------------------------
(* RecoveryPolicy and RetryService *)

FailedRuns(t) == {i \in DOMAIN runs[t] : runs[t][i].status = "FAILED"}

(* Wrong variant: only gate failures count. *)
RetryableRunsGatesOnly(t) ==
    {i \in DOMAIN runs[t] : GatesFailed(runs[t][i])}

RetryableRuns(t) == FailedRuns(t)
                    \union {i \in DOMAIN runs[t] : GatesFailed(runs[t][i])}

(* Bound to the exact validated run the failed publication named. *)
IsPublicationRetry(t) ==
    /\ status[t] = "BLOCKED"
    /\ HasRun(t)
    /\ Publishable(LatestRun(t))
    /\ reason[t] = [kind |-> "publication", run |-> LatestRun(t).id]

ClassifyRetry(t) ==
    CASE ~ HasRun(t) ->
           IF status[t] = "BLOCKED" /\ reason[t].kind = "context"
           THEN "CORRECTABLE" ELSE "TRANSIENT"
      [] HasRun(t) /\ \/ LatestRun(t).status = "FAILED"
                      \/ status[t] = "BLOCKED" /\ GatesFailed(LatestRun(t))
                      \/ IsPublicationRetry(t)
                      \/ /\ status[t] = "CLAIMED"
                         /\ HasReworkFeedback(t)
                         /\ IsTerminal(LatestRun(t)) -> "CORRECTABLE"
      [] OTHER -> "NON_RECOVERABLE"

(* A claim is only taken back from a run that is known to have ended. *)
ClaimLooksDead(t) ==
    /\ HasRun(t)
    /\ \/ LatestRun(t).status = "FAILED"
       \/ HasReworkFeedback(t) /\ IsTerminal(LatestRun(t))

(* All the reads and refusals of retry; the writes come later. *)
RetryDecide(o, t) ==
    /\ "retry" \in Commands
    /\ opc[o] = "idle"
    /\ status[t] \in {"BLOCKED", "CLAIMED"}
    /\ ActiveRuns(t) = {}
    /\ ClassifyRetry(t) # "NON_RECOVERABLE"
    /\ Cardinality(RetryableRuns(t)) < RunRetryLimit
    /\ status[t] = "CLAIMED" => ClaimLooksDead(t)
    /\ opc' = [opc EXCEPT ![o] =
                 IF status[t] = "CLAIMED" THEN "unclaim" ELSE "apply"]
    /\ otask' = [otask EXCEPT ![o] = t]
    /\ otarget' = [otarget EXCEPT ![o] =
                     IF IsPublicationRetry(t) THEN "VALIDATING" ELSE "READY"]
    /\ UNCHANGED store

(* CLAIMED -> BLOCKED, refused if the claim moved on. *)
RetryUnclaim(o) ==
    /\ opc[o] = "unclaim"
    /\ \/ /\ ApplyTransition(otask[o], "CLAIMED", "BLOCKED")
          /\ opc' = [opc EXCEPT ![o] = "apply"]
       \/ /\ status[otask[o]] # "CLAIMED"
          /\ opc' = [opc EXCEPT ![o] = "idle"]
          /\ UNCHANGED <<status, hist>>
    /\ UNCHANGED <<reason, runs, rework, prs, otask, otarget>>

RetryApply(o) ==
    /\ opc[o] = "apply"
    /\ \/ ApplyTransition(otask[o], "BLOCKED", otarget[o])
       \/ status[otask[o]] # "BLOCKED" /\ UNCHANGED <<status, hist>>
    /\ opc' = [opc EXCEPT ![o] = "idle"]
    /\ UNCHANGED <<reason, runs, rework, prs, otask, otarget>>

-----------------------------------------------------------------------------
(* Human QA *)

(* The reviewed run is the latest and its pull request is on record; the   *)
(* status, the request and the history row share a transaction.            *)
RequestRework(t) ==
    /\ "rework" \in Commands
    /\ t \notin Operational
    /\ status[t] = "WAITING_HUMAN"
    /\ HasRun(t)
    /\ LatestRun(t).status = "SUCCEEDED"
    /\ PrForRun(t, LatestRun(t).id) \/ PrForBranch(t, LatestRun(t).ws)
    /\ LatestRun(t).id \notin rework[t]
    /\ Record(t, "CHANGES_REQUESTED")
    /\ rework' = [rework EXCEPT ![t] = @ \union {LatestRun(t).id}]
    /\ UNCHANGED <<reason, runs, prs, operator>>

-----------------------------------------------------------------------------
(* Exceptional recovery.  evidence is what the agent's result file says of *)
(* the latest run: it timed out, or its worker failed.                     *)

AuthorizeTerminal(t, evidence) ==
    /\ "recover" \in Commands
    /\ t \notin Operational
    /\ status[t] = "FAILED"
    /\ HasRun(t)
    /\ LatestRun(t).status = "FAILED"
    /\ Cardinality(FailedRuns(t)) < RunRetryLimit
    /\ \A u \in Task : ActiveRuns(u) = {}
    /\ prs[t] = {}
    /\ Record(t, "BLOCKED")
    /\ reason' = [reason EXCEPT ![t] =
                    [kind |-> evidence, run |-> LatestRun(t).id]]
    /\ UNCHANGED <<runs, rework, prs, operator>>

(* One transaction fails the latest run and blocks the task. *)
AuthorizeOrphan(t) ==
    /\ "recover" \in Commands
    /\ t \notin Operational
    /\ status[t] = "RUNNING"
    /\ HasRun(t)
    /\ LatestRun(t).status = "RUNNING"
    /\ prs[t] = {}
    /\ runs' = [runs EXCEPT ![t][Len(runs[t])].status = "FAILED"]
    /\ Record(t, "BLOCKED")
    /\ reason' = [reason EXCEPT ![t] =
                    [kind |-> "orphan", run |-> LatestRun(t).id]]
    /\ UNCHANGED <<rework, prs, operator>>

(* Wrong variant: the blocked reason alone decides. *)
OverrideSecurityUnbound(t) ==
    /\ "override" \in Commands
    /\ status[t] = "BLOCKED"
    /\ reason[t].kind = "security"
    /\ Transition(t, "VALIDATING")
    /\ UNCHANGED <<reason, runs, rework, prs, operator>>

(* A recorded human decision sends the blocked revision back to VALIDATING;*)
(* the review it overrides needs a bound revision.                         *)
OverrideSecurity(t) ==
    /\ "override" \in Commands
    /\ status[t] = "BLOCKED"
    /\ reason[t].kind = "security"
    /\ HasRun(t)
    /\ Publishable(LatestRun(t))
    /\ Transition(t, "VALIDATING")
    /\ UNCHANGED <<reason, runs, rework, prs, operator>>

=============================================================================
