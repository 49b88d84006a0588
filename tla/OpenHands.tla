------------------------------ MODULE OpenHands ------------------------------
(***************************************************************************)
(* One task on the OpenHands engine (integrations/openhands): the factory  *)
(* creates a conversation on the agent server with one HTTP request, polls *)
(* it with two more, and interrupts it when the pool stops.  The server    *)
(* and the wire between them are external.                                 *)
(*                                                                         *)
(* The task's first run succeeded and failed its gates, so that its second *)
(* is a correction in the same checkout (dispatch_rework).  Attempt k is   *)
(* the k-th run of the task; conv[k] is its conversation on the server:    *)
(*   none      not created       idle, running  at work in the checkout    *)
(*   paused    interrupted       finished, error, stuck  ended             *)
(*   deleting  torn down         gone           404                        *)
(*                                                                         *)
(* pc: idle; awaiting the answer to a creation; summary, between the two   *)
(* reads of collect(), holding the status of the first one in seen.        *)
(***************************************************************************)
EXTENDS Naturals, Sequences, FiniteSets

CONSTANTS
    RetryLimit,  \* RecoveryPolicy.run_retry_limit
    Faults       \* faults of server and wire that may happen, once each

(* lost: no usable answer to a creation.  refused: an error answer to it.  *)
(* unread: no usable answer to the second read.  gone: the conversation is *)
(* deleted on the server.  stop: the pool is told to stop.                 *)
(* Their assumptions are stated where the module is instantiated.          *)
VARIABLES
    task,   \* its status
    rows,   \* its runs, oldest first
    job,    \* the checkout of the attempt being dispatched
    pc, seen,
    conv,   \* conversations of the server, by attempt
    wire,   \* attempts whose creation request did not arrive yet
    faults  \* faults still to happen

vars == <<task, rows, job, pc, seen, conv, wire, faults>>

Attempts == 1 .. RetryLimit + 1
Ended == {"finished", "error", "stuck"}
Created == {"idle", "running", "paused"} \union Ended
Terminal == {"SUCCEEDED", "FAILED", "CANCELLED"}
Active == {"PENDING", "RUNNING"}

Latest == rows[Len(rows)]
HasPrevious == Len(rows) > 1
Previous == rows[Len(rows) - 1]
Attempt == Len(rows) + 1

Fault(f) == f \in faults /\ faults' = faults \ {f}

(* Wrong variant: an interrupted conversation counts as a failed run. *)
MapStatusPausedFails(s) ==
    CASE s = "idle"                -> "PENDING"
      [] s = "running"             -> "RUNNING"
      [] s = "finished"            -> "SUCCEEDED"
      [] s \in {"error", "stuck", "paused"} -> "FAILED"
      [] s = "deleting"            -> "CANCELLED"

(* waiting_for_confirmation is left out: every conversation is created     *)
(* with the NeverConfirm policy.                                           *)
MapStatus(s) ==
    CASE s = "idle"                -> "PENDING"
      [] s \in {"running", "paused"} -> "RUNNING"
      [] s = "finished"            -> "SUCCEEDED"
      [] s \in {"error", "stuck"}  -> "FAILED"
      [] s = "deleting"            -> "CANCELLED"

-----------------------------------------------------------------------------
(* Dispatch.                                                               *)

GateSource ==
    IF Latest.status = "FAILED" /\ HasPrevious /\ Previous.ws = Latest.ws
    THEN Previous ELSE Latest

(* A correction of failed gates goes on in the latest checkout. *)
Checkout == IF GateSource.red THEN Latest.ws ELSE Attempt

Request ==
    /\ task = "READY"
    /\ pc = "idle"
    /\ task' = "CLAIMED"
    /\ job' = Checkout
    /\ wire' = wire \union {Attempt}
    /\ pc' = "awaiting"
    /\ UNCHANGED <<rows, seen, conv, faults>>

NewRow(answered, status) ==
    [ws |-> job, answered |-> answered, status |-> status, red |-> FALSE]

(* The descriptor shows the conversation as it was created. *)
Answer ==
    /\ pc = "awaiting"
    /\ conv[Attempt] # "none"
    /\ \E s \in {"idle", "running"} :
          rows' = Append(rows, NewRow(TRUE, MapStatus(s)))
    /\ task' = "RUNNING"
    /\ pc' = "idle"
    /\ UNCHANGED <<job, seen, conv, wire, faults>>

(* The exception of the adapter is discarded: a FAILED run, and BLOCKED. *)
RecordFailure ==
    /\ pc = "awaiting"
    /\ rows' = Append(rows, NewRow(FALSE, "FAILED"))
    /\ task' = "BLOCKED"
    /\ pc' = "idle"

AnswerLost ==
    /\ RecordFailure
    /\ Fault("lost")
    /\ UNCHANGED <<job, seen, conv, wire>>

AnswerRefused ==
    /\ RecordFailure
    /\ Attempt \in wire
    /\ Fault("refused")
    /\ wire' = wire \ {Attempt}
    /\ UNCHANGED <<job, seen, conv>>

-----------------------------------------------------------------------------
(* Collection, cancellation, retry.                                        *)

(* The run before it failed its gates in the same checkout. *)
FollowsFailedGates == HasPrevious /\ Previous.red /\ Previous.ws = Latest.ws

DriveTask(status) ==
    task' = CASE status = "SUCCEEDED" -> "VALIDATING"
              [] status = "CANCELLED" -> "CANCELLED"
              [] status = "FAILED" ->
                   IF FollowsFailedGates THEN "BLOCKED" ELSE "FAILED"

(* Wrong variant: a run that is terminal in storage is collected again. *)
CollectAgain ==
    /\ task \in {"RUNNING", "VALIDATING"}
    /\ pc = "idle"
    /\ conv[Len(rows)] \notin {"none", "gone"}
    /\ LET status == MapStatus(conv[Len(rows)]) IN
       IF status \in Terminal
       THEN pc' = "summary" /\ seen' = status /\ UNCHANGED rows
       ELSE rows' = [rows EXCEPT ![Len(rows)].status = status] /\ UNCHANGED <<pc, seen>>
    /\ UNCHANGED <<task, job, conv, wire, faults>>

(* The first read; a 404 raises and changes nothing. *)
Collect ==
    /\ task \in {"RUNNING", "VALIDATING"}
    /\ pc = "idle"
    /\ Latest.status \notin Terminal
    /\ conv[Len(rows)] \notin {"none", "gone"}
    /\ LET status == MapStatus(conv[Len(rows)]) IN
       IF status \in Terminal
       THEN pc' = "summary" /\ seen' = status /\ UNCHANGED rows
       ELSE rows' = [rows EXCEPT ![Len(rows)].status = status] /\ UNCHANGED <<pc, seen>>
    /\ UNCHANGED <<task, job, conv, wire, faults>>

(* The second read: a response, or none (404).  The run is stored. *)
Summarise ==
    /\ pc = "summary"
    /\ rows' = [rows EXCEPT ![Len(rows)].status = seen]
    /\ DriveTask(seen)
    /\ pc' = "idle"
    /\ UNCHANGED <<job, seen, conv, wire, faults>>

(* Any other answer raises: the run keeps its status. *)
SummaryFails ==
    /\ pc = "summary"
    /\ Fault("unread")
    /\ pc' = "idle"
    /\ UNCHANGED <<task, rows, job, seen, conv, wire>>

(* Only an active run is cancelled; one that is gone needs no interrupt. *)
Cancel ==
    /\ Fault("stop")
    /\ Latest.status \in Active
    /\ conv' = [conv EXCEPT ![Len(rows)] =
                  IF @ \in {"idle", "running"} THEN "paused" ELSE @]
    /\ UNCHANGED <<task, rows, job, pc, seen, wire>>

FailedAttempts ==
    {k \in 1 .. Len(rows) : rows[k].status = "FAILED" \/ rows[k].red}

Retry ==
    /\ task = "BLOCKED"
    /\ Latest.status = "FAILED" \/ Latest.red
    /\ Cardinality(FailedAttempts) < RetryLimit
    /\ task' = "READY"
    /\ UNCHANGED <<rows, job, pc, seen, conv, wire, faults>>

-----------------------------------------------------------------------------
(* The agent server.                                                       *)

Create(k) ==
    /\ k \in wire
    /\ wire' = wire \ {k}
    /\ conv' = [conv EXCEPT ![k] = "idle"]
    /\ UNCHANGED <<task, rows, job, pc, seen, faults>>

Moves(k, from, to) ==
    /\ conv[k] \in from
    /\ conv' = [conv EXCEPT ![k] = to]
    /\ UNCHANGED <<task, rows, job, pc, seen, wire>>

Runs(k) == Moves(k, {"idle"}, "running") /\ UNCHANGED faults

Ends(k) == \E s \in Ended : Moves(k, {"running"}, s) /\ UNCHANGED faults

(* A person goes on with an interrupted conversation. *)
Resumes(k) == Moves(k, {"paused"}, "running") /\ UNCHANGED faults

Deletes(k) == Moves(k, Created, "deleting") /\ Fault("gone")

Gone(k) == Moves(k, {"deleting"}, "gone") /\ UNCHANGED faults

Server ==
    \E k \in Attempts :
        Create(k) \/ Runs(k) \/ Ends(k) \/ Resumes(k) \/ Deletes(k) \/ Gone(k)

-----------------------------------------------------------------------------

(* The first run: succeeded, gates red, requeued for its correction. *)
Init ==
    /\ task = "READY"
    /\ rows = <<[ws |-> 1, answered |-> TRUE, status |-> "SUCCEEDED", red |-> TRUE]>>
    /\ job = 1
    /\ pc = "idle"
    /\ seen = "none"
    /\ conv = [k \in Attempts |-> IF k = 1 THEN "finished" ELSE "none"]
    /\ wire = {}
    /\ faults = Faults

Next ==
    \/ Request \/ Answer \/ AnswerLost \/ AnswerRefused
    \/ Collect \/ Summarise \/ SummaryFails \/ Cancel \/ Retry
    \/ Server

Spec == Init /\ [][Next]_vars

(* The worker polls for as long as its run is active, and its requests     *)
(* time out.  A conversation starts at once (initial message with run) and *)
(* ends: it has max_iterations and stuck detection.  Nothing else is fair: *)
(* neither a person's retry or resumption, nor a fault.                    *)
Fairness ==
    /\ WF_vars(Answer \/ Collect \/ Summarise)
    /\ \A k \in Attempts : WF_vars(Create(k) \/ Runs(k) \/ Ends(k))

FairSpec == Spec /\ Fairness

-----------------------------------------------------------------------------
(* Properties.                                                             *)

(* The states of task, runs, worker and server. *)
TypeOK ==
    /\ task \in {"READY", "CLAIMED", "RUNNING", "VALIDATING", "BLOCKED",
                 "FAILED", "CANCELLED"}
    /\ rows \in Seq([ws : Attempts, answered : BOOLEAN,
                     status : Active \union Terminal, red : BOOLEAN])
    /\ Len(rows) <= RetryLimit + 1
    /\ job \in Attempts
    /\ pc \in {"idle", "awaiting", "summary"}
    /\ seen \in Terminal \union {"none"}
    /\ conv \in [Attempts -> Created \union {"none", "deleting", "gone"}]
    /\ wire \subseteq Attempts
    /\ faults \subseteq Faults

(* adapter.py collect, status.py: what the factory validates and publishes *)
(* was finished by its agent - not interrupted, stuck or torn down, and    *)
(* whatever happened to the conversation between or after the reads.       *)
SuccessMeansFinished ==
    /\ \A k \in 1 .. Len(rows) :
          rows[k].status = "SUCCEEDED" =>
              conv[k] \in {"finished", "deleting", "gone"}
    /\ task = "VALIDATING" => Latest.status = "SUCCEEDED"

(* The checkout an attempt works in: its run's, or the one it was sent to. *)
Where(k) == IF k <= Len(rows) THEN rows[k].ws ELSE job

(* An attempt the factory knows of - not one whose creation it gave up for *)
(* a lost answer - and whose agent may write its checkout, now or later.   *)
Writing == {k \in Attempts :
              /\ conv[k] \in {"idle", "running"} \/ k \in wire
              /\ k <= Len(rows) => rows[k].answered}

(* schema.py uq_agent_runs_workspace: a checkout is reused by sequential   *)
(* runs only - no two agents the factory knows of write it, however runs   *)
(* failed, were interrupted, resumed and retried in between.               *)
OneConversationPerCheckout ==
    \A k, l \in Writing : k # l => Where(k) # Where(l)

(* What storage shows of the correction. *)
CorrectionState ==
    IF Len(rows) < 2 THEN "none"
    ELSE IF ~ rows[2].answered THEN "ABSENT"
    ELSE IF rows[2].status \in Active THEN "RUNNING"
    ELSE rows[2].status

Engine == INSTANCE Agent WITH st <- CorrectionState

(* tracking.py refresh over this adapter: the correction shows the factory *)
(* what any agent shows - started once, ended once, with a final result -  *)
(* though its conversation can still be torn down afterwards.              *)
ImplementsAgent == Engine!Spec

(* A run that storage holds active ends, in spite of answers lost on its   *)
(* way, unless its conversation is interrupted or deleted on the server.   *)
RunEnds ==
    \A k \in Attempts :
        (k <= Len(rows) /\ rows[k].status \in Active)
            ~> \/ k <= Len(rows) /\ rows[k].status \in Terminal
               \/ conv[k] \in {"paused", "deleting", "gone"}

=============================================================================
