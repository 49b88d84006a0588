------------------------------- MODULE Tracking -------------------------------
(***************************************************************************)
(* Observation of a dispatched run (orchestration/tracking.py), what the   *)
(* runtime does with its outcome, and the agent processes it observes.     *)
(***************************************************************************)
EXTENDS Worker

-----------------------------------------------------------------------------
(* Agent processes (external): an agent ends by itself, at its deadline,   *)
(* because the pool asked it to stop, or without leaving a result.         *)

AgentEnds(a) ==
    /\ engine[a].st = "RUNNING"
    /\ \/ /\ \E st \in {"SUCCEEDED", "FAILED"} :
                engine' = [engine EXCEPT ![a].st = st]
          /\ NoFault
       \/ /\ Fault("timeout")
          /\ engine' = [engine EXCEPT ![a].st = "TIMEOUT"]
       \/ /\ Fault("cancel")
          /\ engine' = [engine EXCEPT ![a].st = "CANCELLED"]
       \/ /\ Fault("lost")
          /\ engine' = [engine EXCEPT ![a].st = "LOST"]
    /\ UNCHANGED <<store, pc, task, job, note>>

(* The deadline and its grace period pass without a result file.  The      *)
(* worker's own timeout starts later: one that started late or hangs may   *)
(* be alive still, which is outside this model (see README.md).            *)
AgentExpires(a) ==
    /\ engine[a].st = "LOST"
    /\ engine' = [engine EXCEPT ![a].st = "EXPIRED"]
    /\ UNCHANGED <<store, faults, pc, task, job, note>>

(* Wrong variants: the worker's own words are stored as the run status;    *)
(* no deadline ends the wait for a result.                                 *)
CollectedVerbatim(a) ==
    IF engine[a].st \in {"RUNNING", "LOST"} THEN "RUNNING" ELSE engine[a].st

(* Wrong variant: a lost run stays active. *)
CollectedForever(a) ==
    CASE engine[a].st \in {"RUNNING", "LOST", "EXPIRED"} -> "RUNNING"
      [] engine[a].st \in {"SUCCEEDED", "CANCELLED"} -> engine[a].st
      [] OTHER -> "FAILED"

(* What collect makes of the result file, or of its absence. *)
Collected(a) ==
    CASE engine[a].st \in {"RUNNING", "LOST"} -> "RUNNING"
      [] engine[a].st \in {"SUCCEEDED", "CANCELLED"} -> engine[a].st
      [] OTHER -> "FAILED"

-----------------------------------------------------------------------------
(* RunTrackingService.refresh *)

StoredRow(s) == runs[task[s]][CHOOSE i \in RowOf(task[s], job[s].id) : TRUE]

(* Wrong variant: a run that ended is collected and validated again. *)
CollectAgain(s) ==
    LET row == StoredRow(s) IN
    /\ At(s, "poll")
    /\ \E verdict \in IF Collected(row.id) = "SUCCEEDED"
                      THEN {"green", "red"} ELSE {row.gates} :
          job' = [job EXCEPT ![s] =
                    [row EXCEPT !.status = Collected(row.id),
                                !.gates = verdict]]
    /\ Goto(s, "store")
    /\ UNCHANGED <<store, engine, faults, task, note>>

(* The stored run is active: collect it and, if it succeeded, run the      *)
(* gates, which pass or do not.                                            *)
Collect(s) ==
    LET row == StoredRow(s) IN
    /\ At(s, "poll")
    /\ ~ IsTerminal(row)
    /\ \E verdict \in IF Collected(row.id) = "SUCCEEDED"
                      THEN {"green", "red"} ELSE {row.gates} :
          job' = [job EXCEPT ![s] =
                    [row EXCEPT !.status = Collected(row.id),
                                !.gates = verdict]]
    /\ Goto(s, "store")
    /\ UNCHANGED <<store, engine, faults, task, note>>

(* AgentCollectError: nothing is persisted, a later pass observes again. *)
CollectFails(s) ==
    /\ At(s, "poll")
    /\ ~ IsTerminal(StoredRow(s))
    /\ Fault("collect")
    /\ Leave(s)
    /\ UNCHANGED <<store, engine, task>>

(* The stored run is terminal already: only the latest one may drive. *)
ObserveTerminal(s) ==
    LET row == StoredRow(s) IN
    /\ At(s, "poll")
    /\ IsTerminal(row)
    /\ Goto(s, IF IsLatestRun(task[s], row.id) THEN "drive" ELSE "act")
    /\ job' = [job EXCEPT ![s] = row]
    /\ UNCHANGED <<store, engine, faults, task, note>>

StoreRun(s) ==
    /\ At(s, "store")
    /\ \E i \in RowOf(task[s], job[s].id) :
          /\ IndexesAllow(task[s], i, Updated(task[s], i, job[s]))
          /\ UpdateRun(task[s], i, job[s])
    /\ Goto(s, "drive")
    /\ UNCHANGED <<status, reason, hist, rework, prs>>
    /\ UNCHANGED <<engine, faults, task, job, note>>

(* The write would make a second run active: IntegrityError. *)
StoreRefused(s) ==
    /\ At(s, "store")
    /\ \A i \in RowOf(task[s], job[s].id) :
          ~ IndexesAllow(task[s], i, Updated(task[s], i, job[s]))
    /\ Leave(s)
    /\ UNCHANGED <<store, engine, faults, task>>

(* The latest run corrects failed gates in the same checkout. *)
FollowsFailedGates(t, row) ==
    /\ HasPrevious(t)
    /\ IsLatestRun(t, row.id)
    /\ GatesFailed(PreviousRun(t))
    /\ PreviousRun(t).ws = row.ws

(* Where a terminal run takes its task; a failed correction is recoverable.*)
DriveTarget(t, row) ==
    CASE row.status = "SUCCEEDED" -> "VALIDATING"
      [] row.status = "CANCELLED" -> "CANCELLED"
      [] OTHER -> IF HasReworkFeedback(t) \/ FollowsFailedGates(t, row)
                  THEN "BLOCKED" ELSE "FAILED"

(* _drive_task: an edge the lifecycle does not have is ignored. *)
DriveTask(t, row) ==
    IF IsTerminal(row) /\ ~ TransitionRefused(t, DriveTarget(t, row))
    THEN Transition(t, DriveTarget(t, row))
    ELSE UNCHANGED <<status, hist>>

Drive(s) ==
    /\ At(s, "drive")
    /\ DriveTask(task[s], job[s])
    /\ Goto(s, IF IsTerminal(job[s]) THEN "act" ELSE "poll")
    /\ UNCHANGED <<reason, runs, rework, prs, engine, faults, task, job, note>>

(* After a refresh that found the run active, the polling deadline may have *)
(* passed: TIMEOUT_RESUMABLE.                                              *)
PollTimeout(s) ==
    /\ At(s, "drive")
    /\ ~ IsTerminal(job[s])
    /\ Leave(s)
    /\ UNCHANGED <<store, engine, faults, task>>

(* ReconciliationService.reconcile: repair a task whose latest run ended   *)
(* before the transition it implies was applied.                           *)
Reconcile(s, t) ==
    /\ At(s, "idle") /\ Free(t)
    /\ status[t] \in BusyStatus
    /\ HasRun(t)
    /\ IsTerminal(LatestRun(t))
    /\ DriveTask(t, LatestRun(t))
    /\ UNCHANGED <<reason, runs, rework, prs>>
    /\ UNCHANGED <<engine, faults, pc, task, job, note>>

-----------------------------------------------------------------------------
(* The runtime acts on the outcome *)

(* The number of gate failures in a row, the latest run last. *)
GateFailureStreak(t) ==
    Cardinality({i \in DOMAIN runs[t] :
                   \A j \in i..Len(runs[t]) : GatesFailed(runs[t][j])})

Concerns(s) == At(s, "act") /\ UNCHANGED <<reason, runs, rework, prs>>
                            /\ UNCHANGED <<engine, faults, task>>

ActNotSuccessful(s) ==
    LET t == task[s] IN
    /\ Concerns(s)
    /\ job[s].status # "SUCCEEDED"
    /\ UNCHANGED <<status, hist>>
    /\ IF t \in Operational /\ status[t] = "FAILED"
       THEN /\ Goto(s, "note")
            /\ note' = [note EXCEPT ![s] =
                 [to |-> "FAILED", why |-> [kind |-> "operational", run |-> 0]]]
            /\ UNCHANGED job
       ELSE Leave(s)

(* Red gates send CODE back to READY until the correction limit. *)
ActRequeue(s) ==
    LET t == task[s] IN
    /\ Concerns(s)
    /\ GatesFailed(job[s])
    /\ IsCode(t)
    /\ status[t] = "VALIDATING"
    /\ GateFailureStreak(t) <= CorrectionLimit
    /\ Transition(t, "READY")
    /\ Leave(s)

ActBlock(s) ==
    LET t == task[s] IN
    /\ Concerns(s)
    /\ GatesFailed(job[s])
    /\ status[t] = "VALIDATING"
    /\ IsCode(t) => GateFailureStreak(t) > CorrectionLimit
    /\ BlockLater(s, IF IsCode(t) THEN "correction" ELSE "operational", 0)
    /\ UNCHANGED <<status, hist, job>>

(* Red gates, but the task is not VALIDATING any more. *)
ActNothing(s) ==
    /\ Concerns(s)
    /\ GatesFailed(job[s])
    /\ status[task[s]] # "VALIDATING"
    /\ UNCHANGED <<status, hist>>
    /\ Leave(s)

(* Green gates finish an operational task and publish a CODE task. *)
ActDone(s) ==
    LET t == task[s] IN
    /\ Concerns(s)
    /\ Publishable(job[s])
    /\ t \in Operational
    /\ IF status[t] = "VALIDATING" THEN Transition(t, "DONE")
                                   ELSE UNCHANGED <<status, hist>>
    /\ Leave(s)

ActPublish(s) ==
    /\ Concerns(s)
    /\ Publishable(job[s])
    /\ IsCode(task[s])
    /\ Goto(s, "publish")
    /\ UNCHANGED <<status, hist, job, note>>

(* RuntimeService._block: the transition, then (WriteNote) the row.  The   *)
(* row write puts back the status the caller holds.                        *)
Block(s) ==
    /\ At(s, "block")
    /\ Transition(task[s], "BLOCKED")
    /\ Goto(s, "note")
    /\ UNCHANGED <<reason, runs, rework, prs, engine, faults, task, job, note>>

BlockRefused(s) ==
    /\ At(s, "block")
    /\ TransitionRefused(task[s], "BLOCKED")
    /\ Leave(s)
    /\ UNCHANGED <<store, engine, faults, task>>

WriteNote(s) ==
    /\ At(s, "note")
    /\ UpdateRow(task[s], note[s].to, note[s].why)
    /\ Leave(s)
    /\ UNCHANGED <<runs, rework, prs, engine, faults, task>>

=============================================================================
