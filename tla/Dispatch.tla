------------------------------- MODULE Dispatch -------------------------------
(***************************************************************************)
(* Dispatch of a READY task to a coding agent (orchestration/dispatch.py,  *)
(* called from runtime.py): context, claim, workspace, agent start, run    *)
(* row, RUNNING, in that order.                                            *)
(***************************************************************************)
EXTENDS Worker

(* The run whose gate verdict a new attempt answers: a FAILED correction   *)
(* in the same checkout passes the question on to the run before it.       *)
GateSource(t) ==
    IF /\ LatestRun(t).status = "FAILED"
       /\ HasPrevious(t)
       /\ PreviousRun(t).ws = LatestRun(t).ws
    THEN PreviousRun(t) ELSE LatestRun(t)

TimeoutRecovery(t) ==
    /\ LatestRun(t).status = "FAILED"
    /\ reason[t] = [kind |-> "timeout", run |-> LatestRun(t).id]

(* dispatch_rework instead of dispatch: work on in the latest checkout. *)
ReusesWorkspace(t) ==
    /\ IsCode(t)
    /\ HasRun(t)
    /\ TimeoutRecovery(t) \/ HasReworkFeedback(t) \/ GatesFailed(GateSource(t))

Dispatchable(t) == status[t] = "READY" /\ ActiveRuns(t) = {}

BuildContext(s) ==
    LET t == task[s] IN
    /\ At(s, "dispatch")
    /\ Dispatchable(t)
    /\ Goto(s, "claim")
    /\ job' = [job EXCEPT ![s] =
                 [NoRow EXCEPT !.ws =
                    IF ReusesWorkspace(t) THEN LatestRun(t).ws ELSE 0]]
    /\ UNCHANGED <<store, engine, faults, task, note>>

(* Wrong variant: the reason is saved on the task object read before. *)
ContextFailsStale(s) ==
    LET t == task[s] IN
    /\ At(s, "dispatch")
    /\ Dispatchable(t)
    /\ IsCode(t)
    /\ Fault("context")
    /\ ApplyTransition(t, "READY", "BLOCKED")
    /\ Goto(s, "note")
    /\ note' = [note EXCEPT ![s] =
                  [to |-> "READY", why |-> [kind |-> "context", run |-> 0]]]
    /\ UNCHANGED <<reason, runs, rework, prs, engine, task, job>>

(* READY -> BLOCKED; the reason is written by a second transaction. *)
ContextFails(s) ==
    LET t == task[s] IN
    /\ At(s, "dispatch")
    /\ Dispatchable(t)
    /\ IsCode(t)
    /\ Fault("context")
    /\ ApplyTransition(t, "READY", "BLOCKED")
    /\ Goto(s, "note")
    /\ note' = [note EXCEPT ![s] =
                  [to |-> "BLOCKED", why |-> [kind |-> "context", run |-> 0]]]
    /\ UNCHANGED <<reason, runs, rework, prs, engine, task, job>>

(* Someone else moved the task: TaskNotReadyError, DispatchConflictError. *)
DispatchRefused(s) ==
    /\ At(s, "dispatch")
    /\ ~ Dispatchable(task[s])
    /\ Leave(s)
    /\ UNCHANGED <<store, engine, faults, task>>

Claim(s) ==
    /\ At(s, "claim")
    /\ Transition(task[s], "CLAIMED")
    /\ Goto(s, "launch")
    /\ UNCHANGED <<reason, runs, rework, prs, engine, faults, task, job, note>>

ClaimRefused(s) ==
    /\ At(s, "claim")
    /\ TransitionRefused(task[s], "CLAIMED")
    /\ Leave(s)
    /\ UNCHANGED <<store, engine, faults, task>>

(* The checkout cannot be prepared: the task stays CLAIMED, without a run. *)
ProvisionFails(s) ==
    /\ At(s, "launch")
    /\ Fault("provision")
    /\ Leave(s)
    /\ UNCHANGED <<store, engine, task>>

(* Attempt ids are used in order. *)
NextAttempt(a) == /\ engine[a].st = "none"
                  /\ \A b \in Attempt : b < a => engine[b].st # "none"

(* The attempt gets its workspace (a fresh one, or the planned one) and    *)
(* the agent reports what state it starts in.                              *)
Start(s, a, st, row, step) ==
    LET ws == IF job[s].ws = 0 THEN a ELSE job[s].ws IN
    /\ At(s, "launch")
    /\ NextAttempt(a)
    /\ engine' = [engine EXCEPT ![a] = [st |-> st, ws |-> ws]]
    /\ job' = [job EXCEPT ![s] =
                 [id |-> a, ws |-> ws, status |-> row, gates |-> "none"]]
    /\ Goto(s, step)
    /\ UNCHANGED <<store, task, note>>

(* Wrong variant: RUNNING before the run row is written. *)
LaunchUnsaved(s, a) == Start(s, a, "RUNNING", "RUNNING", "advance") /\ NoFault

Launch(s, a) == Start(s, a, "RUNNING", "RUNNING", "save") /\ NoFault

(* The adapter reports an agent that could not be started. *)
LaunchStillborn(s, a) ==
    Start(s, a, "ABSENT", "FAILED", "save") /\ Fault("stillborn")

(* The adapter raises: a FAILED run is recorded and the task blocked. *)
LaunchRaises(s, a) == Start(s, a, "ABSENT", "FAILED", "fail") /\ Fault("raise")

PersistRun(s) ==
    /\ \/ At(s, "save") /\ Goto(s, "advance")
       \/ At(s, "fail") /\ Goto(s, "unclaim")
    /\ CanSaveRun(task[s], job[s])
    /\ SaveRun(task[s], job[s])
    /\ UNCHANGED <<status, reason, hist, rework, prs>>
    /\ UNCHANGED <<engine, faults, task, job, note>>

(* DuplicateRunError: the index kept a second active run out.  A FAILED row *)
(* is never refused.                                                       *)
PersistRefused(s) ==
    /\ At(s, "save")
    /\ ~ CanSaveRun(task[s], job[s])
    /\ Leave(s)
    /\ UNCHANGED <<store, engine, faults, task>>

AdvanceToRunning(s) ==
    /\ At(s, "advance")
    /\ Transition(task[s], "RUNNING")
    /\ Goto(s, "poll")
    /\ UNCHANGED <<reason, runs, rework, prs, engine, faults, task, job, note>>

AdvanceRefused(s) ==
    /\ At(s, "advance")
    /\ TransitionRefused(task[s], "RUNNING")
    /\ Leave(s)
    /\ UNCHANGED <<store, engine, faults, task>>

Unclaim(s) ==
    /\ At(s, "unclaim")
    /\ \/ ApplyTransition(task[s], "CLAIMED", "BLOCKED")
       \/ status[task[s]] # "CLAIMED" /\ UNCHANGED <<status, hist>>
    /\ Leave(s)
    /\ UNCHANGED <<reason, runs, rework, prs, engine, faults, task>>

=============================================================================
