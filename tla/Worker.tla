-------------------------------- MODULE Worker --------------------------------
(***************************************************************************)
(* Worker sessions: a session drives one task through dispatch, tracking   *)
(* and publication (orchestration/runtime.py _run_once and the services it *)
(* calls).  Every step between two durable writes is an action of its own, *)
(* so other sessions, the operator and a crash can come in between.        *)
(*                                                                         *)
(* pc[s] names the next step of session s:                                 *)
(*   idle      no task                  dispatch  task READY, plan it      *)
(*   claim     context built            launch    claim won                *)
(*   save      agent started            advance   run row written          *)
(*   fail      agent start raised       unclaim   FAILED row written       *)
(*   poll      observe the run          store     result in hand           *)
(*   drive     row written              act       outcome known            *)
(*   publish   run green                persist   provider PR open         *)
(*   open      PR row written           await     task PR_OPEN             *)
(*   pubfail   publication raised                                          *)
(*   block     about to block           note      blocked, reason to write *)
(***************************************************************************)
EXTENDS FactoryStore

CONSTANTS
    Session,      \* worker sessions
    SharedTasks,  \* whether two processes may drive one task at a time
    Faults,       \* which environment faults may happen
    MaxFaults     \* bound: how many of them happen in a behaviour

FaultKind ==
    {"ineligible", "routing", "context", "provision", "raise", "stillborn",
     "collect", "lost", "timeout", "cancel", "security", "publish", "crash"}

ASSUME WorkerAssumption ==
    /\ SharedTasks \in BOOLEAN
    /\ Faults \subseteq FaultKind
    /\ MaxFaults \in Nat

VARIABLES
    engine,  \* each attempt's agent process, and the workspace it writes to
    faults,  \* faults so far
    pc, task, job,  \* per session: step, task, run row in hand (ws: plan)
    note            \* per session: the row write that follows a transition

worker == <<engine, faults, pc, task, job, note>>

PC == {"idle", "dispatch", "claim", "launch", "save", "advance", "fail",
       "unclaim", "poll", "store", "drive", "act", "publish", "persist",
       "open", "await", "pubfail", "block", "note"}

(* RUNNING agents outlive the process that started them.  ABSENT: never    *)
(* started.  LOST: died without a result; EXPIRED: and its deadline passed.*)
EngineState == {"none", "ABSENT", "RUNNING", "SUCCEEDED", "FAILED",
                "TIMEOUT", "CANCELLED", "LOST", "EXPIRED"}

Note == [to : TaskStatus, why : Reason]
NoNote == [to |-> "BLOCKED", why |-> [kind |-> "none", run |-> 0]]

WorkerTypeOK ==
    /\ engine \in [Attempt -> [st : EngineState, ws : AttemptOrNone]]
    /\ faults \in 0..MaxFaults
    /\ pc \in [Session -> PC]
    /\ task \in [Session -> Task]
    /\ job \in [Session -> Row]
    /\ note \in [Session -> Note]

WorkerInit ==
    /\ engine = [a \in Attempt |-> [st |-> "none", ws |-> 0]]
    /\ faults = 0
    /\ pc = [s \in Session |-> "idle"]
    /\ task \in [Session -> Task]
    /\ job = [s \in Session |-> NoRow]
    /\ note = [s \in Session |-> NoNote]

-----------------------------------------------------------------------------
(* Shorthands *)

Goto(s, step) == pc' = [pc EXCEPT ![s] = step]
At(s, step) == pc[s] = step
Leave(s) == /\ Goto(s, "idle")
            /\ job' = [job EXCEPT ![s] = NoRow]
            /\ note' = [note EXCEPT ![s] = NoNote]

Fault(kind) == /\ kind \in Faults
               /\ faults < MaxFaults
               /\ faults' = faults + 1
NoFault == UNCHANGED faults

(* The pool submits a task to one session at a time; a second process is   *)
(* not stopped by that.                                                    *)
Free(t) == SharedTasks \/ \A s \in Session : pc[s] = "idle" \/ task[s] # t

Take(s, t, step) ==
    /\ At(s, "idle")
    /\ Free(t)
    /\ Goto(s, step)
    /\ task' = [task EXCEPT ![s] = t]

IsCode(t) == t \notin Operational

BlockLater(s, kind, run) ==
    /\ Goto(s, "block")
    /\ note' = [note EXCEPT ![s] =
                  [to |-> "BLOCKED", why |-> [kind |-> kind, run |-> run]]]

-----------------------------------------------------------------------------
(* Selection: from a stored task to the first step of a session *)

Unstarted(t) == /\ status[t] \in {"DISCOVERED", "READY"}
                /\ ~ HasRun(t)
                /\ hist[t].onlyReady

(* A DISCOVERED task or an accepted change request becomes READY. *)
Begin(s, t) ==
    /\ status[t] \in {"DISCOVERED", "READY", "CHANGES_REQUESTED"}
    /\ ActiveRuns(t) = {}
    /\ Take(s, t, "dispatch")
    /\ Transition(t, "READY")
    /\ UNCHANGED <<reason, runs, rework, prs, engine, faults, job, note>>

(* The source issue lost its eligibility before any work started. *)
CancelIneligible(s, t) ==
    /\ Unstarted(t)
    /\ ActiveRuns(t) = {}
    /\ At(s, "idle") /\ Free(t)
    /\ Fault("ineligible")
    /\ Transition(t, "CANCELLED")
    /\ UNCHANGED <<reason, runs, rework, prs, engine, pc, task, job, note>>

(* The project registry no longer routes the task to its repository. *)
RejectRouting(s, t) ==
    /\ IsCode(t)
    /\ status[t] \in {"READY", "CLAIMED", "RUNNING", "VALIDATING"}
    /\ At(s, "idle") /\ Free(t)
    /\ Fault("routing")
    /\ BlockLater(s, "routing", 0)
    /\ task' = [task EXCEPT ![s] = t]
    /\ UNCHANGED <<store, engine, job>>

(* The active run, else the latest one, is observed again.  A claim that   *)
(* human QA caused never falls back to the reviewed run.                   *)
Resume(s, t) ==
    /\ status[t] \in BusyStatus
    /\ HasRun(t)
    /\ status[t] = "CLAIMED" /\ ActiveRuns(t) = {} => ~ HasReworkFeedback(t)
    /\ Take(s, t, "poll")
    /\ job' = [job EXCEPT ![s] =
                 IF ActiveRuns(t) = {} THEN LatestRun(t)
                 ELSE runs[t][CHOOSE i \in ActiveRuns(t) : TRUE]]
    /\ UNCHANGED <<store, engine, faults, note>>

=============================================================================
