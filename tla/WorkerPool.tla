------------------------------ MODULE WorkerPool ------------------------------
(***************************************************************************)
(* One pool process (orchestration/worker_pool.py, `factory pool`): its    *)
(* main thread repeats scheduling passes, its sessions are threads, and a  *)
(* SIGINT or SIGTERM asks it to stop.  A session is the detailed Worker of *)
(* the factory model reduced to what the pool can tell apart: whether it   *)
(* has read its task, whether its agent runs without a row in agent_runs,  *)
(* whether the row is there, and whether the future is done.               *)
(*                                                                         *)
(* ppc, the main thread's next step:                                       *)
(*   idle     run: look at the stop flag   prepare  prepare_pool           *)
(*   list     one query of pool_candidates room     look at slots and flag *)
(*   submit   start the next candidate     wait     wait for a future      *)
(*   report   pop and report a future      asking   cancel active sessions *)
(*   sleep    look at the flag             enter    about to call select   *)
(*   select   blocked in select            drain    executor.__exit__      *)
(*   returned, failed                                                      *)
(***************************************************************************)
EXTENDS TaskLifecycle, Naturals, FiniteSets, Sequences, SequencesExt

CONSTANTS
    Task,
    MaxConcurrency,  \* FACTORY_MAX_CONCURRENCY
    MaxEvents        \* bound: calls that raise and transitions made by
                     \* other processes

ASSUME PoolAssumption ==
    /\ IsFiniteSet(Task)
    /\ MaxConcurrency \in 1..2
    /\ MaxEvents \in Nat

VARIABLES
    status,              \* tasks.status; "none" before the intake
    ppc, pending, query, \* the main thread: candidates left, next query
    requested,           \* run_pass: cancellation_requested
    session, task,       \* per slot: the session's phase and its task
    asked,               \* slots whose agent was asked to cancel
    stop, tripped, byte, \* stop flag, signal not yet handled, wakeup pipe
    late,                \* submissions since the stop request
    errors, moves        \* events so far: calls that raised, moves

pool == <<ppc, pending, query, requested>>
sessions == <<session, task, asked>>
signals == <<stop, tripped, byte>>
vars == <<status, pool, sessions, signals, late, errors, moves>>

Slot == 1..MaxConcurrency

Phase == {"free", "queued", "launching", "tracked", "publishing", "over"}

(* Wrong variant: CLAIMED tasks are not candidates. *)
CandidateStatusWithoutClaimed ==
    <<"PR_OPEN", "VALIDATING", "RUNNING", "CHANGES_REQUESTED", "READY",
      "DISCOVERED">>

(* The order in which pool_candidates queries the statuses. *)
CandidateStatus ==
    <<"PR_OPEN", "VALIDATING", "RUNNING", "CLAIMED", "CHANGES_REQUESTED",
      "READY", "DISCOVERED">>

(* Neither terminal nor waiting for a person. *)
Unfinished ==
    TaskStatus \ {"WAITING_HUMAN", "BLOCKED", "DONE", "FAILED", "CANCELLED"}

Ended == ppc \in {"returned", "failed"}

TypeOK ==
    /\ status \in [Task -> TaskStatus \union {"none"}]
    /\ ppc \in {"idle", "prepare", "list", "room", "submit", "wait", "report",
                "asking", "sleep", "enter", "select", "drain",
                "returned", "failed"}
    /\ pending \in Seq(Task)
    /\ query \in 1..(Len(CandidateStatus) + 1)
    /\ requested \in BOOLEAN
    /\ session \in [Slot -> Phase]
    /\ task \in [Slot -> Task \union {"none"}]
    /\ \A s \in Slot : task[s] = "none" <=> session[s] = "free"
    /\ asked \subseteq {s \in Slot : session[s] # "free"}
    /\ stop \in BOOLEAN /\ tripped \in BOOLEAN /\ byte \in BOOLEAN
    /\ late \in Nat
    /\ errors \in Nat /\ moves \in Nat /\ errors + moves <= MaxEvents

Init ==
    /\ status \in [Task -> Unfinished \union {"none"}]
    /\ ppc = "idle" /\ pending = <<>> /\ query = 1 /\ requested = FALSE
    /\ session = [s \in Slot |-> "free"]
    /\ task = [s \in Slot |-> "none"]
    /\ asked = {}
    /\ stop = FALSE /\ tripped = FALSE /\ byte = FALSE
    /\ late = 0 /\ errors = 0 /\ moves = 0

-----------------------------------------------------------------------------
(* The main thread.  Python runs a pending signal handler before its next  *)
(* step, so no step of the main thread is taken while one is pending.      *)

Main(from, to) ==
    /\ ppc = from /\ ppc' = to
    /\ ~tripped
    /\ UNCHANGED <<tripped, stop, moves>>

Active == {s \in Slot : session[s] # "free"}

(* Wrong variant: a pass begins although a stop was requested. *)
BeginPassAlways ==
    /\ Main("idle", "prepare")
    /\ UNCHANGED <<status, pending, query, requested, sessions, byte, late,
                   errors>>

(* run and the beginning of run_pass: both look at the flag. *)
BeginPass ==
    /\ ~stop
    /\ Main("idle", "prepare")
    /\ UNCHANGED <<status, pending, query, requested, sessions, byte, late,
                   errors>>

StopBeforePass ==
    /\ stop
    /\ Main("idle", "returned")
    /\ UNCHANGED <<status, pending, query, requested, sessions, byte, late,
                   errors>>

(* prepare_pool: the intake may add tasks. *)
Prepare ==
    /\ Main("prepare", "list")
    /\ \E new \in SUBSET {t \in Task : status[t] = "none"} :
           status' = [t \in Task |-> IF t \in new THEN "READY" ELSE status[t]]
    /\ query' = 1 /\ pending' = <<>>
    /\ UNCHANGED <<requested, sessions, byte, late, errors>>

(* A conflict with another process, or a provider failure: no session was  *)
(* submitted, and the next pass tries again.                               *)
PrepareConflicts ==
    /\ errors + moves < MaxEvents /\ errors' = errors + 1
    /\ Main("prepare", "sleep")
    /\ UNCHANGED <<status, pending, query, requested, sessions, byte, late>>

(* Any other exception leaves the pool. *)
PrepareFails ==
    /\ errors + moves < MaxEvents /\ errors' = errors + 1
    /\ Main("prepare", "failed")
    /\ UNCHANGED <<status, pending, query, requested, sessions, byte, late>>

(* pool_candidates, one query: each one reads the table anew. *)
Query ==
    /\ query <= Len(CandidateStatus)
    /\ Main("list", "list")
    /\ pending' = pending \o
           SetToSeq({t \in Task : status[t] = CandidateStatus[query]})
    /\ query' = query + 1
    /\ UNCHANGED <<status, requested, sessions, byte, late, errors>>

Listed ==
    /\ query > Len(CandidateStatus)
    /\ Main("list", "room")
    /\ requested' = FALSE
    /\ UNCHANGED <<status, pending, query, sessions, byte, late, errors>>

(* Wrong variant: the stop request is not looked at. *)
HasRoomUnstopped == Cardinality(Active) < MaxConcurrency

(* The condition of the scheduling loop, then the next candidate. *)
HasRoom == Cardinality(Active) < MaxConcurrency /\ ~stop

TakeCandidate ==
    /\ HasRoom /\ pending # <<>>
    /\ Main("room", "submit")
    /\ UNCHANGED <<status, pending, query, requested, sessions, byte, late,
                   errors>>

Submit ==
    /\ Main("submit", "room")
    /\ pending' = Tail(pending)
    /\ LET s == CHOOSE s \in Slot : session[s] = "free"
       IN  /\ session' = [session EXCEPT ![s] = "queued"]
           /\ task' = [task EXCEPT ![s] = Head(pending)]
    /\ late' = IF stop THEN late + 1 ELSE late
    /\ UNCHANGED <<status, query, requested, asked, byte, errors>>

StopScheduling ==
    /\ ~HasRoom \/ pending = <<>>
    /\ Main("room", IF Active = {} THEN "sleep" ELSE "wait")
    /\ UNCHANGED <<status, pending, query, requested, sessions, byte, late,
                   errors>>

(* wait returned a future: it is reported and its slot is free again. *)
Over == {s \in Slot : session[s] = "over"}

Report ==
    /\ Main("wait", "report")
    /\ \E s \in Over :
           /\ session' = [session EXCEPT ![s] = "free"]
           /\ task' = [task EXCEPT ![s] = "none"]
           /\ asked' = asked \ {s}
    /\ UNCHANGED <<status, pending, query, requested, byte, late, errors>>

(* on_session raises: the with block waits for the other sessions. *)
ReportFails ==
    /\ errors + moves < MaxEvents /\ errors' = errors + 1
    /\ Over # {}
    /\ Main("wait", "drain")
    /\ UNCHANGED <<status, pending, query, requested, sessions, byte, late>>

(* After a report, and after a wait that timed out, the flag is looked at. *)
MustAsk == stop /\ Active # {} /\ ~requested

AfterReport ==
    /\ Main("report", IF MustAsk THEN "asking" ELSE "room")
    /\ UNCHANGED <<status, pending, query, requested, sessions, byte, late,
                   errors>>

WaitTimesOut ==
    /\ Over = {}
    /\ Main("wait", IF MustAsk THEN "asking" ELSE "room")
    /\ UNCHANGED <<status, pending, query, requested, sessions, byte, late,
                   errors>>

(* _cancel_active: a session without an active row is passed over, and the *)
(* request is made once.  An adapter that raises is logged and passed over *)
(* too.                                                                    *)
Askable == {s \in Slot : session[s] = "tracked"}

CancelActive ==
    /\ Main("asking", "room")
    /\ requested' = TRUE
    /\ \E raising \in SUBSET Askable :
           /\ errors + moves + Cardinality(raising) <= MaxEvents
           /\ errors' = errors + Cardinality(raising)
           /\ asked' = asked \union (Askable \ raising)
    /\ UNCHANGED <<status, pending, query, session, task, byte, late>>

DrainEnds ==
    /\ \A s \in Slot : session[s] \in {"free", "over"}
    /\ Main("drain", "failed")
    /\ session' = [s \in Slot |-> "free"]
    /\ task' = [s \in Slot |-> "none"]
    /\ asked' = {}
    /\ UNCHANGED <<status, pending, query, requested, byte, late, errors>>

-----------------------------------------------------------------------------
(* _CooperativeStop and the signal handlers *)

SleepSkipped ==
    /\ stop
    /\ Main("sleep", "idle")
    /\ UNCHANGED <<status, pending, query, requested, sessions, byte, late,
                   errors>>

SleepBegins ==
    /\ ~stop
    /\ Main("sleep", "enter")
    /\ UNCHANGED <<status, pending, query, requested, sessions, byte, late,
                   errors>>

(* The interpreter is inside the call: a handler no longer runs before the *)
(* system call, and only the pipe can end it early.                        *)
EnterSelect ==
    /\ ppc = "enter" /\ ppc' = "select"
    /\ UNCHANGED <<status, pending, query, requested, sessions, signals, late,
                   errors, moves>>

SelectReadable ==
    /\ ppc = "select" /\ byte
    /\ ppc' = "idle" /\ byte' = FALSE
    /\ UNCHANGED <<status, pending, query, requested, sessions, stop, tripped,
                   late, errors, moves>>

SelectExpires ==
    /\ ppc = "select" /\ ~byte
    /\ ppc' = "idle"
    /\ UNCHANGED <<status, pending, query, requested, sessions, signals, late,
                   errors, moves>>

(* The C-level handler writes to the wakeup descriptor. *)
WakeupByte == TRUE

Signal ==
    /\ ~stop /\ ~tripped /\ ~Ended /\ ppc # "select"
    /\ tripped' = TRUE
    /\ byte' = WakeupByte
    /\ UNCHANGED <<status, pool, sessions, stop, late, errors, moves>>

(* The Python-level handler, request(), runs between two steps.            *)
Handler ==
    /\ tripped /\ ppc \notin {"enter", "select"}
    /\ tripped' = FALSE
    /\ stop' = TRUE /\ byte' = TRUE
    /\ UNCHANGED <<status, pool, sessions, late, errors, moves>>

(* A signal that arrives in the system call interrupts it: the handler     *)
(* runs, and the call is made again.                                       *)
Interrupted ==
    /\ ppc = "select" /\ ~stop /\ ~tripped
    /\ stop' = TRUE /\ byte' = TRUE
    /\ UNCHANGED <<status, pool, sessions, tripped, late, errors, moves>>

-----------------------------------------------------------------------------
(* FactoryRuntime.run_task, in a thread of the executor *)

Become(s, phase) == session' = [session EXCEPT ![s] = phase]

Set(s, st) == status' = [status EXCEPT ![task[s]] = st]

Keep == UNCHANGED <<pool, task, asked, signals, late, errors, moves>>

Dispatchable == {"DISCOVERED", "READY", "CHANGES_REQUESTED", "CLAIMED"}

(* The task is claimed and its agent started; the row comes later. *)
Launch(s) ==
    /\ session[s] = "queued" /\ status[task[s]] \in Dispatchable
    /\ Set(s, "CLAIMED") /\ Become(s, "launching")
    /\ Keep

(* No capacity, no longer eligible, a lost compare-and-swap, or a task     *)
(* that another process moved on since it was listed.                      *)
Decline(s) ==
    /\ session[s] = "queued"
    /\ status[task[s]] \notin {"RUNNING", "VALIDATING", "PR_OPEN"}
    /\ Become(s, "over")
    /\ UNCHANGED status /\ Keep

Resume(s) ==
    /\ session[s] = "queued"
    /\ \/ status[task[s]] = "RUNNING" /\ Become(s, "tracked")
       \/ status[task[s]] \in {"VALIDATING", "PR_OPEN"} /\ Become(s, "publishing")
    /\ UNCHANGED status /\ Keep

SaveRow(s) ==
    /\ session[s] = "launching" /\ status[task[s]] = "CLAIMED"
    /\ Set(s, "RUNNING") /\ Become(s, "tracked")
    /\ Keep

(* The dispatch failed, or the task is no longer this session's. *)
LaunchFails(s) ==
    /\ session[s] = "launching"
    /\ \/ UNCHANGED status
       \/ status[task[s]] = "CLAIMED" /\ Set(s, "BLOCKED")
    /\ Become(s, "over")
    /\ Keep

Succeed(s) ==
    /\ session[s] = "tracked" /\ status[task[s]] = "RUNNING"
    /\ Set(s, "VALIDATING") /\ Become(s, "publishing")
    /\ Keep

(* The run ended without success, or the session gave up waiting. *)
EndRun(s) ==
    /\ session[s] = "tracked"
    /\ \/ UNCHANGED status
       \/ /\ status[task[s]] = "RUNNING"
          /\ \E st \in {"BLOCKED", "FAILED", "CANCELLED"} : Set(s, st)
    /\ Become(s, "over")
    /\ Keep

Publish(s) ==
    /\ session[s] = "publishing"
    /\ \/ UNCHANGED status
       \/ /\ status[task[s]] \in {"VALIDATING", "PR_OPEN"}
          /\ \E st \in {"PR_OPEN", "WAITING_HUMAN", "BLOCKED"} : Set(s, st)
       \/ status[task[s]] = "VALIDATING" /\ Set(s, "READY")
    /\ Become(s, "over")
    /\ Keep

SessionStep(s) ==
    Launch(s) \/ Decline(s) \/ Resume(s) \/ SaveRow(s) \/ LaunchFails(s)
        \/ Succeed(s) \/ EndRun(s) \/ Publish(s)

(* Another process - an operator command, a one-shot run, a second pool -  *)
(* moves a task along the lifecycle.                                       *)
OtherProcess(t) ==
    /\ errors + moves < MaxEvents /\ moves' = moves + 1
    /\ \E st \in TaskStatus :
           CanTransition(status[t], st) /\ status' = [status EXCEPT ![t] = st]
    /\ UNCHANGED <<pool, sessions, signals, late, errors>>

-----------------------------------------------------------------------------

MainStep ==
    \/ BeginPass \/ StopBeforePass \/ Prepare \/ PrepareConflicts
    \/ PrepareFails \/ Query \/ Listed \/ TakeCandidate \/ Submit
    \/ StopScheduling \/ Report \/ ReportFails \/ AfterReport \/ WaitTimesOut
    \/ CancelActive \/ DrainEnds
    \/ SleepSkipped \/ SleepBegins \/ EnterSelect \/ SelectReadable
    \/ SelectExpires

Done == Ended /\ UNCHANGED vars

Next ==
    \/ MainStep \/ Signal \/ Handler \/ Interrupted
    \/ \E s \in Slot : SessionStep(s)
    \/ \E t \in Task : OtherProcess(t)
    \/ Done

Spec == Init /\ [][Next]_vars

(* The interpreter schedules the main thread and the executor's threads,   *)
(* and an agent is bounded by its own timeout, so a session ends.          *)
Fairness ==
    /\ WF_vars(MainStep) /\ WF_vars(Handler)
    /\ \A s \in Slot : WF_vars(SessionStep(s))

FairSpec == Spec /\ Fairness

-----------------------------------------------------------------------------
(* Properties *)

(* The stop flag is read before a candidate is taken, its runtime built    *)
(* and its future submitted, so a signal in between lets one more session  *)
(* start - never two (run_pass's scheduling loop).                         *)
AtMostOneLateSession == late <= 1

(* The pool process never ends over a live session: a pass that returns,   *)
(* a stop, and an exception out of on_session all wait for every future    *)
(* (the executor's with block).                                            *)
NoSessionOutlivesPool ==
    Ended => \A s \in Slot : session[s] = "free"

(* A stop request never has to wait out the idle interval, not even one    *)
(* that arrives after sleep() looked at the flag and before select blocks  *)
(* (_CooperativeStop.sleep with the wakeup descriptor).                    *)
StopWakesSleeper == [][SelectExpires => ~stop /\ ~tripped]_vars

(* A signal ends the pool, whatever step it arrives at. *)
StopEndsPool == (stop \/ tripped) ~> Ended

(* An unfinished task gets a session, or another process takes it out of   *)
(* the unfinished statuses: also one that an earlier session left CLAIMED  *)
(* or RUNNING by raising, or that moved between two queries of one pass.   *)
UnfinishedIsServed ==
    \A t \in Task :
        status[t] \in Unfinished ~>
            \/ Ended \/ stop \/ status[t] \notin Unfinished
            \/ \E s \in Slot : task[s] = t

(* "The pool schedules distinct task IDs into at most two process-local    *)
(* worker sessions" (docs/parallel-worker-runtime.md): it does as long as  *)
(* no other process moves a task.  A task that is moved between two of the *)
(* queries of pool_candidates is listed twice.                             *)
DistinctSessions ==
    moves = 0 => \A s1, s2 \in Active : s1 # s2 => task[s1] # task[s2]

(* Sessions stay under the pool's control: at most one starts after a stop,*)
(* none outlives the pool, no task has two (worker_pool.py run_pass).      *)
SessionsContained ==
    AtMostOneLateSession /\ NoSessionOutlivesPool /\ DistinctSessions

(* A stop request is heeded at whatever step it arrives: it is never slept *)
(* through and it ends the pool (_CooperativeStop, worker_pool.py run).    *)
StopIsHeeded == StopWakesSleeper /\ StopEndsPool
=============================================================================
