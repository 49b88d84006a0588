----------------------------- MODULE CodexWorker -----------------------------
(***************************************************************************)
(* One run of the Codex engine (integrations/codex): the adapter starts a  *)
(* detached worker, the worker supervises the CLI child, and the two talk  *)
(* through files next to the checkout - prompt, cancel marker, liveness    *)
(* record and result.  Cancellers, the collector, the orphan recovery and  *)
(* the worker's own heartbeat thread interleave with it file by file.      *)
(*                                                                         *)
(* wpc, the worker's next step:                                            *)
(*   none     not started             boot     publish its liveness        *)
(*   first    look for a marker       second   look again, prompt consumed *)
(*   spawn    start the child         announce publish the child's pid     *)
(*   drain    loop: liveness, marker  select   loop: deadline, pipes       *)
(*   reap     kill and wait           abort    the same, after an OSError  *)
(*   final    last look for a marker  join     stop the heartbeat thread   *)
(*   unlink   remove the liveness     publish  replace the result          *)
(*   consume  remove the marker       done, dead                           *)
(***************************************************************************)
EXTENDS Naturals

CONSTANTS
    Cancellers,   \* processes that call cancel() on this run
    Operational,  \* whether the task is OPERATIONAL (its output is capped)
    Faults        \* which faults of the environment may happen

(* killed: the worker process dies.  oserror: a file operation raises.     *)
(* slow: the worker is slower than the grace period of the collector.      *)
(* orphans: the CLI leaves members of its process group behind.            *)
ASSUME CodexAssumption ==
    /\ Operational \in BOOLEAN
    /\ Faults \subseteq {"killed", "oserror", "slow", "orphans"}

VARIABLES
    prompt, cancel,  \* files: present or not
    alive,           \* liveness record: absent, names the worker, or both
    result,          \* result file
    wpc, outcome, timedOut, exceeded,  \* the worker's locals
    beat,            \* its heartbeat thread
    child, kin,      \* the CLI process; the rest of its process group
    expired,         \* the worker's own deadline passed
    overdue,         \* started_at + timeout + grace passed
    cpc,             \* per canceller: its next step
    look, run,       \* the collector's next step; agent_runs.status
    recovered        \* the orphan recovery was authorized

files == <<prompt, cancel, alive, result>>
worker == <<wpc, outcome, timedOut, exceeded, beat>>
group == <<child, kin>>
clock == <<expired, overdue>>
factory == <<cpc, look, run, recovered>>
vars == <<files, worker, group, clock, factory>>

WorkerSteps == {"none", "boot", "first", "second", "spawn", "announce",
                "drain", "select", "reap", "abort", "final", "join",
                "unlink", "publish", "consume", "done", "dead"}

RunStatus == {"RUNNING", "SUCCEEDED", "FAILED", "CANCELLED"}

(* A TIMEOUT is a FAILED result with timed_out set. *)
ResultFile == {"none", "SUCCEEDED", "FAILED", "TIMEOUT", "CANCELLED"}

(* ok: exit code 0 and a valid last message.  bad: anything else. *)
ChildState == {"none", "alive", "ok", "bad", "killed"}

TypeOK ==
    /\ prompt \in BOOLEAN /\ cancel \in BOOLEAN
    /\ alive \in {"none", "worker", "both"}
    /\ result \in ResultFile
    /\ wpc \in WorkerSteps
    /\ outcome \in {"SUCCEEDED", "FAILED", "CANCELLED"}
    /\ timedOut \in BOOLEAN /\ exceeded \in BOOLEAN
    /\ beat \in {"off", "waiting", "writing"}
    /\ child \in ChildState /\ kin \in BOOLEAN
    /\ expired \in BOOLEAN /\ overdue \in BOOLEAN
    /\ cpc \in [Cancellers -> {"idle", "create", "recheck", "returned"}]
    /\ look \in {"idle", "absent"}
    /\ run \in RunStatus \union {"none"}
    /\ recovered \in BOOLEAN

Init ==
    /\ prompt = FALSE /\ cancel = FALSE /\ alive = "none" /\ result = "none"
    /\ wpc = "none" /\ outcome = "FAILED"
    /\ timedOut = FALSE /\ exceeded = FALSE
    /\ beat = "off"
    /\ child = "none" /\ kin = FALSE
    /\ expired = FALSE /\ overdue = FALSE
    /\ cpc = [c \in Cancellers |-> "idle"]
    /\ look = "idle" /\ run = "none"
    /\ recovered = FALSE

-----------------------------------------------------------------------------
(* CodexAdapter.dispatch *)

(* The run's stale marker is cleared before the worker can see it. *)
Dispatch ==
    /\ run = "none"
    /\ cancel' = FALSE /\ prompt' = TRUE
    /\ wpc' = "boot"
    /\ run' = "RUNNING"
    /\ UNCHANGED <<alive, result, outcome, timedOut, exceeded, beat>>
    /\ UNCHANGED <<group, clock, cpc, look, recovered>>

(* No worker: the prompt is removed and the run reported FAILED. *)
DispatchFails ==
    /\ run = "none"
    /\ run' = "FAILED"
    /\ prompt' = FALSE
    /\ UNCHANGED <<cancel, alive, result, worker, group, clock>>
    /\ UNCHANGED <<cpc, look, recovered>>

-----------------------------------------------------------------------------
(* worker.run *)

WorkerLives == wpc \notin {"none", "done", "dead"}

Step(from, to) == wpc = from /\ wpc' = to

Boot ==
    /\ Step("boot", "first")
    /\ alive' = "worker"
    /\ UNCHANGED <<prompt, cancel, result, outcome, timedOut, exceeded, beat>>
    /\ UNCHANGED <<group, clock, factory>>

(* The marker was there first: nothing is started. *)
FirstCheckCancels ==
    /\ Step("first", "join")
    /\ cancel
    /\ outcome' = "CANCELLED"
    /\ UNCHANGED <<files, timedOut, exceeded, beat, group, clock, factory>>

ReadPrompt ==
    /\ Step("first", "second")
    /\ ~ cancel
    /\ prompt' = FALSE
    /\ UNCHANGED <<cancel, alive, result, outcome, timedOut, exceeded, beat>>
    /\ UNCHANGED <<group, clock, factory>>

SecondCheck ==
    /\ IF cancel THEN Step("second", "final") /\ outcome' = "CANCELLED"
                 ELSE Step("second", "spawn") /\ UNCHANGED outcome
    /\ UNCHANGED <<files, timedOut, exceeded, beat, group, clock, factory>>

Spawn ==
    /\ Step("spawn", "announce")
    /\ child' = "alive"
    /\ UNCHANGED <<files, outcome, timedOut, exceeded, beat, kin>>
    /\ UNCHANGED <<clock, factory>>

(* The liveness record names both processes, and the heartbeat starts. *)
Announce ==
    /\ Step("announce", "drain")
    /\ alive' = "both"
    /\ beat' = "waiting"
    /\ UNCHANGED <<prompt, cancel, result, outcome, timedOut, exceeded>>
    /\ UNCHANGED <<group, clock, factory>>

(* _drain_output: the loop runs while the child or a pipe lives. *)
Drained == child # "alive" /\ ~ kin

Drain ==
    /\ wpc = "drain"
    /\ \/ /\ Drained
          /\ wpc' = "reap"
          /\ UNCHANGED <<alive, outcome>>
       \/ /\ ~ Drained
          /\ alive' = "both"
          /\ IF cancel THEN wpc' = "reap" /\ outcome' = "CANCELLED"
                       ELSE wpc' = "select" /\ UNCHANGED outcome
    /\ UNCHANGED <<prompt, cancel, result, timedOut, exceeded, beat>>
    /\ UNCHANGED <<group, clock, factory>>

SelectDeadline ==
    /\ Step("select", "reap")
    /\ expired
    /\ timedOut' = (child = "alive")
    /\ UNCHANGED <<files, outcome, exceeded, beat, group, clock, factory>>

(* The marker is looked at again after select; then the pipes are read. *)
SelectPipes ==
    /\ wpc = "select"
    /\ ~ expired
    /\ IF cancel
       THEN wpc' = "reap" /\ outcome' = "CANCELLED" /\ UNCHANGED exceeded
       ELSE wpc' = "drain" /\ exceeded' \in {exceeded, TRUE}
            /\ UNCHANGED outcome
    /\ UNCHANGED <<files, timedOut, beat, group, clock, factory>>

(* A live child is killed with its process group, then awaited.  A child   *)
(* that ended already is only awaited.                                     *)
Reap ==
    /\ \/ Step("reap", "final")
       \/ Step("abort", "join")
    /\ IF child = "alive" THEN child' = "killed" /\ kin' = FALSE
                          ELSE UNCHANGED group
    /\ UNCHANGED <<files, outcome, timedOut, exceeded, beat, clock, factory>>

Succeeds == /\ ~ timedOut
            /\ Operational => ~ exceeded
            /\ child = "ok"

(* Wrong variant: no last look. *)
FinalCheckSkipped ==
    /\ Step("final", "join")
    /\ outcome' = IF outcome = "CANCELLED" THEN "CANCELLED"
                  ELSE IF Succeeds THEN "SUCCEEDED" ELSE "FAILED"
    /\ UNCHANGED <<files, timedOut, exceeded, beat, group, clock, factory>>

(* A marker that came while the child was exiting wins over its exit. *)
FinalCheck ==
    /\ Step("final", "join")
    /\ outcome' = IF cancel \/ outcome = "CANCELLED" THEN "CANCELLED"
                  ELSE IF Succeeds THEN "SUCCEEDED" ELSE "FAILED"
    /\ UNCHANGED <<files, timedOut, exceeded, beat, group, clock, factory>>

(* A caught OSError: before the child exists, or around it. *)
Raises ==
    /\ "oserror" \in Faults
    /\ \/ wpc \in {"first", "second", "spawn"} /\ wpc' = "join"
       \/ wpc \in {"announce", "drain", "select"} /\ wpc' = "abort"
    /\ UNCHANGED <<files, outcome, timedOut, exceeded, beat>>
    /\ UNCHANGED <<group, clock, factory>>

(* heartbeat_stop is set; join gives up after a second on a thread that is *)
(* still writing.                                                          *)
Join ==
    /\ Step("join", "unlink")
    /\ beat' = IF beat = "writing" THEN "writing" ELSE "off"
    /\ UNCHANGED <<files, outcome, timedOut, exceeded, group, clock, factory>>

(* Wrong variant: a provisional result, replaced by the real one later. *)
UnlinkProvisional ==
    /\ Step("unlink", "publish")
    /\ alive' = "none" /\ prompt' = FALSE
    /\ result' = "FAILED"
    /\ UNCHANGED <<cancel, outcome, timedOut, exceeded, beat>>
    /\ UNCHANGED <<group, clock, factory>>

Unlink ==
    /\ Step("unlink", "publish")
    /\ alive' = "none" /\ prompt' = FALSE
    /\ UNCHANGED <<cancel, result, outcome, timedOut, exceeded, beat>>
    /\ UNCHANGED <<group, clock, factory>>

Recorded == IF outcome = "FAILED" /\ timedOut THEN "TIMEOUT" ELSE outcome

Publish ==
    /\ Step("publish", "consume")
    /\ result' = Recorded
    /\ UNCHANGED <<prompt, cancel, alive, outcome, timedOut, exceeded, beat>>
    /\ UNCHANGED <<group, clock, factory>>

(* The worker exits, and its daemon thread with it. *)
Consume ==
    /\ Step("consume", "done")
    /\ cancel' = FALSE
    /\ beat' = "off"
    /\ UNCHANGED <<prompt, alive, result, outcome, timedOut, exceeded>>
    /\ UNCHANGED <<group, clock, factory>>

(* The child lives in a session of its own and survives its worker. *)
WorkerKilled ==
    /\ "killed" \in Faults
    /\ WorkerLives
    /\ wpc' = "dead" /\ beat' = "off"
    /\ UNCHANGED <<files, outcome, timedOut, exceeded, group, clock, factory>>

(* _heartbeat_loop *)
HeartbeatWakes ==
    /\ beat = "waiting"
    /\ beat' = "writing"
    /\ UNCHANGED <<files, wpc, outcome, timedOut, exceeded>>
    /\ UNCHANGED <<group, clock, factory>>

HeartbeatWrites ==
    /\ beat = "writing"
    /\ alive' = "both"
    /\ beat' = IF wpc \in {"unlink", "publish", "consume"} THEN "off"
               ELSE "waiting"
    /\ UNCHANGED <<prompt, cancel, result, wpc, outcome, timedOut, exceeded>>
    /\ UNCHANGED <<group, clock, factory>>

-----------------------------------------------------------------------------
(* The CLI and the clock (external) *)

ChildExits ==
    /\ child = "alive"
    /\ child' \in {"ok", "bad"}
    /\ kin' \in IF "orphans" \in Faults THEN BOOLEAN ELSE {FALSE}
    /\ UNCHANGED <<files, worker, clock, factory>>

KinExits ==
    /\ kin
    /\ kin' = FALSE
    /\ UNCHANGED <<files, worker, child, clock, factory>>

DeadlinePasses ==
    /\ wpc \in {"drain", "select"}
    /\ ~ expired
    /\ expired' = TRUE
    /\ UNCHANGED <<files, worker, group, overdue, factory>>

(* The grace period covers the worker's start and its clean-up, unless it  *)
(* is slow.                                                                *)
GracePasses ==
    /\ run # "none"
    /\ ~ overdue
    /\ "slow" \in Faults \/ ~ WorkerLives \/ result # "none"
    /\ overdue' = TRUE
    /\ UNCHANGED <<files, worker, group, expired, factory>>

-----------------------------------------------------------------------------
(* CodexAdapter.cancel: two looks at the result, the marker in between. *)

(* Nothing to cancel: the stored run ended, or its result is there. *)
CancelBegins(c) ==
    /\ cpc[c] = "idle"
    /\ run # "none"
    /\ cpc' = [cpc EXCEPT ![c] =
                 IF run = "RUNNING" /\ result = "none" THEN "create"
                                                       ELSE "returned"]
    /\ UNCHANGED <<files, worker, group, clock, look, run, recovered>>

CancelCreates(c) ==
    /\ cpc[c] = "create"
    /\ cpc' = [cpc EXCEPT ![c] = IF cancel THEN "returned" ELSE "recheck"]
    /\ cancel' = TRUE
    /\ UNCHANGED <<prompt, alive, result, worker, group, clock>>
    /\ UNCHANGED <<look, run, recovered>>

CancelRechecks(c) ==
    /\ cpc[c] = "recheck"
    /\ cpc' = [cpc EXCEPT ![c] = "returned"]
    /\ cancel' = (cancel /\ result = "none")
    /\ UNCHANGED <<prompt, alive, result, worker, group, clock>>
    /\ UNCHANGED <<look, run, recovered>>

-----------------------------------------------------------------------------
(* CodexAdapter.collect: the result, else the deadline. *)

Normalised == IF result = "TIMEOUT" THEN "FAILED" ELSE result

CollectResult ==
    /\ run = "RUNNING" /\ look = "idle"
    /\ result # "none"
    /\ run' = Normalised
    /\ UNCHANGED <<files, worker, group, clock, cpc, look, recovered>>

CollectAbsent ==
    /\ run = "RUNNING" /\ look = "idle"
    /\ result = "none"
    /\ look' = "absent"
    /\ UNCHANGED <<files, worker, group, clock, cpc, run, recovered>>

(* Wrong variant: no deadline ends the wait for a result. *)
CollectDeadlineNever ==
    /\ look = "absent"
    /\ look' = "idle"
    /\ UNCHANGED <<files, worker, group, clock, cpc, run, recovered>>

CollectDeadline ==
    /\ look = "absent"
    /\ look' = "idle"
    /\ run' = IF run = "RUNNING" /\ overdue THEN "FAILED" ELSE run
    /\ UNCHANGED <<files, worker, group, clock, cpc, recovered>>

-----------------------------------------------------------------------------
(* authorize_orphaned_codex: the liveness record names two pids, neither   *)
(* exists, and there is no result.                                         *)

(* Wrong variant: the child's pid is not looked at. *)
OrphanWorkerOnly ==
    /\ alive # "none" /\ ~ WorkerLives
    /\ result = "none"

Orphaned ==
    /\ alive = "both"
    /\ ~ WorkerLives /\ child # "alive"
    /\ result = "none"

RecoverOrphan ==
    /\ run = "RUNNING"
    /\ Orphaned
    /\ run' = "FAILED"
    /\ recovered' = TRUE
    /\ UNCHANGED <<files, worker, group, clock, cpc, look>>

-----------------------------------------------------------------------------
WorkerStep ==
    \/ Boot \/ FirstCheckCancels \/ ReadPrompt \/ SecondCheck \/ Spawn
    \/ Announce \/ Drain \/ SelectDeadline \/ SelectPipes \/ Reap
    \/ FinalCheck \/ Join \/ Unlink \/ Publish \/ Consume

CancelStep(c) == CancelBegins(c) \/ CancelCreates(c) \/ CancelRechecks(c)

CollectStep == CollectResult \/ CollectAbsent \/ CollectDeadline

Next ==
    \/ Dispatch \/ DispatchFails
    \/ WorkerStep \/ Raises \/ WorkerKilled
    \/ HeartbeatWakes \/ HeartbeatWrites
    \/ ChildExits \/ KinExits \/ DeadlinePasses \/ GracePasses
    \/ \E c \in Cancellers : CancelStep(c)
    \/ CollectStep
    \/ RecoverOrphan

Spec == Init /\ [][Next]_vars

(* The worker's and the heartbeat's threads are scheduled, cancel() returns*)
(* once called, the pool collects in every pass, and both deadlines pass.  *)
(* Nothing makes the child exit by itself.                                 *)
Fairness ==
    /\ WF_vars(WorkerStep)
    /\ WF_vars(DeadlinePasses) /\ WF_vars(GracePasses)
    /\ WF_vars(CollectStep)

FairSpec == Spec /\ Fairness

-----------------------------------------------------------------------------
(* Properties *)

(* No cancel marker is left behind once the worker finished and no cancel()*)
(* is in progress, however publication and cancellers interleave (worker.py*)
(* publishes before it consumes, cancel() looks twice).                    *)
NoStaleMarker ==
    (/\ wpc = "done"
     /\ \A c \in Cancellers : cpc[c] \in {"idle", "returned"}) => ~ cancel

(* A result means that the supervised CLI process is over: the worker kills*)
(* and awaits it before it publishes (worker.py, the inner finally).       *)
ResultMeansChildEnded == result # "none" => child # "alive"

(* An orphan recovery never takes a run whose worker or CLI still lives,   *)
(* and no result appears after it (terminal_recovery.py).                  *)
OrphanProofIsSound ==
    recovered => /\ ~ WorkerLives /\ child # "alive"
                 /\ result = "none"

(* The Codex engine behaves like the agent the factory counts on. *)
EngineState ==
    CASE run = "none" -> "none"
      [] run # "none" /\ wpc = "none" -> "ABSENT"
      [] result # "none" -> result
      [] wpc = "dead" /\ result = "none" ->
            (IF overdue THEN "EXPIRED" ELSE "LOST")
      [] OTHER -> "RUNNING"

Engine == INSTANCE Agent WITH st <- EngineState

(* Worker, child, files and clock together implement the abstract agent:   *)
(* one start, one final result, LOST only by the death of the worker.      *)
ImplementsAgent == Engine!Spec

(* A marker that is there before the worker's last look keeps the CLI from *)
(* ever starting (worker.py: cancel() may run before the worker does).     *)
EarlyMarkerKeepsChildOut ==
    [](cancel /\ wpc \in {"boot", "first", "second"} => [](child = "none"))

(* A marker the worker can still meet decides the result, whatever the     *)
(* child, its pipes and the deadline do at the same moment, unless the     *)
(* worker is killed or a file operation of its own fails (worker.py, its   *)
(* looks at the marker and the last one).                                  *)
MarkerDecides ==
    (cancel /\ wpc \in {"boot", "first", "second", "spawn", "announce",
                        "drain", "select", "reap", "final"})
        ~> \/ result = "CANCELLED" \/ wpc \in {"dead", "abort"}
           \/ wpc = "join" /\ child = "none"

(* A cancellation is obeyed, once: no marker is left for another run, an   *)
(* early one keeps the CLI out, and one that is met decides (adapter.py    *)
(* cancel, worker.py).                                                     *)
CancelIsObeyed == []NoStaleMarker /\ EarlyMarkerKeepsChildOut /\ MarkerDecides

(* The run ends: with the worker's result, or at the collector's deadline  *)
(* when the worker died - even if the CLI itself never exits.              *)
RunEnds == run = "RUNNING" ~> run # "RUNNING"

=============================================================================
