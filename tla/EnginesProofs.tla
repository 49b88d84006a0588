----------------------------- MODULE EnginesProofs -----------------------------
(***************************************************************************)
(* What holds of both execution engines, for every number of cancellers,   *)
(* every retry limit and every choice of faults.                           *)
(*                                                                         *)
(* Codex: the worker publishes after it has reaped its child, and consumes *)
(* the marker after it has published; so where the worker stands tells     *)
(* what is in the files (Supervised), and a marker that outlives the       *)
(* worker has a canceller that looks again (Rechecked).                    *)
(*                                                                         *)
(* OpenHands: the runs of a task are sequential.  Every run before the     *)
(* latest failed, and a run of an answered creation is terminal only when  *)
(* its conversation has ended, so at most one conversation is at work.     *)
(***************************************************************************)
EXTENDS Engines, Sequences, TLAPS, FiniteSetTheorems

(* Before its child exists, the worker has none; after it reaped it, it is *)
(* over; the result comes last, and only a worker that ran leaves one.     *)
Supervised ==
    /\ wpc \in {"none", "boot", "first", "second", "spawn"} =>
           child = "none" /\ result = "none"
    /\ wpc \in {"final", "join", "unlink", "publish", "consume", "done"} =>
           child # "alive"
    /\ wpc \in {"consume", "done"} => result # "none"
    /\ result # "none" => wpc \in {"consume", "done", "dead"} /\ child # "alive"
    /\ wpc = "none" => run \in {"none", "FAILED"}
    /\ run = "none" => wpc = "none"

(* A marker that outlives the worker has a canceller that will look again. *)
Rechecked == wpc = "done" /\ cancel => \E c \in Cancellers : cpc[c] = "recheck"

(* A recovered run has a dead worker, no CLI process and no result.        *)
OrphanIsDead == recovered => wpc = "dead" /\ child # "alive" /\ result = "none"

CodexInv == TypeOK /\ Supervised /\ Rechecked /\ OrphanIsDead

(* Nothing has happened yet: no file, no worker, no child.                 *)
LEMMA CodexInit == Init => CodexInv
BY CodexAssumption
   DEF Init, CodexInv, TypeOK, Supervised, Rechecked, OrphanIsDead, WorkerSteps,
       ResultFile, ChildState, RunStatus

(* Every step of the adapter, the worker, its heartbeat, its child, the    *)
(* cancellers, the collector and the recovery keeps the invariant.         *)
LEMMA CodexStep == CodexInv /\ [Next]_vars => CodexInv'
<1> SUFFICES ASSUME CodexInv, [Next]_vars PROVE CodexInv'
  OBVIOUS
<1> USE DEF CodexInv, files, worker, group, clock, factory
<1>1. CASE Dispatch \/ DispatchFails
  <2>1. TypeOK'
    BY <1>1, ZenonT(30) DEF Dispatch, DispatchFails, TypeOK, WorkerSteps, RunStatus
  <2>2. (Supervised /\ Rechecked /\ OrphanIsDead)'
    BY <1>1 DEF Dispatch, DispatchFails, TypeOK, Supervised, Rechecked, OrphanIsDead
  <2> QED
    BY <2>1, <2>2
<1>2. CASE Boot \/ FirstCheckCancels \/ ReadPrompt \/ SecondCheck \/ Spawn \/ Announce
  <2> USE DEF Boot, FirstCheckCancels, ReadPrompt, SecondCheck, Spawn, Announce, Step
  <2>1. TypeOK'
    BY <1>2 DEF TypeOK, WorkerSteps, ChildState
  <2>2. (Supervised /\ Rechecked /\ OrphanIsDead)'
    BY <1>2 DEF TypeOK, Supervised, Rechecked, OrphanIsDead
  <2> QED
    BY <2>1, <2>2
<1>3. CASE Drain \/ SelectDeadline \/ SelectPipes \/ Reap \/ Raises
  <2> USE DEF Drain, SelectDeadline, SelectPipes, Reap, Raises, Step
  <2>1. TypeOK'
    BY <1>3, ZenonT(30) DEF TypeOK, WorkerSteps, ChildState
  <2>2. (Supervised /\ Rechecked /\ OrphanIsDead)'
    <3>1. CASE Reap
      BY <3>1 DEF TypeOK, Supervised, Rechecked, OrphanIsDead
    <3>2. CASE Drain \/ SelectDeadline \/ SelectPipes \/ Raises
      <4>1. /\ wpc \in {"first", "second", "spawn", "announce", "drain", "select"}
            /\ \/ wpc' \in {"reap", "select", "drain", "abort"}
               \/ wpc' = "join" /\ child = "none"
            /\ UNCHANGED <<cancel, result, child, cpc, run, recovered>>
        BY <3>2 DEF Supervised
      <4> QED
        BY <4>1 DEF TypeOK, Supervised, Rechecked, OrphanIsDead
    <3> QED
      BY <1>3, <3>1, <3>2
  <2> QED
    BY <2>1, <2>2
<1>4. CASE FinalCheck \/ Join \/ Unlink \/ Publish \/ Consume
  <2> USE DEF FinalCheck, Join, Unlink, Publish, Consume, Step
  <2>1. Recorded \in ResultFile \ {"none"}
    BY DEF Recorded, ResultFile, TypeOK
  <2>2. TypeOK'
    <3>1. CASE FinalCheck
      BY <3>1 DEF TypeOK, WorkerSteps
    <3>2. CASE Join
      BY <3>2 DEF TypeOK, WorkerSteps
    <3>3. CASE Unlink
      <4>1. prompt' = FALSE /\ alive' = "none" /\ wpc' = "publish"
        BY <3>3
      <4>2. prompt' \in BOOLEAN /\ alive' \in {"none", "worker", "both"}
            /\ wpc' \in WorkerSteps
        BY <4>1 DEF WorkerSteps
      <4>3. UNCHANGED <<cancel, result, outcome, timedOut, exceeded, beat, child, kin,
                        expired, overdue, cpc, look, run, recovered>>
        BY <3>3
      <4> QED
        BY <4>2, <4>3 DEF TypeOK
    <3>4. CASE Publish
      BY <2>1, <3>4 DEF TypeOK, WorkerSteps
    <3>5. CASE Consume
      <4>1. cancel' = FALSE /\ beat' = "off" /\ wpc' = "done"
        BY <3>5
      <4>2. cancel' \in BOOLEAN /\ beat' \in {"off", "waiting", "writing"}
            /\ wpc' \in WorkerSteps
        BY <4>1 DEF WorkerSteps
      <4>3. UNCHANGED <<prompt, alive, result, outcome, timedOut, exceeded, child, kin,
                        expired, overdue, cpc, look, run, recovered>>
        BY <3>5
      <4> QED
        BY <4>2, <4>3 DEF TypeOK
    <3> QED
      BY <1>4, <3>1, <3>2, <3>3, <3>4, <3>5
  <2>3. (Supervised /\ Rechecked /\ OrphanIsDead)'
    BY <1>4, <2>1 DEF TypeOK, Supervised, Rechecked, OrphanIsDead
  <2> QED
    BY <2>2, <2>3
<1>5. CASE WorkerKilled \/ HeartbeatWakes \/ HeartbeatWrites
  <2> USE DEF WorkerKilled, HeartbeatWakes, HeartbeatWrites, WorkerLives
  <2>1. TypeOK'
    BY <1>5 DEF TypeOK, WorkerSteps
  <2>2. (Supervised /\ Rechecked /\ OrphanIsDead)'
    BY <1>5 DEF TypeOK, Supervised, Rechecked, OrphanIsDead
  <2> QED
    BY <2>1, <2>2
<1>6. CASE ChildExits \/ KinExits \/ DeadlinePasses \/ GracePasses
  <2> USE DEF ChildExits, KinExits, DeadlinePasses, GracePasses
  <2>1. TypeOK'
    BY <1>6 DEF TypeOK, ChildState
  <2>2. (Supervised /\ Rechecked /\ OrphanIsDead)'
    <3>1. CASE ChildExits
      BY <3>1 DEF TypeOK, Supervised, Rechecked, OrphanIsDead
    <3>2. CASE KinExits \/ DeadlinePasses \/ GracePasses
      BY <3>2 DEF TypeOK, Supervised, Rechecked, OrphanIsDead
    <3> QED
      BY <1>6, <3>1, <3>2
  <2> QED
    BY <2>1, <2>2
<1>7. ASSUME NEW c \in Cancellers, CancelStep(c) PROVE CodexInv'
  <2> USE DEF CancelStep, CancelBegins, CancelCreates, CancelRechecks
  <2>1. TypeOK'
    <3>1. cpc' \in [Cancellers -> {"idle", "create", "recheck", "returned"}]
      BY <1>7 DEF TypeOK
    <3>2. cancel' \in BOOLEAN
      BY <1>7 DEF TypeOK
    <3> QED
      BY <1>7, <3>1, <3>2 DEF TypeOK
  <2>2. Rechecked'
    BY <1>7 DEF TypeOK, Rechecked, Supervised
  <2>3. (Supervised /\ OrphanIsDead)'
    BY <1>7 DEF Supervised, OrphanIsDead
  <2> QED
    BY <2>1, <2>2, <2>3
<1>8. CASE CollectStep \/ RecoverOrphan
  <2> USE DEF CollectStep, CollectResult, CollectAbsent, CollectDeadline, RecoverOrphan,
              Orphaned, WorkerLives, Normalised
  <2>1. TypeOK'
    <3>1. run' \in RunStatus \union {"none"}
      BY <1>8 DEF TypeOK, RunStatus, ResultFile
    <3>2. look' \in {"idle", "absent"} /\ recovered' \in BOOLEAN
      BY <1>8 DEF TypeOK
    <3>3. UNCHANGED <<files, worker, group, clock, cpc>>
      BY <1>8
    <3> QED
      BY <3>1, <3>2, <3>3 DEF TypeOK
  <2>2. (Supervised /\ Rechecked /\ OrphanIsDead)'
    BY <1>8 DEF TypeOK, Supervised, Rechecked, OrphanIsDead
  <2> QED
    BY <2>1, <2>2
<1>9. CASE UNCHANGED vars
  BY <1>9 DEF vars, TypeOK, Supervised, Rechecked, OrphanIsDead
<1> QED
  BY <1>1, <1>2, <1>3, <1>4, <1>5, <1>6, <1>7, <1>8, <1>9 DEF Next, WorkerStep

(* The invariant gives the three facts about evidence and markers.         *)
LEMMA CodexSound ==
    CodexInv => NoStaleMarker /\ ResultMeansChildEnded /\ OrphanProofIsSound
BY DEF CodexInv, TypeOK, Supervised, Rechecked, OrphanIsDead, NoStaleMarker,
       ResultMeansChildEnded, OrphanProofIsSound, WorkerLives

(* A marker met in time: the worker is on its way out and has no child.    *)
KeptOut ==
    /\ child = "none"
    /\ \/ cancel /\ wpc \in {"boot", "first", "second"}
       \/ wpc \in {"final", "join", "unlink", "publish", "consume", "done", "dead"}

(* Once it is met it stays met: nobody takes the marker back before there  *)
(* is a result (adapter.py cancel, worker.py).                             *)
LEMMA KeptOutStep == CodexInv /\ KeptOut /\ [Next]_vars => KeptOut'
<1> SUFFICES ASSUME CodexInv, KeptOut, [Next]_vars PROVE KeptOut'
  OBVIOUS
<1> USE DEF CodexInv, KeptOut, files, worker, group, clock, factory
<1>1. CASE Dispatch \/ DispatchFails
  BY <1>1 DEF Dispatch, DispatchFails, Supervised
<1>2. CASE WorkerStep \/ Raises
  BY <1>2 DEF WorkerStep, Raises, Boot, FirstCheckCancels, ReadPrompt, SecondCheck,
       Spawn, Announce, Drain, SelectDeadline, SelectPipes, Reap, FinalCheck, Join,
       Unlink, Publish, Consume, Step
<1>3. CASE WorkerKilled \/ HeartbeatWakes \/ HeartbeatWrites
  BY <1>3 DEF WorkerKilled, HeartbeatWakes, HeartbeatWrites
<1>4. CASE ChildExits \/ KinExits \/ DeadlinePasses \/ GracePasses
  BY <1>4 DEF ChildExits, KinExits, DeadlinePasses, GracePasses
<1>5. ASSUME NEW c \in Cancellers, CancelStep(c) PROVE KeptOut'
  BY <1>5 DEF CancelStep, CancelBegins, CancelCreates, CancelRechecks, Supervised
<1>6. CASE CollectStep \/ RecoverOrphan
  BY <1>6 DEF CollectStep, CollectResult, CollectAbsent, CollectDeadline, RecoverOrphan
<1>7. CASE UNCHANGED vars
  BY <1>7 DEF vars
<1> QED
  BY <1>1, <1>2, <1>3, <1>4, <1>5, <1>6, <1>7 DEF Next

(* Every step of the Codex engine is a step of the abstract agent, or      *)
(* leaves what the agent shows as it is.                                   *)
LEMMA CodexRefines ==
    CodexInv /\ CodexInv' /\ [Next]_vars => [Engine!Next]_EngineState
<1> SUFFICES ASSUME CodexInv, CodexInv', [Next]_vars
             PROVE  [Engine!Next]_EngineState
  OBVIOUS
<1> USE DEF CodexInv, files, worker, group, clock, factory
<1>1. ASSUME UNCHANGED result, UNCHANGED overdue, (run' = "none") = (run = "none"),
             (wpc' = "none") = (wpc = "none"), (wpc' = "dead") = (wpc = "dead")
      PROVE  UNCHANGED EngineState
  BY <1>1 DEF EngineState
<1>2. CASE Dispatch \/ DispatchFails
  BY <1>2 DEF Dispatch, DispatchFails, EngineState, Engine!Next, Engine!Start,
              Supervised
<1>3. CASE Publish
  <2>1. EngineState = "RUNNING"
    BY <1>3 DEF Publish, Step, EngineState, Supervised
  <2>2. EngineState' = Recorded /\ Recorded \in Engine!Results
    BY <1>3 DEF Publish, Step, EngineState, Recorded, Engine!Results, TypeOK, Supervised
  <2> QED
    BY <2>1, <2>2 DEF Engine!Next, Engine!End
<1>4. CASE WorkerKilled
  BY <1>4 DEF WorkerKilled, WorkerLives, EngineState, Engine!Next, Engine!End,
              Supervised
<1>5. CASE GracePasses
  BY <1>5 DEF GracePasses, EngineState, Engine!Next, Engine!Expire
<1>6. CASE (WorkerStep \/ Raises) /\ ~ Publish
  <2>1. /\ UNCHANGED <<result, overdue, run>>
        /\ wpc \notin {"none", "dead"} /\ wpc' \notin {"none", "dead"}
    BY <1>6 DEF WorkerStep, Raises, Boot, FirstCheckCancels, ReadPrompt, SecondCheck,
         Spawn, Announce, Drain, SelectDeadline, SelectPipes, Reap, FinalCheck, Join,
         Unlink, Consume, Step
  <2> QED
    BY <1>1, <2>1
<1>7. CASE HeartbeatWakes \/ HeartbeatWrites \/ ChildExits \/ KinExits \/ DeadlinePasses
  BY <1>1, <1>7 DEF HeartbeatWakes, HeartbeatWrites, ChildExits, KinExits,
                    DeadlinePasses
<1>8. ASSUME NEW c \in Cancellers, CancelStep(c) PROVE UNCHANGED EngineState
  BY <1>1, <1>8 DEF CancelStep, CancelBegins, CancelCreates, CancelRechecks
<1>9. CASE CollectStep \/ RecoverOrphan
  <2>1. /\ UNCHANGED <<result, overdue, wpc>>
        /\ (run' = "none") = (run = "none")
    BY <1>9 DEF CollectStep, CollectResult, CollectAbsent, CollectDeadline,
                RecoverOrphan, Normalised
  <2> QED
    BY <1>1, <2>1
<1>10. CASE UNCHANGED vars
  BY <1>1, <1>10 DEF vars
<1> QED
  BY <1>2, <1>3, <1>4, <1>5, <1>6, <1>7, <1>8, <1>9, <1>10 DEF Next

(* The inductive invariant of the Codex engine.                            *)
LEMMA CodexInvariance == Spec => []CodexInv
BY CodexInit, CodexStep, PTL DEF Spec

(* No cancel marker survives for another run, however the publication and  *)
(* the cancellers interleave (worker.py, adapter.py cancel).               *)
THEOREM MarkersAreConsumed == Spec => []NoStaleMarker
BY CodexInvariance, CodexSound, PTL

(* A marker that the worker can see before it starts the CLI keeps the CLI *)
(* from ever starting (worker.py: cancel() may run before the worker does).*)
THEOREM EarlyCancelIsObeyed == Spec => EarlyMarkerKeepsChildOut
<1>1. CodexInv /\ cancel /\ wpc \in {"boot", "first", "second"} => KeptOut
  BY DEF CodexInv, Supervised, KeptOut
<1>2. KeptOut => child = "none"
  BY DEF KeptOut
<1> QED
  BY CodexInvariance, KeptOutStep, <1>1, <1>2, PTL DEF Spec, EarlyMarkerKeepsChildOut

(* Worker, child, files and clock implement the abstract agent.            *)
THEOREM CodexImplementsAgent == Spec => ImplementsAgent
<1>1. Init => Engine!Init
  BY DEF Init, EngineState, Engine!Init
<1> QED
  BY CodexInvariance, CodexRefines, <1>1, PTL DEF Spec, ImplementsAgent, Engine!Spec

-----------------------------------------------------------------------------
(* A run that ended without success: its task may be tried again.          *)
Failed(row) == row.status = "FAILED" \/ row.red

(* The runs are sequential: all but the latest failed, and the latest too  *)
(* once the task is to be tried again; an attempt that is requested has    *)
(* its number left.                                                        *)
Sequential ==
    /\ Len(rows) >= 1
    /\ \A k \in 1..Len(rows) :
           k < Len(rows) \/ task \in {"READY", "CLAIMED", "BLOCKED"} =>
               Failed(rows[k]) /\ rows[k].status \in OH!Terminal
    /\ task \in {"READY", "CLAIMED"} => Len(rows) <= RetryLimit
    /\ pc = "awaiting" <=> task = "CLAIMED"
    /\ pc = "summary" => /\ task = "RUNNING" /\ seen \in OH!Terminal
                         /\ rows[Len(rows)].status \in OH!Active
    /\ task = "RUNNING" => rows[Len(rows)].answered
    /\ task = "VALIDATING" => rows[Len(rows)].status = "SUCCEEDED"

(* A conversation exists only for an attempt that was requested; a request *)
(* still on the wire has created none.                                     *)
Requested ==
    /\ \A k \in OH!Attempts : conv[k] # "none" \/ k \in wire =>
           k <= Len(rows) \/ (pc = "awaiting" /\ k = Len(rows) + 1)
    /\ \A k \in wire : conv[k] = "none"
    /\ \A k \in 1..Len(rows) : rows[k].answered => conv[k] # "none"

(* What a terminal status in storage says of the conversation.             *)
Means(status) ==
    CASE status = "SUCCEEDED" -> {"finished", "deleting", "gone"}
      [] status = "FAILED"    -> {"error", "stuck", "deleting", "gone"}
      [] status = "CANCELLED" -> {"deleting", "gone"}

TerminalMeansEnded ==
    /\ \A k \in 1..Len(rows) :
           rows[k].answered /\ rows[k].status \in OH!Terminal =>
               conv[k] \in Means(rows[k].status)
    /\ \A k \in 1..Len(rows) : rows[k].status = "SUCCEEDED" => rows[k].answered
    /\ pc = "summary" => conv[Len(rows)] \in Means(seen)

OpenHandsInv == OH!TypeOK /\ Sequential /\ Requested /\ TerminalMeansEnded

OHRow == [ws : OH!Attempts, answered : BOOLEAN,
          status : OH!Active \union OH!Terminal, red : BOOLEAN]

(* The typed history of runs, with its latest row.                         *)
LEMMA RowsType ==
    ASSUME OpenHandsInv
    PROVE  /\ rows \in Seq(OHRow) /\ Len(rows) \in Nat /\ Len(rows) >= 1
           /\ DOMAIN rows = 1..Len(rows)
           /\ Len(rows) \in OH!Attempts
           /\ OH!Latest = rows[Len(rows)] /\ OH!Latest \in OHRow
           /\ OH!Attempt = Len(rows) + 1
<1>1. rows \in Seq(OHRow) /\ Len(rows) \in Nat /\ Len(rows) >= 1
      /\ Len(rows) <= RetryLimit + 1
  BY DEF OpenHandsInv, OH!TypeOK, Sequential, OHRow
<1> QED
  BY <1>1, EnginesAssumption DEF OH!Attempts, OH!Latest, OH!Attempt

(* The task starts with one run, whose gates failed.                       *)
LEMMA OpenHandsInit == OH!Init => OpenHandsInv
<1> SUFFICES ASSUME OH!Init PROVE OpenHandsInv
  OBVIOUS
<1>1. 1 \in OH!Attempts /\ 1 <= RetryLimit /\ RetryLimit \in Nat
  BY EnginesAssumption DEF OH!Attempts
<1>2. rows \in Seq(OHRow) /\ Len(rows) = 1 /\ rows[1].status = "SUCCEEDED"
      /\ rows[1].red /\ rows[1].answered
  BY <1>1 DEF OH!Init, OHRow, OH!Active, OH!Terminal
<1>3. OH!TypeOK
  BY <1>1, <1>2 DEF OH!Init, OH!TypeOK, OHRow, OH!Created, OH!Ended, OH!Active, OH!Terminal
<1>4. Sequential
  BY <1>1, <1>2 DEF OH!Init, Sequential, Failed, OH!Terminal
<1>5. Requested /\ TerminalMeansEnded
  BY <1>1, <1>2 DEF OH!Init, Requested, TerminalMeansEnded, OH!Terminal, Means
<1> QED
  BY <1>3, <1>4, <1>5 DEF OpenHandsInv

(* A new row at the end of the history, for a creation that is answered or *)
(* given up (dispatch.py _start_run).                                      *)
LEMMA AppendKeeps ==
    ASSUME OpenHandsInv, pc = "awaiting", NEW answered \in BOOLEAN,
           NEW status \in OH!Active \union OH!Terminal,
           rows' = Append(rows, OH!NewRow(answered, status)), pc' = "idle",
           \/ /\ answered /\ conv[Len(rows) + 1] # "none" /\ status \in OH!Active
              /\ task' = "RUNNING"
           \/ ~ answered /\ status = "FAILED" /\ task' = "BLOCKED",
           wire' \subseteq wire, faults' \subseteq faults, UNCHANGED <<job, seen, conv>>
    PROVE  OpenHandsInv'
<1> DEFINE n == Len(rows) + 1
           new == OH!NewRow(answered, status)
<1>1. rows \in Seq(OHRow) /\ Len(rows) \in Nat /\ Len(rows) >= 1
  BY RowsType
<1>2. task = "CLAIMED" /\ Len(rows) <= RetryLimit
  BY DEF OpenHandsInv, Sequential
<1>3. /\ new \in OHRow /\ new.answered = answered /\ new.status = status
      /\ new.red = FALSE
  BY DEF OH!NewRow, OHRow, OpenHandsInv, OH!TypeOK
<1> HIDE DEF new
<1>4. /\ rows' \in Seq(OHRow) /\ Len(rows') = n
      /\ \A k \in 1..Len(rows) : rows'[k] = rows[k]
      /\ rows'[n] = new
  BY <1>1, <1>3 DEF new
<1>5. OH!TypeOK'
  BY <1>2, <1>4, EnginesAssumption DEF OpenHandsInv, OH!TypeOK, OHRow
<1>6. Sequential'
  BY <1>1, <1>2, <1>3, <1>4 DEF OpenHandsInv, Sequential, Failed, OH!Active, OH!Terminal
<1>7. Requested'
  <2>1. \A k \in OH!Attempts : conv[k] # "none" \/ k \in wire => k <= n
    BY <1>1 DEF OpenHandsInv, Requested, OH!Attempts
  <2>2. \A k \in 1..n : rows'[k].answered => conv[k] # "none"
    BY <1>1, <1>3, <1>4 DEF OpenHandsInv, Requested
  <2> QED
    BY <1>4, <2>1, <2>2 DEF OpenHandsInv, Requested
<1>8. TerminalMeansEnded'
  BY <1>1, <1>3, <1>4 DEF OpenHandsInv, TerminalMeansEnded, OH!Active, OH!Terminal
<1> QED
  BY <1>5, <1>6, <1>7, <1>8 DEF OpenHandsInv

(* Writing a status into the latest row changes nothing else of the        *)
(* history (run_sqlite.py update_run).                                     *)
LEMMA StatusEffect ==
    ASSUME OpenHandsInv, NEW status \in OH!Active \union OH!Terminal,
           rows' = [rows EXCEPT ![Len(rows)].status = status]
    PROVE  /\ rows' \in Seq(OHRow) /\ Len(rows') = Len(rows)
           /\ \A k \in 1..Len(rows) : k # Len(rows) => rows'[k] = rows[k]
           /\ rows'[Len(rows)].status = status
           /\ rows'[Len(rows)].answered = rows[Len(rows)].answered
           /\ rows'[Len(rows)].red = rows[Len(rows)].red
<1> DEFINE n == Len(rows)
<1>1. rows \in Seq(OHRow) /\ n \in Nat /\ n >= 1 /\ rows[n] \in OHRow
  BY RowsType
<1>2. [rows[n] EXCEPT !.status = status] \in OHRow
  BY <1>1 DEF OHRow
<1> QED
  BY <1>1, <1>2 DEF OHRow

(* Storing what collect() read in the latest row (tracking.py refresh).    *)
LEMMA StatusKeeps ==
    ASSUME OpenHandsInv, task = "RUNNING", pc \in {"idle", "summary"}, pc' = "idle",
           NEW status \in OH!Active \union OH!Terminal,
           rows' = [rows EXCEPT ![Len(rows)].status = status],
           \/ status \in OH!Active /\ task' = "RUNNING"
           \/ /\ conv[Len(rows)] \in Means(status)
              /\ \/ status = "SUCCEEDED" /\ task' = "VALIDATING"
                 \/ status = "CANCELLED" /\ task' = "CANCELLED"
                 \/ status = "FAILED" /\ task' \in {"BLOCKED", "FAILED"},
           UNCHANGED <<job, seen, conv, wire, faults>>
    PROVE  OpenHandsInv'
<1> DEFINE n == Len(rows)
<1>1. rows \in Seq(OHRow) /\ n \in Nat /\ n >= 1 /\ rows[n] \in OHRow
  BY RowsType
<1>2. rows[n].answered
  BY DEF OpenHandsInv, Sequential
<1>3. /\ rows' \in Seq(OHRow) /\ Len(rows') = n
      /\ \A k \in 1..n : k # n => rows'[k] = rows[k]
      /\ rows'[n].status = status /\ rows'[n].answered = rows[n].answered
      /\ rows'[n].red = rows[n].red
  BY StatusEffect
<1>4. OH!TypeOK'
  BY <1>3 DEF OpenHandsInv, OH!TypeOK, OHRow
<1>5. Sequential'
  BY <1>1, <1>2, <1>3 DEF OpenHandsInv, Sequential, Failed, OH!Active, OH!Terminal
<1>6. Requested'
  BY <1>1, <1>2, <1>3 DEF OpenHandsInv, Requested
<1>7. TerminalMeansEnded'
  BY <1>1, <1>2, <1>3 DEF OpenHandsInv, TerminalMeansEnded, OH!Active, OH!Terminal
<1> QED
  BY <1>4, <1>5, <1>6, <1>7 DEF OpenHandsInv

(* A conversation that moves on keeps the invariant if its move agrees     *)
(* with what storage already says of it (the agent server).                *)
LEMMA ServerKeeps ==
    ASSUME OpenHandsInv, NEW k \in OH!Attempts,
           NEW state \in OH!Created \union {"deleting", "gone"},
           conv' = [conv EXCEPT ![k] = state], wire' \subseteq wire, k \notin wire',
           conv[k] # "none" \/ k \in wire,
           \/ conv[k] \in {"none", "idle", "running", "paused"}
           \/ state \in {"deleting", "gone"},
           faults' \subseteq faults, UNCHANGED <<task, rows, job, pc, seen>>
    PROVE  OpenHandsInv'
<1>1. \A status \in OH!Terminal :
         /\ Means(status) \intersect {"none", "idle", "running", "paused"} = {}
         /\ {"deleting", "gone"} \subseteq Means(status)
  BY DEF OH!Terminal, Means
<1>2. OH!TypeOK'
  BY DEF OpenHandsInv, OH!TypeOK
<1>3. Sequential'
  BY DEF OpenHandsInv, Sequential
<1>4. conv \in [OH!Attempts -> OH!Created \union {"none", "deleting", "gone"}]
      /\ "none" \notin OH!Created \union {"deleting", "gone"}
      /\ wire \subseteq OH!Attempts
  BY DEF OpenHandsInv, OH!TypeOK, OH!Created, OH!Ended
<1>5. Requested'
  BY <1>4, RowsType DEF OpenHandsInv, Requested
<1>6. TerminalMeansEnded'
  <2>1. ASSUME NEW status \in OH!Terminal, NEW l \in OH!Attempts,
               conv[l] \in Means(status)
        PROVE  conv'[l] \in Means(status)
    BY <1>1, <1>4, <2>1
  <2>2. 1..Len(rows) \subseteq OH!Attempts /\ Len(rows) \in 1..Len(rows)
    BY RowsType, EnginesAssumption DEF OH!Attempts
  <2>3. pc = "summary" => seen \in OH!Terminal
    BY DEF OpenHandsInv, Sequential
  <2> QED
    BY <2>1, <2>2, <2>3 DEF OpenHandsInv, TerminalMeansEnded
<1> QED
  BY <1>2, <1>3, <1>5, <1>6 DEF OpenHandsInv

(* The failed runs that run_retry_limit bounds are counted alike in both   *)
(* modules (recovery.py, failed attempts).                                 *)
LEMMA CardinalityThere == \A S : OH!Cardinality(S) = Cardinality(S)
BY DEF OH!Cardinality, Cardinality

(* Every step of the factory, the server and the wire keeps the invariant. *)
LEMMA OpenHandsStep == OpenHandsInv /\ [OH!Next]_openHands => OpenHandsInv'
<1> SUFFICES ASSUME OpenHandsInv, [OH!Next]_openHands PROVE OpenHandsInv'
  OBVIOUS
<1>0. /\ rows \in Seq(OHRow) /\ Len(rows) \in Nat /\ Len(rows) >= 1
      /\ DOMAIN rows = 1..Len(rows)
      /\ Len(rows) \in OH!Attempts
      /\ OH!Latest = rows[Len(rows)] /\ OH!Latest \in OHRow
      /\ OH!Attempt = Len(rows) + 1
  BY RowsType
<1>1. CASE OH!Request
  <2> USE <1>1 DEF OH!Request
  <2>1. Len(rows) + 1 \in OH!Attempts /\ RetryLimit \in Nat
    BY <1>0, EnginesAssumption DEF OpenHandsInv, Sequential, OH!Attempts
  <2>2. OH!Checkout \in OH!Attempts
    BY <1>0, <2>1 DEF OH!Checkout, OHRow
  <2>3. conv[Len(rows) + 1] = "none"
    BY <1>0, <2>1 DEF OpenHandsInv, Requested
  <2>4. OH!TypeOK'
    BY <1>0, <2>1, <2>2 DEF OpenHandsInv, OH!TypeOK
  <2>5. Sequential'
    BY <1>0 DEF OpenHandsInv, Sequential
  <2>6. Requested'
    BY <1>0, <2>1, <2>3 DEF OpenHandsInv, Requested
  <2>7. TerminalMeansEnded'
    BY <1>0 DEF OpenHandsInv, TerminalMeansEnded
  <2> QED
    BY <2>4, <2>5, <2>6, <2>7 DEF OpenHandsInv
<1>2. CASE OH!Answer
  <2>1. PICK s \in {"idle", "running"} :
           rows' = Append(rows, OH!NewRow(TRUE, OH!MapStatus(s)))
    BY <1>2 DEF OH!Answer
  <2>2. OH!MapStatus(s) \in OH!Active
    BY DEF OH!MapStatus, OH!Active
  <2> QED
    BY <1>0, <1>2, <2>1, <2>2, AppendKeeps DEF OH!Answer
<1>3. CASE OH!AnswerLost \/ OH!AnswerRefused
  BY <1>3, AppendKeeps
     DEF OH!AnswerLost, OH!AnswerRefused, OH!RecordFailure, OH!Fault, OH!Terminal
<1>4. CASE OH!Collect
  <2> DEFINE status == OH!MapStatus(conv[Len(rows)])
  <2>1. task = "RUNNING" /\ pc = "idle"
    BY <1>0, <1>4 DEF OH!Collect, OpenHandsInv, Sequential, OH!Terminal
  <2>2. conv[Len(rows)] \in OH!Created \union {"deleting"}
    BY <1>0, <1>4 DEF OH!Collect, OpenHandsInv, OH!TypeOK
  <2>3. /\ status \in OH!Active \union OH!Terminal
        /\ status \in OH!Terminal => conv[Len(rows)] \in Means(status)
    BY <2>2 DEF OH!MapStatus, OH!Created, OH!Ended, OH!Active, OH!Terminal, Means
  <2>4. CASE status \in OH!Terminal
    <3>1. /\ pc' = "summary" /\ seen' = status
          /\ UNCHANGED <<task, rows, job, conv, wire, faults>>
      BY <1>4, <2>4 DEF OH!Collect
    <3>2. rows[Len(rows)].status \in OH!Active
      BY <1>0, <1>4 DEF OH!Collect, OHRow
    <3> HIDE DEF status
    <3>3. OH!TypeOK'
      BY <2>4, <3>1 DEF OpenHandsInv, OH!TypeOK
    <3>4. Sequential'
      BY <2>1, <2>4, <3>1, <3>2 DEF OpenHandsInv, Sequential
    <3>6. Requested'
      BY <2>1, <3>1 DEF OpenHandsInv, Requested
    <3>5. TerminalMeansEnded'
      BY <2>3, <2>4, <3>1 DEF OpenHandsInv, TerminalMeansEnded
    <3> QED
      BY <3>3, <3>4, <3>5, <3>6 DEF OpenHandsInv
  <2>5. CASE status \notin OH!Terminal
    <3>1. /\ rows' = [rows EXCEPT ![Len(rows)].status = status]
          /\ UNCHANGED <<task, job, pc, seen, conv, wire, faults>>
      BY <1>4, <2>5 DEF OH!Collect
    <3> HIDE DEF status
    <3> QED
      BY <2>1, <2>3, <2>5, <3>1, StatusKeeps
  <2> QED
    BY <2>4, <2>5
<1>5. CASE OH!Summarise
  <2>1. /\ task = "RUNNING" /\ seen \in OH!Terminal
        /\ conv[Len(rows)] \in Means(seen)
    BY <1>5 DEF OH!Summarise, OpenHandsInv, Sequential, TerminalMeansEnded
  <2>2. \/ seen = "SUCCEEDED" /\ task' = "VALIDATING"
        \/ seen = "CANCELLED" /\ task' = "CANCELLED"
        \/ seen = "FAILED" /\ task' \in {"BLOCKED", "FAILED"}
    BY <1>5, <2>1 DEF OH!Summarise, OH!DriveTask, OH!Terminal
  <2> QED
    BY <1>5, <2>1, <2>2, StatusKeeps DEF OH!Summarise
<1>6. CASE OH!SummaryFails
  <2> USE <1>6 DEF OH!SummaryFails, OH!Fault
  <2>1. OH!TypeOK'
    BY DEF OpenHandsInv, OH!TypeOK
  <2>2. Sequential' /\ Requested' /\ TerminalMeansEnded'
    BY DEF OpenHandsInv, Sequential, Requested, TerminalMeansEnded
  <2> QED
    BY <2>1, <2>2 DEF OpenHandsInv
<1>7. CASE OH!Cancel
  <2> USE <1>7 DEF OH!Cancel, OH!Fault
  <2>1. CASE conv[Len(rows)] \in {"idle", "running"}
    <3>1. conv' = [conv EXCEPT ![Len(rows)] = "paused"]
      BY <2>1
    <3>2. Len(rows) \notin wire
      BY <2>1 DEF OpenHandsInv, Requested
    <3>3. "paused" \in OH!Created
      BY DEF OH!Created
    <3> QED
      BY <1>0, <2>1, <3>1, <3>2, <3>3, ServerKeeps
  <2>2. CASE conv[Len(rows)] \notin {"idle", "running"}
    <3>1. UNCHANGED conv
      BY <1>0, <2>2 DEF OpenHandsInv, OH!TypeOK
    <3>2. OH!TypeOK'
      BY <3>1 DEF OpenHandsInv, OH!TypeOK
    <3>3. Sequential' /\ Requested' /\ TerminalMeansEnded'
      BY <3>1 DEF OpenHandsInv, Sequential, Requested, TerminalMeansEnded
    <3> QED
      BY <3>2, <3>3 DEF OpenHandsInv
  <2> QED
    BY <2>1, <2>2
<1>8. CASE OH!Retry
  <2> USE <1>8 DEF OH!Retry
  <2>1. OH!FailedAttempts = 1..Len(rows)
    BY <1>0 DEF OH!FailedAttempts, OpenHandsInv, Sequential, Failed
  <2>2. Len(rows) < RetryLimit
    <3>1. Cardinality(1..Len(rows)) = Len(rows)
      <4>1. ASSUME NEW n \in Nat, n >= 1 PROVE Cardinality(1..n) = n
        BY <4>1, FS_Interval
      <4> QED
        BY <1>0, <4>1
    <3>2. Cardinality(OH!FailedAttempts) < RetryLimit
      BY CardinalityThere
    <3> QED
      BY <2>1, <3>1, <3>2
  <2>3. OH!TypeOK'
    BY DEF OpenHandsInv, OH!TypeOK
  <2>4. Sequential'
    BY <1>0, <2>2, EnginesAssumption DEF OpenHandsInv, Sequential
  <2>5. Requested' /\ TerminalMeansEnded'
    BY DEF OpenHandsInv, Requested, TerminalMeansEnded
  <2> QED
    BY <2>3, <2>4, <2>5 DEF OpenHandsInv
<1>9. ASSUME NEW k \in OH!Attempts,
             \/ OH!Create(k) \/ OH!Runs(k) \/ OH!Ends(k) \/ OH!Resumes(k)
             \/ OH!Deletes(k) \/ OH!Gone(k)
      PROVE  OpenHandsInv'
  <2>1. CASE OH!Create(k)
    <3>1. conv[k] = "none" /\ "idle" \in OH!Created
      BY <2>1 DEF OH!Create, OpenHandsInv, Requested, OH!Created
    <3> QED
      BY <2>1, <3>1, ServerKeeps DEF OH!Create
  <2>2. \A l \in OH!Attempts : conv[l] # "none" => l \notin wire
    BY DEF OpenHandsInv, Requested
  <2>3. CASE OH!Runs(k) \/ OH!Resumes(k)
    BY <2>2, <2>3, ServerKeeps DEF OH!Runs, OH!Resumes, OH!Moves, OH!Created
  <2>4. CASE OH!Ends(k)
    BY <2>2, <2>4, ServerKeeps DEF OH!Ends, OH!Moves, OH!Created
  <2>5. CASE OH!Deletes(k) \/ OH!Gone(k)
    <3>1. "none" \notin OH!Created
      BY DEF OH!Created, OH!Ended
    <3> QED
      BY <2>2, <2>5, <3>1, ServerKeeps DEF OH!Deletes, OH!Gone, OH!Moves, OH!Fault
  <2> QED
    BY <1>9, <2>1, <2>3, <2>4, <2>5
<1>10. CASE UNCHANGED openHands
  <2>1. UNCHANGED <<task, rows, job, pc, seen, conv, wire, faults>>
    BY <1>10 DEF openHands
  <2>2. OH!TypeOK'
    BY <2>1 DEF OpenHandsInv, OH!TypeOK
  <2>3. Sequential' /\ Requested' /\ TerminalMeansEnded'
    BY <2>1 DEF OpenHandsInv, Sequential, Requested, TerminalMeansEnded
  <2> QED
    BY <2>2, <2>3 DEF OpenHandsInv
<1> QED
  BY <1>1, <1>2, <1>3, <1>4, <1>5, <1>6, <1>7, <1>8, <1>9, <1>10
     DEF OH!Next, OH!Server

(* A task's evidence is sound, and at most one attempt the factory knows   *)
(* of is at work, so that no checkout has two writers.                     *)
LEMMA OpenHandsSound ==
    OpenHandsInv => SuccessMeansFinished /\ OneConversationPerCheckout
<1> SUFFICES ASSUME OpenHandsInv
             PROVE  SuccessMeansFinished /\ OneConversationPerCheckout
  OBVIOUS
<1>0. /\ rows \in Seq(OHRow) /\ Len(rows) \in Nat /\ Len(rows) >= 1
      /\ OH!Latest = rows[Len(rows)]
  BY RowsType
<1>1. SuccessMeansFinished
  BY <1>0 DEF SuccessMeansFinished, OH!SuccessMeansFinished, OpenHandsInv, Sequential,
              TerminalMeansEnded, Means, OH!Terminal
<1>2. ASSUME NEW k \in OH!Writing
      PROVE  \/ /\ k = Len(rows) /\ rows[k].status \notin OH!Terminal
             \/ k = Len(rows) + 1 /\ pc = "awaiting"
  <2>1. k \in OH!Attempts /\ k \in Nat
    BY EnginesAssumption DEF OH!Writing, OH!Attempts
  <2>2. k <= Len(rows) \/ (pc = "awaiting" /\ k = Len(rows) + 1)
    BY DEF OH!Writing, OpenHandsInv, Requested
  <2>3. ASSUME k <= Len(rows) PROVE rows[k].status \notin OH!Terminal
    <3>1. k \in 1..Len(rows) /\ rows[k].answered
      BY <1>0, <2>1, <2>3, EnginesAssumption DEF OH!Writing, OH!Attempts
    <3>2. conv[k] \in {"idle", "running"}
      BY <3>1 DEF OH!Writing, OpenHandsInv, Requested
    <3> QED
      BY <3>1, <3>2 DEF OpenHandsInv, TerminalMeansEnded, OH!Terminal, Means
  <2>4. ASSUME k < Len(rows) PROVE FALSE
    <3>1. k \in 1..Len(rows)
      BY <1>0, <2>1, <2>4, EnginesAssumption DEF OH!Attempts
    <3> QED
      BY <1>0, <2>1, <2>3, <2>4, <3>1 DEF OpenHandsInv, Sequential
  <2> QED
    BY <1>0, <2>1, <2>2, <2>3, <2>4
<1>3. pc = "awaiting" => rows[Len(rows)].status \in OH!Terminal
  BY <1>0 DEF OpenHandsInv, Sequential
<1>4. \A k, l \in OH!Writing : k = l
  BY <1>0, <1>2, <1>3
<1> QED
  BY <1>1, <1>4 DEF OneConversationPerCheckout, OH!OneConversationPerCheckout

(* Every step of the OpenHands engine is a step of the abstract agent for  *)
(* the correction, or leaves what storage shows of it as it is.            *)
LEMMA OpenHandsRefines ==
    OpenHandsInv /\ [OH!Next]_openHands => [OH!Engine!Next]_(OH!CorrectionState)
<1> SUFFICES ASSUME OpenHandsInv, [OH!Next]_openHands
             PROVE  [OH!Engine!Next]_(OH!CorrectionState)
  OBVIOUS
<1>0. /\ rows \in Seq(OHRow) /\ Len(rows) \in Nat /\ Len(rows) >= 1
      /\ OH!Latest = rows[Len(rows)]
  BY RowsType
<1>1. ASSUME UNCHANGED rows PROVE UNCHANGED OH!CorrectionState
  BY <1>1 DEF OH!CorrectionState
<1>2. ASSUME NEW answered \in BOOLEAN, NEW status \in OH!Active \union OH!Terminal,
             rows' = Append(rows, OH!NewRow(answered, status)),
             answered => status \in OH!Active
      PROVE  [OH!Engine!Next]_(OH!CorrectionState)
  <2> DEFINE new == OH!NewRow(answered, status)
  <2>1. new \in OHRow /\ new.answered = answered /\ new.status = status
    BY DEF OH!NewRow, OHRow, OpenHandsInv, OH!TypeOK
  <2> HIDE DEF new
  <2>2. /\ Len(rows') = Len(rows) + 1 /\ rows'[Len(rows) + 1] = new
        /\ \A k \in 1..Len(rows) : rows'[k] = rows[k]
    BY <1>0, <1>2, <2>1 DEF new
  <2>3. CASE Len(rows) = 1
    <3>1. OH!CorrectionState = "none"
      BY <2>3 DEF OH!CorrectionState
    <3>2. OH!CorrectionState' \in {"RUNNING", "ABSENT"}
      BY <1>2, <2>1, <2>2, <2>3 DEF OH!CorrectionState
    <3> QED
      BY <3>1, <3>2 DEF OH!Engine!Next, OH!Engine!Start
  <2>4. CASE Len(rows) # 1
    <3>0. Len(rows) >= 2 /\ 2 \in 1..Len(rows)
      <4>1. ASSUME NEW n \in Nat, n >= 1, n # 1 PROVE n >= 2 /\ 2 \in 1..n
        BY <4>1
      <4> QED
        BY <1>0, <2>4, <4>1
    <3>1. Len(rows) >= 2 /\ Len(rows') >= 2 /\ rows'[2] = rows[2]
      BY <1>0, <2>2, <3>0
    <3> QED
      BY <1>0, <2>2, <3>1 DEF OH!CorrectionState
  <2> QED
    BY <2>3, <2>4
<1>3. ASSUME task = "RUNNING", NEW status \in OH!Active \union OH!Terminal,
             rows[Len(rows)].status \in OH!Active,
             rows' = [rows EXCEPT ![Len(rows)].status = status]
      PROVE  [OH!Engine!Next]_(OH!CorrectionState)
  <2> DEFINE n == Len(rows)
  <2>0. rows \in Seq(OHRow) /\ n \in Nat /\ n >= 1 /\ rows[n] \in OHRow
        /\ rows[n].answered
    BY <1>0, <1>3 DEF OpenHandsInv, Sequential
  <2>1. /\ Len(rows') = n /\ rows'[n].status = status
        /\ rows'[n].answered = rows[n].answered
        /\ \A k \in 1..n : k # n => rows'[k] = rows[k]
    BY <1>3, StatusEffect
  <2>2. CASE n = 2
    <3>1. OH!CorrectionState = "RUNNING"
      BY <1>3, <2>0, <2>2 DEF OH!CorrectionState
    <3>2. OH!CorrectionState' \in OH!Terminal \union {"RUNNING"}
      BY <1>3, <2>0, <2>1, <2>2 DEF OH!CorrectionState
    <3> QED
      BY <3>1, <3>2 DEF OH!Engine!Next, OH!Engine!End, OH!Engine!Results, OH!Terminal
  <2>3. CASE n # 2
    <3>1. n < 2 \/ (n > 2 /\ rows'[2] = rows[2])
      BY <1>0, <2>1, <2>3
    <3> QED
      BY <1>0, <2>1, <3>1 DEF OH!CorrectionState
  <2> QED
    BY <2>2, <2>3
<1>4. CASE OH!Answer
  <2>1. PICK s \in {"idle", "running"} :
           rows' = Append(rows, OH!NewRow(TRUE, OH!MapStatus(s)))
    BY <1>4 DEF OH!Answer
  <2>2. OH!MapStatus(s) \in OH!Active
    BY DEF OH!MapStatus, OH!Active
  <2> QED
    BY <1>2, <2>1, <2>2
<1>5. CASE OH!AnswerLost \/ OH!AnswerRefused
  BY <1>2, <1>5 DEF OH!AnswerLost, OH!AnswerRefused, OH!RecordFailure, OH!Terminal
<1>6. CASE OH!Collect
  <2> DEFINE status == OH!MapStatus(conv[Len(rows)])
  <2>1. task = "RUNNING"
    BY <1>0, <1>6 DEF OH!Collect, OpenHandsInv, Sequential, OH!Terminal
  <2>2. conv[Len(rows)] \in OH!Created \union {"deleting"}
    BY <1>0, <1>6, RowsType DEF OH!Collect, OpenHandsInv, OH!TypeOK
  <2>3. status \in OH!Active \union OH!Terminal
    BY <2>2 DEF OH!MapStatus, OH!Created, OH!Ended, OH!Active, OH!Terminal
  <2>4. rows[Len(rows)].status \in OH!Active
    <3>1. OH!Latest \in OHRow
      BY RowsType
    <3> QED
      BY <1>0, <1>6, <3>1 DEF OH!Collect, OHRow
  <2>5. UNCHANGED rows \/ rows' = [rows EXCEPT ![Len(rows)].status = status]
    BY <1>6 DEF OH!Collect
  <2> HIDE DEF status
  <2> QED
    BY <1>1, <1>3, <2>1, <2>3, <2>4, <2>5
<1>7. CASE OH!Summarise
  <2>1. task = "RUNNING" /\ seen \in OH!Terminal
    BY <1>7 DEF OH!Summarise, OpenHandsInv, Sequential
  <2>2. rows[Len(rows)].status \in OH!Active
    BY <1>0, <1>7 DEF OH!Summarise, OpenHandsInv, Sequential, OHRow
  <2> QED
    BY <1>3, <1>7, <2>1, <2>2 DEF OH!Summarise
<1>8. CASE OH!Request \/ OH!SummaryFails \/ OH!Cancel \/ OH!Retry
  BY <1>1, <1>8 DEF OH!Request, OH!SummaryFails, OH!Cancel, OH!Retry
<1>9. CASE OH!Server
  BY <1>1, <1>9 DEF OH!Server, OH!Create, OH!Runs, OH!Ends, OH!Resumes, OH!Deletes,
                    OH!Gone, OH!Moves
<1>10. CASE UNCHANGED openHands
  BY <1>1, <1>10 DEF openHands
<1> QED
  BY <1>4, <1>5, <1>6, <1>7, <1>8, <1>9, <1>10 DEF OH!Next

-----------------------------------------------------------------------------
(* The two engines together: the adapter that was built takes its steps,   *)
(* the other one takes none (_build_agent_adapter).                        *)
LEMMA EitherEngine ==
    [EnginesNext]_engineVars => [Next]_vars /\ [OH!Next]_openHands
BY DEF EnginesNext, CodexNext, OpenHandsNext, engineVars

(* Both engines keep their invariants, whichever one was built.            *)
LEMMA EnginesInvariance == EnginesSpec => [](CodexInv /\ OpenHandsInv)
<1>1. EnginesInit => CodexInv /\ OpenHandsInv
  BY CodexInit, OpenHandsInit DEF EnginesInit
<1>2. CodexInv /\ OpenHandsInv /\ [EnginesNext]_engineVars =>
        (CodexInv /\ OpenHandsInv)'
  BY EitherEngine, CodexStep, OpenHandsStep
<1> QED
  BY <1>1, <1>2, PTL DEF EnginesSpec

(* What the factory takes as the end of an agent is its end: a result      *)
(* means that the CLI is over, a recovered orphan is dead for good, and    *)
(* only a finished conversation is a success (worker.py,                   *)
(* terminal_recovery.py, status.py).                                       *)
THEOREM EvidenceProved == EnginesSpec => []EvidenceIsSound
<1>1. CodexInv /\ OpenHandsInv => EvidenceIsSound
  BY CodexSound, OpenHandsSound DEF EvidenceIsSound
<1> QED
  BY EnginesInvariance, <1>1, PTL

(* No two conversations the factory knows of write one checkout, however   *)
(* runs failed, were interrupted, resumed and retried (dispatch.py         *)
(* dispatch_rework, adapter.py cancel).                                    *)
THEOREM CheckoutsProved == EnginesSpec => []OneConversationPerCheckout
BY EnginesInvariance, OpenHandsSound, PTL

(* Both adapters implement the one abstract agent the factory is modelled  *)
(* with: started once, ended once, with a final result (domain/models.py   *)
(* AgentAdapter).                                                          *)
THEOREM EnginesRefineAgent == EnginesSpec => EnginesImplementAgent
<1>1. EnginesInit => Engine!Init /\ OH!Engine!Init
  BY DEF EnginesInit, Init, EngineState, Engine!Init, OH!Init, OH!CorrectionState,
         OH!Engine!Init
<1>2. CodexInv /\ CodexInv' /\ OpenHandsInv /\ [EnginesNext]_engineVars =>
        [Engine!Next]_EngineState /\ [OH!Engine!Next]_(OH!CorrectionState)
  BY EitherEngine, CodexRefines, OpenHandsRefines
<1> QED
  BY EnginesInvariance, <1>1, <1>2, PTL
     DEF EnginesSpec, EnginesImplementAgent, ImplementsAgent, Engine!Spec,
         OpenHandsImplementsAgent, OH!ImplementsAgent, OH!Engine!Spec

=============================================================================
