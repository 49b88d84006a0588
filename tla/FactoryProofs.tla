----------------------------- MODULE FactoryProofs -----------------------------
(***************************************************************************)
(* What holds of the factory for every value of its constants, in five     *)
(* layers, each with its inductive invariant:                              *)
(*  - IInv, IdentInv: agent_runs only ever grows, under its unique         *)
(*    indexes, so a run that a session tracks stays on record.  Nothing is *)
(*    assumed of how many sessions share a task or what operators do.      *)
(*  - OInv: with one writer per task (Owned), a task stays as its writer   *)
(*    left it, so even a blind write is a step of the lifecycle.           *)
(*  - KInv: what a session has read of the latest run stays true until it  *)
(*    acts on it.                                                          *)
(*  - CInv: a task that may be given to an agent has room for one more     *)
(*    failure and one more correction.                                     *)
(*  - AInv: every agent at work has a task of its own, which either names  *)
(*    it in an active row or is left where nobody is sent to work for it.  *)
(***************************************************************************)
EXTENDS Factory, TLAPS, FiniteSetTheorems

-----------------------------------------------------------------------------
(* Types.  Reading the stored row of a run (tracking.py refresh) is typed  *)
(* only because the row exists, so the step lemma assumes RunsTracked,     *)
(* which IInv carries along.                                               *)

(* A recorded transition writes a task status and a history row of the     *)
(* right type (sqlite.py _apply_transition).                               *)
LEMMA RecordTypes ==
    ASSUME StoreTypeOK, NEW t \in Task, NEW target \in TaskStatus,
           Record(t, target)
    PROVE  /\ status' \in [Task -> TaskStatus]
           /\ hist' \in [Task -> [last : TaskStatus, onlyReady : BOOLEAN]]
BY DEF StoreTypeOK, Record

(* So does TaskLifecycleService.transition, whether it writes or finds the *)
(* task at the target already.                                             *)
LEMMA TransitionTypes ==
    ASSUME StoreTypeOK, NEW t \in Task, NEW target \in TaskStatus,
           Transition(t, target)
    PROVE  /\ status' \in [Task -> TaskStatus]
           /\ hist' \in [Task -> [last : TaskStatus, onlyReady : BOOLEAN]]
BY RecordTypes DEF StoreTypeOK, Transition

(* The latest entry of a task's run history is a run row (list_runs).      *)
LEMMA LatestRunType ==
    ASSUME StoreTypeOK, NEW t \in Task, HasRun(t)
    PROVE  LatestRun(t) \in Row
BY DEF StoreTypeOK, HasRun, LatestRun

(* save_run appends a row to one task's history and keeps all histories    *)
(* typed.                                                                  *)
LEMMA SaveTypes ==
    ASSUME StoreTypeOK, NEW t \in Task, NEW row \in Row, SaveRun(t, row)
    PROVE  runs' \in [Task -> Seq(Row)]
BY DEF StoreTypeOK, SaveRun

(* The row update_run writes is a run row.                                 *)
LEMMA UpdatedType ==
    ASSUME StoreTypeOK, NEW t \in Task, NEW i \in DOMAIN runs[t], NEW row \in Row
    PROVE  Updated(t, i, row) \in Row
<1>1. runs[t][i] \in Row
  BY DEF StoreTypeOK
<1> QED
  BY <1>1 DEF Updated, Row

(* update_run overwrites one row in place and keeps all histories typed.   *)
LEMMA UpdateTypes ==
    ASSUME StoreTypeOK, NEW t \in Task, NEW i \in DOMAIN runs[t],
           NEW row \in Row, UpdateRun(t, i, row)
    PROVE  runs' \in [Task -> Seq(Row)]
<1>1. Updated(t, i, row) \in Row
  BY UpdatedType
<1>2. runs[t] \in Seq(Row)
  BY DEF StoreTypeOK
<1>3. [runs[t] EXCEPT ![i] = Updated(t, i, row)] \in Seq(Row)
  BY <1>1, <1>2
<1> QED
  BY <1>3 DEF StoreTypeOK, UpdateRun

(* The blank row and the blank note of an idle session are typed.          *)
LEMMA Blanks == NoRow \in Row /\ NoNote \in Note
BY StoreAssumption DEF NoRow, NoNote, Row, Note, Reason, ReasonKind, TaskStatus,
   RunStatus, Gates, AttemptOrNone

(* A session that gives its task up is typed (every early return of        *)
(* runtime.py _run_once).                                                  *)
LEMMA LeaveTypes ==
    ASSUME WorkerTypeOK, NEW s \in Session, Leave(s)
    PROVE  /\ pc' \in [Session -> PC]
           /\ job' \in [Session -> Row]
           /\ note' \in [Session -> Note]
BY Blanks DEF WorkerTypeOK, Leave, Goto, PC

(* The fault counter stays within its bound.                               *)
LEMMA FaultTypes ==
    ASSUME WorkerTypeOK, NEW kind, Fault(kind)
    PROVE  faults' \in 0..MaxFaults
BY WorkerAssumption DEF WorkerTypeOK, Fault

(* A session about to block its task carries a typed note (runtime.py      *)
(* _block).                                                                *)
LEMMA BlockLaterTypes ==
    ASSUME WorkerTypeOK, NEW s \in Session, NEW kind \in ReasonKind,
           NEW run \in AttemptOrNone, BlockLater(s, kind, run)
    PROVE  pc' \in [Session -> PC] /\ note' \in [Session -> Note]
BY DEF WorkerTypeOK, BlockLater, Goto, PC, Note, Reason, TaskStatus

(* A session that advances, polls or drives a run has its row on record:   *)
(* the run row is saved before the task is RUNNING and rows are never      *)
(* deleted (dispatch.py _start_run, run_sqlite.py).                        *)
RunsTracked ==
    \A s \in Session : pc[s] \in {"advance", "poll", "drive"} =>
        RowOf(task[s], job[s].id) # {}

(* refresh reads the row of the run in hand: it exists, and it has that    *)
(* run's id (tracking.py refresh, get_run).                                *)
LEMMA StoredRowType ==
    ASSUME TypeOK, RunsTracked, NEW s \in Session, At(s, "poll")
    PROVE  /\ StoredRow(s) \in Row
           /\ RowOf(task[s], StoredRow(s).id) # {}
           /\ StoredRow(s).id = job[s].id
<1> DEFINE i == CHOOSE i \in RowOf(task[s], job[s].id) : TRUE
<1>1. i \in RowOf(task[s], job[s].id)
  BY DEF RunsTracked, At
<1>2. i \in DOMAIN runs[task[s]] /\ runs[task[s]][i].id = job[s].id
  BY <1>1 DEF RowOf
<1>3. runs[task[s]] \in Seq(Row)
  BY DEF TypeOK, StoreTypeOK, WorkerTypeOK
<1>4. StoredRow(s) = runs[task[s]][i]
  BY DEF StoredRow
<1> HIDE DEF i
<1> QED
  BY <1>1, <1>2, <1>3, <1>4

(* Selecting a task keeps the state typed (runtime.py _select_task,        *)
(* reviews and reconciliation).                                            *)
LEMMA SelectTypes ==
    ASSUME TypeOK, NEW s \in Session, NEW t \in Task, Select(s, t),
           UNCHANGED operator
    PROVE  TypeOK'
<1> USE DEF TypeOK, StoreTypeOK, WorkerTypeOK, OperatorTypeOK, operator
<1>1. CASE Begin(s, t)
  <2>1. Transition(t, "READY")
    BY <1>1 DEF Begin
  <2>2. /\ status' \in [Task -> TaskStatus]
        /\ hist' \in [Task -> [last : TaskStatus, onlyReady : BOOLEAN]]
    BY <2>1, TransitionTypes DEF TaskStatus
  <2> QED
    BY <1>1, <2>2 DEF Begin, Take, Goto, PC
<1>2. CASE CancelIneligible(s, t)
  <2>1. Transition(t, "CANCELLED") /\ Fault("ineligible")
    BY <1>2 DEF CancelIneligible
  <2>2. /\ status' \in [Task -> TaskStatus]
        /\ hist' \in [Task -> [last : TaskStatus, onlyReady : BOOLEAN]]
        /\ faults' \in 0..MaxFaults
    BY <2>1, TransitionTypes, FaultTypes DEF TaskStatus
  <2> QED
    BY <1>2, <2>2 DEF CancelIneligible
<1>3. CASE RejectRouting(s, t)
  <2>1. BlockLater(s, "routing", 0) /\ Fault("routing")
    BY <1>3 DEF RejectRouting
  <2>2. /\ pc' \in [Session -> PC] /\ note' \in [Session -> Note]
        /\ faults' \in 0..MaxFaults
    BY <2>1, BlockLaterTypes, FaultTypes, StoreAssumption
       DEF ReasonKind, AttemptOrNone
  <2> QED
    BY <1>3, <2>2 DEF RejectRouting, store
<1>4. CASE Resume(s, t)
  <2> DEFINE row == IF ActiveRuns(t) = {} THEN LatestRun(t)
                    ELSE runs[t][CHOOSE i \in ActiveRuns(t) : TRUE]
  <2>1. LatestRun(t) \in Row
    BY <1>4, LatestRunType DEF Resume
  <2>2. ASSUME ActiveRuns(t) # {}
        PROVE  runs[t][CHOOSE i \in ActiveRuns(t) : TRUE] \in Row
    <3>1. PICK i \in ActiveRuns(t) : i = CHOOSE j \in ActiveRuns(t) : TRUE
      BY <2>2
    <3>2. i \in DOMAIN runs[t]
      BY DEF ActiveRuns
    <3> QED
      BY <3>1, <3>2
  <2>3. row \in Row
    BY <2>1, <2>2
  <2>4. job' = [job EXCEPT ![s] = row]
    BY <1>4 DEF Resume
  <2>5. job' \in [Session -> Row]
    BY <2>3, <2>4
  <2> QED
    BY <1>4, <2>5 DEF Resume, Take, Goto, PC, store
<1>5. CASE Reconcile(s, t)
  <2>1. DriveTask(t, LatestRun(t))
    BY <1>5 DEF Reconcile
  <2>2. /\ status' \in [Task -> TaskStatus]
        /\ hist' \in [Task -> [last : TaskStatus, onlyReady : BOOLEAN]]
    BY <2>1, TransitionTypes DEF DriveTask, DriveTarget, TaskStatus
  <2> QED
    BY <1>5, <2>2 DEF Reconcile
<1>6. CASE ReviewMerged(s, t)
  <2>1. Transition(t, "DONE")
    BY <1>6 DEF ReviewMerged
  <2>2. /\ status' \in [Task -> TaskStatus]
        /\ hist' \in [Task -> [last : TaskStatus, onlyReady : BOOLEAN]]
    BY <2>1, TransitionTypes DEF TaskStatus
  <2> QED
    BY <1>6, <2>2 DEF ReviewMerged
<1>7. CASE ReviewClosed(s, t)
  <2>1. Transition(t, "CANCELLED")
    BY <1>7 DEF ReviewClosed
  <2>2. /\ status' \in [Task -> TaskStatus]
        /\ hist' \in [Task -> [last : TaskStatus, onlyReady : BOOLEAN]]
    BY <2>1, TransitionTypes DEF TaskStatus
  <2>3. note' \in [Session -> Note]
    BY <1>7, StoreAssumption
       DEF ReviewClosed, Note, Reason, ReasonKind, TaskStatus, AttemptOrNone
  <2> QED
    BY <1>7, <2>2, <2>3 DEF ReviewClosed, Take, Goto, PC
<1> QED
  BY <1>1, <1>2, <1>3, <1>4, <1>5, <1>6, <1>7 DEF Select

(* A compare-and-swap transition keeps the task tables typed (retry.py,    *)
(* dispatch.py _record_failure).                                           *)
LEMMA ApplyTransitionTypes ==
    ASSUME StoreTypeOK, NEW t \in Task, NEW source, NEW target \in TaskStatus,
           ApplyTransition(t, source, target)
    PROVE  /\ status' \in [Task -> TaskStatus]
           /\ hist' \in [Task -> [last : TaskStatus, onlyReady : BOOLEAN]]
BY RecordTypes DEF ApplyTransition

(* Starting an attempt, whatever state its agent begins in, keeps the      *)
(* state typed (dispatch.py _start_run).                                   *)
LEMMA StartTypes ==
    ASSUME TypeOK, NEW s \in Session, NEW a \in Attempt,
           NEW st \in EngineState, NEW row \in RunStatus, NEW step \in PC,
           Start(s, a, st, row, step), faults' \in 0..MaxFaults,
           UNCHANGED operator
    PROVE  TypeOK'
<1> USE DEF TypeOK, StoreTypeOK, WorkerTypeOK, OperatorTypeOK, operator
<1> DEFINE ws == IF job[s].ws = 0 THEN a ELSE job[s].ws
<1>1. ws \in AttemptOrNone /\ a \in AttemptOrNone
  BY StoreAssumption DEF Row, Attempt, AttemptOrNone
<1>2. [id |-> a, ws |-> ws, status |-> row, gates |-> "none"] \in Row
  BY <1>1 DEF Row, Gates
<1>3. job' \in [Session -> Row]
  BY <1>2 DEF Start
<1>4. engine' \in [Attempt -> [st : EngineState, ws : AttemptOrNone]]
  BY <1>1 DEF Start
<1> QED
  BY <1>3, <1>4 DEF Start, Goto, store

(* Every step of a dispatch keeps the state typed (dispatch.py).           *)
LEMMA DispatchTypes ==
    ASSUME TypeOK, NEW s \in Session, DispatchStep(s), UNCHANGED operator
    PROVE  TypeOK'
<1> USE DEF TypeOK, StoreTypeOK, WorkerTypeOK, OperatorTypeOK, operator
<1>1. CASE BuildContext(s)
  <2> DEFINE ws == IF ReusesWorkspace(task[s]) THEN LatestRun(task[s]).ws ELSE 0
  <2>1. ws \in AttemptOrNone
    <3>1. CASE ReusesWorkspace(task[s])
      <4>1. LatestRun(task[s]) \in Row
        BY <3>1, LatestRunType DEF ReusesWorkspace
      <4> QED
        BY <3>1, <4>1 DEF Row
    <3>2. CASE ~ ReusesWorkspace(task[s])
      BY <3>2, StoreAssumption DEF AttemptOrNone
    <3> QED
      BY <3>1, <3>2
  <2>2. [NoRow EXCEPT !.ws = ws] \in Row
    BY <2>1, Blanks DEF Row
  <2>3. job' = [job EXCEPT ![s] = [NoRow EXCEPT !.ws = ws]]
    BY <1>1 DEF BuildContext
  <2> HIDE DEF ws
  <2> QED
    <3>1. job' \in [Session -> Row]
      BY <2>2, <2>3
    <3> QED
      BY <1>1, <3>1 DEF BuildContext, Goto, PC, store
<1>2. CASE ContextFails(s)
  <2>1. ApplyTransition(task[s], "READY", "BLOCKED") /\ Fault("context")
    BY <1>2 DEF ContextFails
  <2>2. /\ status' \in [Task -> TaskStatus]
        /\ hist' \in [Task -> [last : TaskStatus, onlyReady : BOOLEAN]]
        /\ faults' \in 0..MaxFaults
    BY <2>1, ApplyTransitionTypes, FaultTypes DEF TaskStatus
  <2>3. note' \in [Session -> Note]
    BY <1>2, StoreAssumption
       DEF ContextFails, Note, Reason, ReasonKind, TaskStatus, AttemptOrNone
  <2> QED
    BY <1>2, <2>2, <2>3 DEF ContextFails, Goto, PC
<1>3. CASE DispatchRefused(s)
  BY <1>3, LeaveTypes DEF DispatchRefused, store
<1>4. CASE Claim(s)
  <2>1. Transition(task[s], "CLAIMED")
    BY <1>4 DEF Claim
  <2>2. /\ status' \in [Task -> TaskStatus]
        /\ hist' \in [Task -> [last : TaskStatus, onlyReady : BOOLEAN]]
    BY <2>1, TransitionTypes DEF TaskStatus
  <2> QED
    BY <1>4, <2>2 DEF Claim, Goto, PC
<1>5. CASE ClaimRefused(s)
  BY <1>5, LeaveTypes DEF ClaimRefused, store
<1>6. CASE ProvisionFails(s)
  BY <1>6, LeaveTypes, FaultTypes DEF ProvisionFails, store
<1>7. ASSUME NEW a \in Attempt, Launch(s, a) PROVE TypeOK'
  BY <1>7, StartTypes DEF Launch, NoFault, EngineState, RunStatus, PC
<1>8. ASSUME NEW a \in Attempt, LaunchStillborn(s, a) PROVE TypeOK'
  BY <1>8, StartTypes, FaultTypes
     DEF LaunchStillborn, EngineState, RunStatus, PC
<1>9. ASSUME NEW a \in Attempt, LaunchRaises(s, a) PROVE TypeOK'
  BY <1>9, StartTypes, FaultTypes DEF LaunchRaises, EngineState, RunStatus, PC
<1>10. CASE PersistRun(s)
  BY <1>10, SaveTypes DEF PersistRun, Goto, PC
<1>11. CASE PersistRefused(s)
  BY <1>11, LeaveTypes DEF PersistRefused, store
<1>12. CASE AdvanceToRunning(s)
  <2>1. Transition(task[s], "RUNNING")
    BY <1>12 DEF AdvanceToRunning
  <2>2. /\ status' \in [Task -> TaskStatus]
        /\ hist' \in [Task -> [last : TaskStatus, onlyReady : BOOLEAN]]
    BY <2>1, TransitionTypes DEF TaskStatus
  <2> QED
    BY <1>12, <2>2 DEF AdvanceToRunning, Goto, PC
<1>13. CASE AdvanceRefused(s)
  BY <1>13, LeaveTypes DEF AdvanceRefused, store
<1>14. CASE Unclaim(s)
  <2>1. /\ status' \in [Task -> TaskStatus]
        /\ hist' \in [Task -> [last : TaskStatus, onlyReady : BOOLEAN]]
    BY <1>14, ApplyTransitionTypes DEF Unclaim, TaskStatus
  <2> QED
    BY <1>14, <2>1, LeaveTypes DEF Unclaim
<1> QED
  BY <1>1, <1>2, <1>3, <1>4, <1>5, <1>6, <1>7, <1>8, <1>9, <1>10, <1>11,
     <1>12, <1>13, <1>14 DEF DispatchStep

(* _drive_task moves the task to a lifecycle state or leaves it alone      *)
(* (tracking.py).                                                          *)
LEMMA DriveTaskTypes ==
    ASSUME StoreTypeOK, NEW t \in Task, NEW row, DriveTask(t, row)
    PROVE  /\ status' \in [Task -> TaskStatus]
           /\ hist' \in [Task -> [last : TaskStatus, onlyReady : BOOLEAN]]
<1>1. DriveTarget(t, row) \in TaskStatus
  BY DEF DriveTarget, TaskStatus
<1> QED
  BY <1>1, TransitionTypes DEF DriveTask, StoreTypeOK

(* Every step of tracking and of the runtime's reaction keeps the state    *)
(* typed; reading the stored row needs RunsTracked (tracking.py,           *)
(* runtime.py).                                                            *)
LEMMA TrackingTypes ==
    ASSUME TypeOK, RunsTracked, NEW s \in Session, TrackingStep(s),
           UNCHANGED operator
    PROVE  TypeOK'
<1> USE DEF TypeOK, StoreTypeOK, WorkerTypeOK, OperatorTypeOK, operator
<1>1. CASE Collect(s)
  <2> DEFINE row == StoredRow(s)
  <2>1. row \in Row
    BY <1>1, StoredRowType DEF Collect
  <2>2. PICK verdict \in IF Collected(row.id) = "SUCCEEDED"
                         THEN {"green", "red"} ELSE {row.gates} :
          job' = [job EXCEPT ![s] = [row EXCEPT !.status = Collected(row.id),
                                                !.gates = verdict]]
    BY <1>1 DEF Collect
  <2>3. verdict \in Gates /\ Collected(row.id) \in RunStatus
    BY <2>1, <2>2 DEF Row, Gates, Collected, RunStatus
  <2> HIDE DEF row
  <2>4. [row EXCEPT !.status = Collected(row.id), !.gates = verdict] \in Row
    BY <2>1, <2>3 DEF Row
  <2>5. job' \in [Session -> Row]
    BY <2>2, <2>4
  <2> QED
    BY <1>1, <2>5 DEF Collect, Goto, PC, store
<1>2. CASE CollectFails(s)
  BY <1>2, LeaveTypes, FaultTypes DEF CollectFails, store
<1>3. CASE ObserveTerminal(s)
  <2>1. StoredRow(s) \in Row
    BY <1>3, StoredRowType DEF ObserveTerminal
  <2> QED
    BY <1>3, <2>1 DEF ObserveTerminal, Goto, PC, store
<1>4. CASE StoreRun(s)
  <2>1. PICK i \in RowOf(task[s], job[s].id) : UpdateRun(task[s], i, job[s])
    BY <1>4 DEF StoreRun
  <2>2. i \in DOMAIN runs[task[s]]
    BY DEF RowOf
  <2>3. runs' \in [Task -> Seq(Row)]
    BY <2>1, <2>2, UpdateTypes
  <2> QED
    BY <1>4, <2>3 DEF StoreRun, Goto, PC
<1>5. CASE StoreRefused(s)
  BY <1>5, LeaveTypes DEF StoreRefused, store
<1>6. CASE Drive(s)
  <2>1. DriveTask(task[s], job[s])
    BY <1>6 DEF Drive
  <2>2. /\ status' \in [Task -> TaskStatus]
        /\ hist' \in [Task -> [last : TaskStatus, onlyReady : BOOLEAN]]
    BY <2>1, DriveTaskTypes DEF TaskStatus
  <2> QED
    BY <1>6, <2>2 DEF Drive, Goto, PC
<1>7. CASE PollTimeout(s)
  BY <1>7, LeaveTypes DEF PollTimeout, store
<1>8. CASE ActNotSuccessful(s)
  <2>1. pc' \in [Session -> PC] /\ job' \in [Session -> Row]
    BY <1>8, LeaveTypes, ZenonT(30) DEF ActNotSuccessful, Goto, PC
  <2>2. note' \in [Session -> Note]
    <3> DEFINE failed == [to |-> "FAILED",
                          why |-> [kind |-> "operational", run |-> 0]]
    <3>1. failed \in Note
      BY StoreAssumption DEF Note, Reason, ReasonKind, TaskStatus, AttemptOrNone
    <3>2. Leave(s) \/ note' = [note EXCEPT ![s] = failed]
      BY <1>8 DEF ActNotSuccessful
    <3> HIDE DEF failed
    <3> QED
      BY <3>1, <3>2, LeaveTypes
  <2> QED
    BY <1>8, <2>1, <2>2 DEF ActNotSuccessful, Concerns
<1>9. CASE ActRequeue(s)
  <2>1. Transition(task[s], "READY")
    BY <1>9 DEF ActRequeue
  <2>2. /\ status' \in [Task -> TaskStatus]
        /\ hist' \in [Task -> [last : TaskStatus, onlyReady : BOOLEAN]]
    BY <2>1, TransitionTypes DEF TaskStatus
  <2> QED
    BY <1>9, <2>2, LeaveTypes DEF ActRequeue, Concerns
<1>10. CASE ActBlock(s)
  <2>1. PICK kind \in {"correction", "operational"} : BlockLater(s, kind, 0)
    BY <1>10 DEF ActBlock
  <2>2. kind \in ReasonKind /\ 0 \in AttemptOrNone
    BY StoreAssumption DEF ReasonKind, AttemptOrNone
  <2>3. pc' \in [Session -> PC] /\ note' \in [Session -> Note]
    BY <2>1, <2>2, BlockLaterTypes
  <2> QED
    BY <1>10, <2>3 DEF ActBlock, Concerns
<1>11. CASE ActNothing(s)
  BY <1>11, LeaveTypes DEF ActNothing, Concerns
<1>12. CASE ActDone(s)
  <2>1. /\ status' \in [Task -> TaskStatus]
        /\ hist' \in [Task -> [last : TaskStatus, onlyReady : BOOLEAN]]
    BY <1>12, TransitionTypes DEF ActDone, TaskStatus
  <2> QED
    BY <1>12, <2>1, LeaveTypes DEF ActDone, Concerns
<1>13. CASE ActPublish(s)
  BY <1>13 DEF ActPublish, Concerns, Goto, PC
<1>14. CASE Block(s)
  <2>1. Transition(task[s], "BLOCKED")
    BY <1>14 DEF Block
  <2>2. /\ status' \in [Task -> TaskStatus]
        /\ hist' \in [Task -> [last : TaskStatus, onlyReady : BOOLEAN]]
    BY <2>1, TransitionTypes DEF TaskStatus
  <2> QED
    BY <1>14, <2>2 DEF Block, Goto, PC
<1>15. CASE BlockRefused(s)
  BY <1>15, LeaveTypes DEF BlockRefused, store
<1>16. CASE WriteNote(s)
  <2>1. note[s].to \in TaskStatus /\ note[s].why \in Reason
    BY DEF Note
  <2>2. status' \in [Task -> TaskStatus] /\ reason' \in [Task -> Reason]
    BY <1>16, <2>1 DEF WriteNote, UpdateRow
  <2> QED
    BY <1>16, <2>2, LeaveTypes DEF WriteNote, UpdateRow
<1> QED
  BY <1>1, <1>2, <1>3, <1>4, <1>5, <1>6, <1>7, <1>8, <1>9, <1>10, <1>11,
     <1>12, <1>13, <1>14, <1>15, <1>16 DEF TrackingStep

(* Every step of a publication keeps the state typed (publication.py).     *)
LEMMA PublicationTypes ==
    ASSUME TypeOK, NEW s \in Session, PublicationStep(s), UNCHANGED operator
    PROVE  TypeOK'
<1> USE DEF TypeOK, StoreTypeOK, WorkerTypeOK, OperatorTypeOK, operator
<1>1. [ws |-> job[s].ws, run |-> job[s].id]
         \in [ws : AttemptOrNone, run : AttemptOrNone]
  BY DEF Row
<1>2. CASE PublishRefused(s)
  BY <1>2 DEF PublishRefused, InPublish, Goto, PC
<1>3. CASE SecurityBlocks(s)
  <2>1. BlockLater(s, "security", 0) /\ Fault("security")
    BY <1>3 DEF SecurityBlocks
  <2>2. /\ pc' \in [Session -> PC] /\ note' \in [Session -> Note]
        /\ faults' \in 0..MaxFaults
    BY <2>1, BlockLaterTypes, FaultTypes, StoreAssumption
       DEF ReasonKind, AttemptOrNone
  <2> QED
    BY <1>3, <2>2 DEF SecurityBlocks, InPublish
<1>4. CASE PublishFails(s)
  BY <1>4, FaultTypes DEF PublishFails, InPublish, Goto, PC
<1>5. CASE PublishExisting(s)
  BY <1>5 DEF PublishExisting, InPublish, Goto, PC
<1>6. CASE PublishRevision(s)
  <2>1. prs' \in [Task -> SUBSET [ws : AttemptOrNone, run : AttemptOrNone]]
    <3> DEFINE new == [ws |-> job[s].ws, run |-> job[s].id]
               kept == {pr \in prs[task[s]] : pr.ws # job[s].ws}
    <3>1. kept \union {new} \in SUBSET [ws : AttemptOrNone, run : AttemptOrNone]
      BY <1>1
    <3>2. prs' = [prs EXCEPT ![task[s]] = kept \union {new}]
      BY <1>6 DEF PublishRevision
    <3> HIDE DEF kept, new
    <3> QED
      BY <3>1, <3>2
  <2> QED
    BY <1>6, <2>1 DEF PublishRevision, InPublish, Goto, PC
<1>7. CASE PublishNew(s)
  BY <1>7 DEF PublishNew, InPublish, Goto, PC
<1>8. CASE PersistPr(s)
  <2>1. prs' \in [Task -> SUBSET [ws : AttemptOrNone, run : AttemptOrNone]]
    <3> DEFINE new == [ws |-> job[s].ws, run |-> job[s].id]
               all == prs[task[s]] \union {new}
    <3>1. all \in SUBSET [ws : AttemptOrNone, run : AttemptOrNone]
      BY <1>1
    <3>2. prs' = prs \/ prs' = [prs EXCEPT ![task[s]] = all]
      BY <1>8 DEF PersistPr
    <3> HIDE DEF all, new
    <3> QED
      BY <3>1, <3>2
  <2> QED
    BY <1>8, <2>1 DEF PersistPr, Goto, PC
<1>9. CASE OpenPr(s)
  <2>1. /\ status' \in [Task -> TaskStatus]
        /\ hist' \in [Task -> [last : TaskStatus, onlyReady : BOOLEAN]]
    BY <1>9, TransitionTypes DEF OpenPr, TaskStatus
  <2> QED
    BY <1>9, <2>1 DEF OpenPr, Goto, PC
<1>10. CASE AwaitHuman(s)
  <2>1. /\ status' \in [Task -> TaskStatus]
        /\ hist' \in [Task -> [last : TaskStatus, onlyReady : BOOLEAN]]
    BY <1>10, TransitionTypes DEF AwaitHuman, TaskStatus
  <2> QED
    BY <1>10, <2>1, LeaveTypes DEF AwaitHuman
<1>11. CASE BlockFailedPublication(s)
  <2>1. job[s].id \in AttemptOrNone /\ "publication" \in ReasonKind
    BY DEF Row, ReasonKind
  <2>2. /\ pc' \in [Session -> PC] /\ note' \in [Session -> Note]
        /\ job' \in [Session -> Row]
    BY <1>11, <2>1, LeaveTypes, BlockLaterTypes DEF BlockFailedPublication
  <2> QED
    BY <1>11, <2>2 DEF BlockFailedPublication, store
<1> QED
  BY <1>2, <1>3, <1>4, <1>5, <1>6, <1>7, <1>8, <1>9, <1>10, <1>11
     DEF PublicationStep

(* An agent that ends or expires keeps the state typed (codex/adapter.py   *)
(* collect).                                                               *)
LEMMA AgentTypes ==
    ASSUME TypeOK, NEW a \in Attempt, AgentStep(a), UNCHANGED operator
    PROVE  TypeOK'
<1> USE DEF TypeOK, StoreTypeOK, WorkerTypeOK, OperatorTypeOK, operator
<1>1. PICK st \in EngineState : engine' = [engine EXCEPT ![a].st = st]
  BY DEF AgentStep, AgentEnds, AgentExpires, EngineState
<1>2. engine' \in [Attempt -> [st : EngineState, ws : AttemptOrNone]]
  BY <1>1
<1>3. faults' \in 0..MaxFaults
  BY FaultTypes DEF AgentStep, AgentEnds, AgentExpires, NoFault
<1> QED
  BY <1>2, <1>3 DEF AgentStep, AgentEnds, AgentExpires, store

(* Every operator command keeps the state typed (retry.py, rework.py,      *)
(* terminal_recovery.py).                                                  *)
LEMMA OperatorTypes ==
    ASSUME TypeOK, OperatorNext
    PROVE  TypeOK'
<1> USE DEF TypeOK, StoreTypeOK, WorkerTypeOK, OperatorTypeOK, operator, worker
<1>1. UNCHANGED worker
  BY DEF OperatorNext
<1>2. ASSUME NEW o \in Operators, RetryStep(o) PROVE TypeOK'
  <2>1. ASSUME NEW t \in Task, RetryDecide(o, t) PROVE TypeOK'
    BY <1>1, <2>1 DEF RetryDecide, store
  <2>2. CASE RetryUnclaim(o)
    <3>1. /\ status' \in [Task -> TaskStatus]
        /\ hist' \in [Task -> [last : TaskStatus, onlyReady : BOOLEAN]]
      BY <2>2, ApplyTransitionTypes DEF RetryUnclaim, TaskStatus
    <3> QED
      BY <1>1, <2>2, <3>1 DEF RetryUnclaim
  <2>3. CASE RetryApply(o)
    <3>1. otarget[o] \in TaskStatus
      BY DEF TaskStatus
    <3>2. /\ status' \in [Task -> TaskStatus]
        /\ hist' \in [Task -> [last : TaskStatus, onlyReady : BOOLEAN]]
      BY <2>3, <3>1, ApplyTransitionTypes DEF RetryApply
    <3> QED
      BY <1>1, <2>3, <3>2 DEF RetryApply
  <2> QED
    BY <1>2, <2>1, <2>2, <2>3 DEF RetryStep
<1>3. ASSUME NEW t \in Task, RequestRework(t) PROVE TypeOK'
  <2>1. LatestRun(t).id \in AttemptOrNone
    BY <1>3, LatestRunType DEF RequestRework, Row
  <2>2. /\ status' \in [Task -> TaskStatus]
        /\ hist' \in [Task -> [last : TaskStatus, onlyReady : BOOLEAN]]
    BY <1>3, RecordTypes DEF RequestRework, TaskStatus
  <2>3. rework' \in [Task -> SUBSET AttemptOrNone]
    BY <1>3, <2>1 DEF RequestRework
  <2> QED
    BY <1>1, <1>3, <2>2, <2>3 DEF RequestRework
<1>4. ASSUME NEW t \in Task, OverrideSecurity(t) PROVE TypeOK'
  <2>1. /\ status' \in [Task -> TaskStatus]
        /\ hist' \in [Task -> [last : TaskStatus, onlyReady : BOOLEAN]]
    BY <1>4, TransitionTypes DEF OverrideSecurity, TaskStatus
  <2> QED
    BY <1>1, <1>4, <2>1 DEF OverrideSecurity
<1>5. ASSUME NEW t \in Task, NEW kind \in {"timeout", "worker"},
             AuthorizeTerminal(t, kind)
      PROVE  TypeOK'
  <2>1. LatestRun(t).id \in AttemptOrNone
    BY <1>5, LatestRunType DEF AuthorizeTerminal, Row
  <2>2. /\ status' \in [Task -> TaskStatus]
        /\ hist' \in [Task -> [last : TaskStatus, onlyReady : BOOLEAN]]
    BY <1>5, RecordTypes DEF AuthorizeTerminal, TaskStatus
  <2>3. reason' \in [Task -> Reason]
    BY <1>5, <2>1 DEF AuthorizeTerminal, Reason, ReasonKind
  <2> QED
    BY <1>1, <1>5, <2>2, <2>3 DEF AuthorizeTerminal
<1>6. ASSUME NEW t \in Task, AuthorizeOrphan(t) PROVE TypeOK'
  <2>1. LatestRun(t) \in Row /\ LatestRun(t).id \in AttemptOrNone
    BY <1>6, LatestRunType DEF AuthorizeOrphan, Row
  <2>2. /\ status' \in [Task -> TaskStatus]
        /\ hist' \in [Task -> [last : TaskStatus, onlyReady : BOOLEAN]]
    BY <1>6, RecordTypes DEF AuthorizeOrphan, TaskStatus
  <2>3. reason' \in [Task -> Reason]
    BY <1>6, <2>1 DEF AuthorizeOrphan, Reason, ReasonKind
  <2>4. runs' \in [Task -> Seq(Row)]
    <3>1. [LatestRun(t) EXCEPT !.status = "FAILED"] \in Row
      BY <2>1 DEF Row, RunStatus
    <3>2. runs' = [runs EXCEPT ![t] = [runs[t] EXCEPT ![Len(runs[t])] =
                     [LatestRun(t) EXCEPT !.status = "FAILED"]]]
      BY <1>6 DEF AuthorizeOrphan, LatestRun
    <3>3. runs[t] \in Seq(Row) /\ runs[t] # << >>
      BY <1>6 DEF AuthorizeOrphan, HasRun
    <3>4. ASSUME NEW q \in Seq(Row), q # << >>, NEW row \in Row
          PROVE  [q EXCEPT ![Len(q)] = row] \in Seq(Row)
      BY <3>4
    <3>5. [runs[t] EXCEPT ![Len(runs[t])] =
             [LatestRun(t) EXCEPT !.status = "FAILED"]] \in Seq(Row)
      BY <3>1, <3>3, <3>4
    <3> QED
      BY <3>2, <3>5
  <2> QED
    BY <1>1, <1>6, <2>2, <2>3, <2>4 DEF AuthorizeOrphan
<1> QED
  BY <1>2, <1>3, <1>4, <1>5, <1>6
     DEF OperatorNext, RecoverTimeout, RecoverWorkerFailure, RecoverOrphan

(* Every step of the factory preserves the type invariant, given that      *)
(* tracked runs have a row.                                                *)
LEMMA TypeStep == TypeOK /\ RunsTracked /\ [Next]_vars => TypeOK'
<1> SUFFICES ASSUME TypeOK, RunsTracked, [Next]_vars PROVE TypeOK'
  OBVIOUS
<1>1. CASE WorkerNext
  <2>1. ASSUME NEW s \in Session, NEW t \in Task, Select(s, t) PROVE TypeOK'
    BY <1>1, <2>1, SelectTypes DEF WorkerNext
  <2>2. ASSUME NEW s \in Session, SessionStep(s) PROVE TypeOK'
    BY <1>1, <2>2, DispatchTypes, TrackingTypes, PublicationTypes
       DEF WorkerNext, SessionStep
  <2>3. ASSUME NEW s \in Session, Crash(s) PROVE TypeOK'
    BY <1>1, <2>3, LeaveTypes, FaultTypes
       DEF WorkerNext, Crash, TypeOK, StoreTypeOK, WorkerTypeOK,
           OperatorTypeOK, store, operator
  <2>4. ASSUME NEW a \in Attempt, AgentStep(a) PROVE TypeOK'
    BY <1>1, <2>4, AgentTypes DEF WorkerNext
  <2> QED
    BY <1>1, <2>1, <2>2, <2>3, <2>4 DEF WorkerNext
<1>2. CASE OperatorNext
  BY <1>2, OperatorTypes
<1>3. CASE UNCHANGED vars
  BY <1>3 DEF vars, store, worker, operator, TypeOK, StoreTypeOK, WorkerTypeOK,
              OperatorTypeOK
<1> QED
  BY <1>1, <1>2, <1>3 DEF Next

-----------------------------------------------------------------------------
(* The rows present before a step are present after it, in place and with  *)
(* the same id.                                                            *)
RowsKept ==
    \A t \in Task : \A i \in DOMAIN runs[t] :
        i \in DOMAIN runs'[t] /\ runs'[t][i].id = runs[t][i].id

(* The writes that may reach agent_runs: save_run and update_run, each     *)
(* under the unique indexes.                                               *)
RunsStep ==
    \/ UNCHANGED runs
    \/ \E s \in Session : PersistRun(s)
    \/ \E t \in Task, row \in Row : \E i \in DOMAIN runs[t] :
          IndexesAllow(t, i, Updated(t, i, row)) /\ UpdateRun(t, i, row)

(* The steps that write agent_runs: a run is saved, a result is stored, or *)
(* the orphan recovery fails the latest run.                               *)
RunsWritten ==
    \/ UNCHANGED runs
    \/ \E s \in Session : PersistRun(s)
    \/ \E s \in Session : StoreRun(s)
    \/ \E t \in Task : RecoverOrphan(t)

(* A session writes agent_runs by save_run and update_run alone, and never *)
(* the requests of human QA (dispatch.py, tracking.py).                    *)
LEMMA OwnWrites ==
    ASSUME NEW s \in Session,
           (\E t \in Task : Select(s, t)) \/ SessionStep(s) \/ Crash(s)
    PROVE  UNCHANGED rework /\ (UNCHANGED runs \/ PersistRun(s) \/ StoreRun(s))
<1>1. ASSUME NEW t \in Task, Select(s, t)
      PROVE  UNCHANGED <<rework, runs>>
  BY <1>1 DEF Select, Begin, CancelIneligible, RejectRouting, Resume, Reconcile,
              ReviewMerged, ReviewClosed, store
<1>2. ASSUME DispatchStep(s)
      PROVE  UNCHANGED rework /\ (UNCHANGED runs \/ PersistRun(s))
  BY <1>2 DEF DispatchStep, BuildContext, ContextFails, DispatchRefused, Claim,
              ClaimRefused, ProvisionFails, Launch, LaunchStillborn,
              LaunchRaises, Start, PersistRun, PersistRefused, AdvanceToRunning,
              AdvanceRefused, Unclaim, store
<1>3. ASSUME TrackingStep(s)
      PROVE  UNCHANGED rework /\ (UNCHANGED runs \/ StoreRun(s))
  BY <1>3 DEF TrackingStep, Collect, CollectFails, ObserveTerminal, StoreRun,
              StoreRefused, Drive, PollTimeout, ActNotSuccessful, ActRequeue,
              ActBlock, ActNothing, ActDone, ActPublish, Concerns, Block,
              BlockRefused, WriteNote, store
<1>4. ASSUME PublicationStep(s) PROVE UNCHANGED <<rework, runs>>
  BY <1>4 DEF PublicationStep, PublishRefused, SecurityBlocks, PublishFails,
              PublishExisting, PublishRevision, PublishNew, PersistPr, OpenPr,
              AwaitHuman, BlockFailedPublication, InPublish, store
<1>5. CASE Crash(s)
  BY <1>5 DEF Crash, store
<1> QED
  BY <1>1, <1>2, <1>3, <1>4, <1>5 DEF SessionStep

(* No other step of the factory reaches agent_runs (run_sqlite.py save_run *)
(* and update_run, sqlite.py authorize_orphaned).                          *)
LEMMA NextWrites == [Next]_vars => RunsWritten
<1> SUFFICES ASSUME [Next]_vars PROVE RunsWritten
  OBVIOUS
<1>1. CASE WorkerNext
  <2>1. ASSUME NEW a \in Attempt, AgentStep(a) PROVE UNCHANGED runs
    BY <2>1 DEF AgentStep, AgentEnds, AgentExpires, store
  <2> QED
    BY <1>1, <2>1, OwnWrites DEF WorkerNext, RunsWritten
<1>2. CASE OperatorNext
  <2>1. ASSUME NEW o \in Operators, RetryStep(o) PROVE UNCHANGED runs
    BY <2>1 DEF RetryStep, RetryDecide, RetryUnclaim, RetryApply, store
  <2>2. ASSUME NEW t \in Task,
               \/ RequestRework(t) \/ OverrideSecurity(t)
               \/ RecoverTimeout(t) \/ RecoverWorkerFailure(t)
        PROVE  UNCHANGED runs
    BY <2>2 DEF RequestRework, OverrideSecurity, RecoverTimeout, RecoverWorkerFailure,
                AuthorizeTerminal
  <2> QED
    BY <1>2, <2>1, <2>2 DEF OperatorNext, RunsWritten
<1>3. CASE UNCHANGED vars
  BY <1>3 DEF vars, store, RunsWritten
<1> QED
  BY <1>1, <1>2, <1>3 DEF Next

(* Whatever step the factory takes, it changes agent_runs only through     *)
(* save_run or update_run under their indexes; the orphan recovery is an   *)
(* update of the latest row (run_sqlite.py, sqlite.py authorize_orphaned). *)
LEMMA NextRunsStep == TypeOK /\ [Next]_vars => RunsStep
<1> SUFFICES ASSUME TypeOK, [Next]_vars PROVE RunsStep
  OBVIOUS
<1> USE DEF TypeOK, StoreTypeOK, WorkerTypeOK
<1>1. ASSUME NEW s \in Session, StoreRun(s) PROVE RunsStep
  BY <1>1 DEF StoreRun, RunsStep, RowOf
<1>2. ASSUME NEW t \in Task, AuthorizeOrphan(t) PROVE RunsStep
  <2> DEFINE n == Len(runs[t])
             row == [LatestRun(t) EXCEPT !.status = "FAILED"]
  <2>1. n \in DOMAIN runs[t] /\ LatestRun(t) = runs[t][n] /\ runs[t][n] \in Row
    BY <1>2 DEF AuthorizeOrphan, HasRun, LatestRun
  <2>2. row \in Row
    BY <2>1 DEF Row, RunStatus
  <2>3. Updated(t, n, row) = row
    BY <2>1, <2>2 DEF Updated, Row
  <2>4. IndexesAllow(t, n, Updated(t, n, row))
    BY <2>1, <2>3 DEF IndexesAllow, IsTerminal, Row
  <2>5. UpdateRun(t, n, row)
    BY <1>2, <2>1, <2>3 DEF AuthorizeOrphan, UpdateRun
  <2> QED
    BY <2>1, <2>2, <2>4, <2>5 DEF RunsStep
<1> QED
  BY <1>1, <1>2, NextWrites DEF RunsWritten, RunsStep, RecoverOrphan

(* No write to agent_runs removes a row or changes its identity            *)
(* (run_sqlite.py save_run, update_run).                                   *)
LEMMA RunsStepKeepsRows == TypeOK /\ RunsStep => RowsKept
<1> SUFFICES ASSUME TypeOK, StoreTypeOK, RunsStep PROVE RowsKept
  BY DEF TypeOK
<1>1. CASE UNCHANGED runs
  BY <1>1 DEF RowsKept
<1>2. ASSUME NEW t \in Task, NEW row \in Row, SaveRun(t, row) PROVE RowsKept
  BY <1>2 DEF StoreTypeOK, SaveRun, RowsKept
<1>3. ASSUME NEW t \in Task, NEW row \in Row, NEW i \in DOMAIN runs[t],
             UpdateRun(t, i, row)
      PROVE  RowsKept
  <2>1. Updated(t, i, row).id = runs[t][i].id
    <3>1. runs[t][i] \in Row
      BY DEF StoreTypeOK
    <3> QED
      BY <3>1 DEF Updated, Row
  <2> QED
    BY <1>3, <2>1 DEF StoreTypeOK, UpdateRun, RowsKept
<1> QED
  BY <1>1, <1>2, <1>3 DEF RunsStep, PersistRun, TypeOK, WorkerTypeOK

(* Two active run rows never belong to one task and never share a          *)
(* workspace: what the two partial unique indexes maintain.                *)
ActiveRunsIsolated ==
    \A t, u \in Task : \A i \in ActiveRuns(t), j \in ActiveRuns(u) :
        <<t, i>> # <<u, j>> => t # u /\ runs[t][i].ws # runs[u][j].ws

(* The unique indexes of save_run and update_run preserve the isolation of *)
(* active runs (schema.py, the partial unique indexes).                    *)
LEMMA RunsStepIsolates ==
    TypeOK /\ ActiveRunsIsolated /\ RunsStep => ActiveRunsIsolated'
<1> SUFFICES ASSUME TypeOK, StoreTypeOK, ActiveRunsIsolated, RunsStep
             PROVE  ActiveRunsIsolated'
  BY DEF TypeOK
<1>1. CASE UNCHANGED runs
  BY <1>1 DEF ActiveRunsIsolated, ActiveRuns
<1>2. ASSUME NEW t \in Task, NEW row \in Row, CanSaveRun(t, row), SaveRun(t, row)
      PROVE  ActiveRunsIsolated'
  <2> DEFINE n == Len(runs[t]) + 1
  <2>1. /\ runs'[t][n] = row
        /\ \A i \in DOMAIN runs'[t] : i # n => i \in DOMAIN runs[t]
                                               /\ runs'[t][i] = runs[t][i]
        /\ \A u \in Task : u # t => runs'[u] = runs[u]
        /\ DOMAIN runs[t] = 1..Len(runs[t]) /\ Len(runs[t]) \in Nat
    BY <1>2 DEF StoreTypeOK, SaveRun
  <2>2. ~ IsTerminal(row) =>
          \A u \in Task : \A j \in ActiveRuns(u) : u # t /\ runs[u][j].ws # row.ws
    BY <1>2, <2>1 DEF CanSaveRun, IndexesAllow, ActiveRuns
  <2> HIDE DEF n
  <2> QED
    BY <2>1, <2>2 DEF ActiveRunsIsolated, ActiveRuns
<1>3. ASSUME NEW t \in Task, NEW row \in Row, NEW i \in DOMAIN runs[t],
             IndexesAllow(t, i, Updated(t, i, row)), UpdateRun(t, i, row)
      PROVE  ActiveRunsIsolated'
  <2> DEFINE new == Updated(t, i, row)
  <2>1. /\ runs'[t][i] = new
        /\ DOMAIN runs'[t] = DOMAIN runs[t]
        /\ \A j \in DOMAIN runs[t] : j # i => runs'[t][j] = runs[t][j]
        /\ \A u \in Task : u # t => runs'[u] = runs[u]
    BY <1>3 DEF StoreTypeOK, UpdateRun
  <2>2. ~ IsTerminal(new) =>
          \A u \in Task : \A j \in ActiveRuns(u) :
              \/ u = t /\ j = i
              \/ u # t /\ runs[u][j].ws # new.ws
    BY <1>3 DEF IndexesAllow
  <2> HIDE DEF new
  <2> QED
    BY <2>1, <2>2 DEF ActiveRunsIsolated, ActiveRuns
<1> QED
  BY <1>1, <1>2, <1>3 DEF RunsStep, PersistRun, TypeOK, WorkerTypeOK

-----------------------------------------------------------------------------
(* The other sessions stay where they are.                                 *)
Others(s) ==
    \A r \in Session \ {s} :
        pc'[r] = pc[r] /\ task'[r] = task[r] /\ job'[r] = job[r]

(* A step of one session leaves the other sessions' runs on record: rows   *)
(* are kept, so only the acting session needs an argument.                 *)
LEMMA TrackedElsewhere ==
    ASSUME RunsTracked, RowsKept, NEW s \in Session, Others(s),
           task'[s] \in Task, task \in [Session -> Task],
           pc'[s] \in {"advance", "poll", "drive"} =>
               \E i \in DOMAIN runs'[task'[s]] :
                   runs'[task'[s]][i].id = job'[s].id
    PROVE  RunsTracked'
<1> SUFFICES ASSUME NEW r \in Session, pc'[r] \in {"advance", "poll", "drive"}
             PROVE  \E i \in DOMAIN runs'[task'[r]] :
                        runs'[task'[r]][i].id = job'[r].id
  BY DEF RunsTracked, RowOf
<1>1. CASE r = s
  BY <1>1
<1>2. CASE r # s
  <2>1. PICK i \in DOMAIN runs[task[r]] : runs[task[r]][i].id = job[r].id
    BY <1>2 DEF RunsTracked, RowOf, Others
  <2>2. task'[r] = task[r] /\ job'[r] = job[r] /\ task[r] \in Task
    BY <1>2 DEF Others
  <2>3. i \in DOMAIN runs'[task[r]] /\ runs'[task[r]][i].id = job[r].id
    BY <2>1, <2>2 DEF RowsKept
  <2> QED
    BY <2>2, <2>3
<1> QED
  BY <1>1, <1>2

(* A step that moves no session keeps every tracked run on record.         *)
LEMMA TrackedSame ==
    ASSUME RunsTracked, RowsKept, task \in [Session -> Task],
           UNCHANGED <<pc, task, job>>
    PROVE  RunsTracked'
<1>1. ASSUME NEW r \in Session, pc[r] \in {"advance", "poll", "drive"}
      PROVE  \E i \in DOMAIN runs'[task[r]] : runs'[task[r]][i].id = job[r].id
  <2>1. PICK i \in DOMAIN runs[task[r]] : runs[task[r]][i].id = job[r].id
    BY <1>1 DEF RunsTracked, RowOf
  <2> QED
    BY <2>1 DEF RowsKept
<1> QED
  BY <1>1 DEF RunsTracked, RowOf

(* A step that takes the acting session out of the tracking steps needs no *)
(* argument for it.                                                        *)
LEMMA TrackedUntracked ==
    ASSUME TypeOK, RunsTracked, RowsKept, NEW s \in Session, Others(s),
           task'[s] \in Task, pc'[s] \notin {"advance", "poll", "drive"}
    PROVE  RunsTracked'
BY TrackedElsewhere DEF TypeOK, WorkerTypeOK

(* A session that resumes a task picks up a run that is on record          *)
(* (runtime.py, resume).                                                   *)
LEMMA SelectTracked ==
    ASSUME TypeOK, RunsTracked, RowsKept, NEW s \in Session, NEW t \in Task,
           Select(s, t)
    PROVE  RunsTracked'
<1> USE DEF TypeOK, StoreTypeOK, WorkerTypeOK
<1>1. CASE Begin(s, t)
  BY <1>1, TrackedUntracked DEF Begin, Take, Goto, Others
<1>2. CASE CancelIneligible(s, t)
  BY <1>2, TrackedSame DEF CancelIneligible
<1>3. CASE RejectRouting(s, t)
  BY <1>3, TrackedUntracked DEF RejectRouting, BlockLater, Goto, Others
<1>4. CASE Resume(s, t)
  <2>1. task'[s] = t /\ UNCHANGED runs /\ Others(s)
    BY <1>4 DEF Resume, Take, Goto, store, Others
  <2>2. \E i \in DOMAIN runs[t] : job'[s] = runs[t][i]
    <3>1. CASE ActiveRuns(t) = {}
      BY <1>4, <3>1 DEF Resume, LatestRun, HasRun
    <3>2. CASE ActiveRuns(t) # {}
      <4>1. (CHOOSE i \in ActiveRuns(t) : TRUE) \in DOMAIN runs[t]
        BY <3>2 DEF ActiveRuns
      <4> QED
        BY <1>4, <3>2, <4>1 DEF Resume
    <3> QED
      BY <3>1, <3>2
  <2> QED
    BY <2>1, <2>2, TrackedElsewhere
<1>5. CASE Reconcile(s, t)
  BY <1>5, TrackedSame DEF Reconcile
<1>6. CASE ReviewMerged(s, t)
  BY <1>6, TrackedSame DEF ReviewMerged
<1>7. CASE ReviewClosed(s, t)
  BY <1>7, TrackedUntracked DEF ReviewClosed, Take, Goto, Others
<1> QED
  BY <1>1, <1>2, <1>3, <1>4, <1>5, <1>6, <1>7 DEF Select

(* A session that gives its task up tracks nothing.                        *)
LEMMA LeaveTracked ==
    ASSUME TypeOK, RunsTracked, RowsKept, NEW s \in Session, Leave(s),
           UNCHANGED task
    PROVE  RunsTracked'
BY TrackedUntracked DEF TypeOK, WorkerTypeOK, Leave, Goto, Others

(* A session that goes to a step outside tracking tracks nothing.          *)
LEMMA GotoTracked ==
    ASSUME TypeOK, RunsTracked, RowsKept, NEW s \in Session, NEW step,
           Goto(s, step), step \notin {"advance", "poll", "drive"},
           UNCHANGED task, Others(s)
    PROVE  RunsTracked'
BY TrackedUntracked DEF TypeOK, WorkerTypeOK, Goto

(* Dispatch goes on to track a run only after it saved the row             *)
(* (dispatch.py _persist_run before _advance_to_running).                  *)
LEMMA DispatchTracked ==
    ASSUME TypeOK, RunsTracked, RowsKept, NEW s \in Session, DispatchStep(s)
    PROVE  RunsTracked'
<1> USE DEF TypeOK, StoreTypeOK, WorkerTypeOK
<1>1. CASE BuildContext(s)
  BY <1>1, TrackedUntracked DEF BuildContext, Goto, Others
<1>2. CASE ContextFails(s)
  BY <1>2, TrackedUntracked DEF ContextFails, Goto, Others
<1>3. CASE DispatchRefused(s) \/ ClaimRefused(s) \/ ProvisionFails(s)
             \/ PersistRefused(s) \/ AdvanceRefused(s) \/ Unclaim(s)
  BY <1>3, LeaveTracked DEF DispatchRefused, ClaimRefused, ProvisionFails,
                            PersistRefused, AdvanceRefused, Unclaim
<1>4. CASE Claim(s)
  BY <1>4, TrackedUntracked DEF Claim, Goto, Others
<1>5. ASSUME NEW a \in Attempt, Launch(s, a) \/ LaunchStillborn(s, a)
                                  \/ LaunchRaises(s, a)
      PROVE  RunsTracked'
  BY <1>5, TrackedUntracked, ZenonT(30)
     DEF Launch, LaunchStillborn, LaunchRaises, Start, Goto, Others
<1>6. CASE PersistRun(s)
  <2>1. /\ task'[s] = task[s] /\ job'[s] = job[s] /\ Others(s)
        /\ SaveRun(task[s], job[s])
    BY <1>6 DEF PersistRun, Goto, Others
  <2>2. LET n == Len(runs[task[s]]) + 1
        IN  n \in DOMAIN runs'[task[s]] /\ runs'[task[s]][n] = job[s]
    BY <2>1 DEF SaveRun
  <2> QED
    BY <2>1, <2>2, TrackedElsewhere
<1>7. CASE AdvanceToRunning(s)
  <2>1. UNCHANGED <<runs, task, job>> /\ Others(s) /\ pc[s] = "advance"
    BY <1>7 DEF AdvanceToRunning, Goto, Others, At
  <2>2. \E i \in DOMAIN runs[task[s]] : runs[task[s]][i].id = job[s].id
    BY <2>1 DEF RunsTracked, RowOf
  <2> QED
    BY <2>1, <2>2, TrackedElsewhere
<1> QED
  BY <1>1, <1>2, <1>3, <1>4, <1>5, <1>6, <1>7 DEF DispatchStep

(* Tracking stays with a run whose row it read or wrote (tracking.py       *)
(* refresh).                                                               *)
LEMMA TrackingTracked ==
    ASSUME TypeOK, RunsTracked, RowsKept, NEW s \in Session, TrackingStep(s)
    PROVE  RunsTracked'
<1> USE DEF TypeOK, StoreTypeOK, WorkerTypeOK
<1>1. CASE Collect(s)
  <2>1. Goto(s, "store") /\ UNCHANGED task /\ Others(s)
    BY <1>1 DEF Collect, Goto, Others
  <2> QED
    BY <2>1, GotoTracked
<1>2. CASE CollectFails(s) \/ StoreRefused(s) \/ PollTimeout(s)
             \/ ActRequeue(s) \/ ActNothing(s) \/ ActDone(s)
             \/ BlockRefused(s) \/ WriteNote(s)
  BY <1>2, LeaveTracked
     DEF CollectFails, StoreRefused, PollTimeout, ActRequeue, ActNothing,
         ActDone, Concerns, BlockRefused, WriteNote
<1>3. CASE ObserveTerminal(s)
  <2>1. /\ UNCHANGED <<runs, task>> /\ Others(s)
        /\ job'[s] = StoredRow(s) /\ At(s, "poll")
    BY <1>3 DEF ObserveTerminal, Goto, Others, store
  <2>2. RowOf(task[s], StoredRow(s).id) # {}
    BY <2>1, StoredRowType
  <2> QED
    BY <2>1, <2>2, TrackedElsewhere DEF RowOf
<1>4. CASE StoreRun(s)
  <2>1. PICK i \in DOMAIN runs[task[s]] : runs[task[s]][i].id = job[s].id
    BY <1>4 DEF StoreRun, RowOf
  <2>2. UNCHANGED <<task, job>> /\ Others(s)
    BY <1>4 DEF StoreRun, Goto, Others
  <2> QED
    BY <2>1, <2>2, TrackedElsewhere DEF RowsKept
<1>5. CASE Drive(s)
  <2>1. UNCHANGED <<runs, task, job>> /\ Others(s) /\ pc[s] = "drive"
    BY <1>5 DEF Drive, Goto, Others, At
  <2>2. \E i \in DOMAIN runs[task[s]] : runs[task[s]][i].id = job[s].id
    BY <2>1 DEF RunsTracked, RowOf
  <2> QED
    BY <2>1, <2>2, TrackedElsewhere
<1>6. CASE ActNotSuccessful(s)
  <2>1. UNCHANGED task
    BY <1>6 DEF ActNotSuccessful, Concerns
  <2>2. Leave(s) \/ (Goto(s, "note") /\ UNCHANGED job)
    BY <1>6 DEF ActNotSuccessful
  <2> QED
    BY <2>1, <2>2, LeaveTracked, GotoTracked DEF Goto, Others
<1>7. CASE ActBlock(s)
  BY <1>7, GotoTracked DEF ActBlock, BlockLater, Concerns, Goto, Others
<1>8. CASE ActPublish(s)
  BY <1>8, GotoTracked DEF ActPublish, Concerns, Goto, Others
<1>9. CASE Block(s)
  BY <1>9, GotoTracked DEF Block, Goto, Others
<1> QED
  BY <1>1, <1>2, <1>3, <1>4, <1>5, <1>6, <1>7, <1>8, <1>9 DEF TrackingStep

(* Publication hands no run back to tracking (publication.py).             *)
LEMMA PublicationTracked ==
    ASSUME TypeOK, RunsTracked, RowsKept, NEW s \in Session, PublicationStep(s)
    PROVE  RunsTracked'
<1> USE DEF TypeOK, WorkerTypeOK
<1>1. CASE AwaitHuman(s)
  BY <1>1, LeaveTracked DEF AwaitHuman
<1>2. CASE BlockFailedPublication(s)
  <2>1. UNCHANGED task
    BY <1>2 DEF BlockFailedPublication
  <2>2. Leave(s) \/ (Goto(s, "block") /\ UNCHANGED job)
    BY <1>2 DEF BlockFailedPublication, BlockLater
  <2> QED
    BY <2>1, <2>2, LeaveTracked, GotoTracked DEF Goto, Others
<1>3. CASE PublicationStep(s) /\ ~ AwaitHuman(s) /\ ~ BlockFailedPublication(s)
  <2>1. PICK step \in {"pubfail", "block", "open", "persist", "await"} :
           Goto(s, step)
    BY <1>3 DEF PublicationStep, PublishRefused, SecurityBlocks, BlockLater,
                PublishFails, PublishExisting, PublishRevision, PublishNew,
                PersistPr, OpenPr
  <2>2. UNCHANGED <<task, job>>
    BY <1>3 DEF PublicationStep, PublishRefused, SecurityBlocks, PublishFails,
                PublishExisting, PublishRevision, PublishNew, PersistPr, OpenPr,
                InPublish
  <2> QED
    BY <2>1, <2>2, GotoTracked DEF Goto, Others
<1> QED
  BY <1>1, <1>2, <1>3

(* Every step of the factory preserves RunsTracked.                        *)
LEMMA TrackedStep ==
    TypeOK /\ RunsTracked /\ RowsKept /\ [Next]_vars => RunsTracked'
<1> SUFFICES ASSUME TypeOK, RunsTracked, RowsKept, [Next]_vars
             PROVE  RunsTracked'
  OBVIOUS
<1>1. CASE WorkerNext
  <2>1. ASSUME NEW s \in Session, Crash(s) PROVE RunsTracked'
    BY <2>1, LeaveTracked DEF Crash
  <2>2. ASSUME NEW a \in Attempt, AgentStep(a) PROVE RunsTracked'
    BY <2>2, TrackedSame
       DEF AgentStep, AgentEnds, AgentExpires, TypeOK, WorkerTypeOK
  <2> QED
    BY <1>1, <2>1, <2>2, SelectTracked, DispatchTracked, TrackingTracked,
       PublicationTracked DEF WorkerNext, SessionStep
<1>2. CASE OperatorNext
  BY <1>2, TrackedSame DEF OperatorNext, worker, TypeOK, WorkerTypeOK
<1>3. CASE UNCHANGED vars
  BY <1>3, TrackedSame DEF vars, worker, TypeOK, WorkerTypeOK
<1> QED
  BY <1>1, <1>2, <1>3 DEF Next

-----------------------------------------------------------------------------
(* No pending row write holds the status RUNNING (runtime.py _block,       *)
(* dispatch.py _build_context).                                            *)
NotesDoNotRun == \A s \in Session : note[s].to # "RUNNING"

(* No step prepares a row write that would put a task back to RUNNING      *)
(* (runtime.py _block, dispatch.py _build_context).                        *)
LEMMA NotesStep == TypeOK /\ NotesDoNotRun /\ [Next]_vars => NotesDoNotRun'
<1> SUFFICES ASSUME TypeOK, NotesDoNotRun, [Next]_vars PROVE NotesDoNotRun'
  OBVIOUS
<1> USE DEF TypeOK, WorkerTypeOK, NotesDoNotRun
<1>1. CASE UNCHANGED note
  BY <1>1
<1>2. ASSUME NEW s \in Session, NEW n \in Note, n.to # "RUNNING",
             note' = [note EXCEPT ![s] = n]
      PROVE  NotesDoNotRun'
  BY <1>2
<1>3. ASSUME NEW s \in Session, Leave(s) PROVE NotesDoNotRun'
  BY <1>2, <1>3, Blanks DEF Leave, NoNote
<1>4. ASSUME NEW s \in Session, NEW kind, NEW run, BlockLater(s, kind, run)
      PROVE  NotesDoNotRun'
  BY <1>4 DEF BlockLater
<1>5. CASE WorkerNext
  <2>1. ASSUME NEW s \in Session, NEW t \in Task, Select(s, t)
        PROVE  NotesDoNotRun'
    BY <2>1, <1>1, <1>4
       DEF Select, Begin, CancelIneligible, RejectRouting, Resume, Reconcile,
           ReviewMerged, ReviewClosed
  <2>2. ASSUME NEW s \in Session, DispatchStep(s) PROVE NotesDoNotRun'
    BY <2>2, <1>1, <1>3
       DEF DispatchStep, BuildContext, ContextFails, DispatchRefused, Claim,
           ClaimRefused, ProvisionFails, Launch, LaunchStillborn, LaunchRaises,
           Start, PersistRun, PersistRefused, AdvanceToRunning, AdvanceRefused,
           Unclaim
  <2>3. ASSUME NEW s \in Session, ActNotSuccessful(s) PROVE NotesDoNotRun'
    BY <2>3, <1>3 DEF ActNotSuccessful
  <2>4. ASSUME NEW s \in Session, TrackingStep(s), ~ ActNotSuccessful(s)
        PROVE  NotesDoNotRun'
    BY <2>4, <1>1, <1>3, <1>4
       DEF TrackingStep, Collect, CollectFails, ObserveTerminal, StoreRun,
           StoreRefused, Drive, PollTimeout, ActRequeue, ActBlock, ActNothing,
           ActDone, ActPublish, Block, BlockRefused, WriteNote
  <2>5. ASSUME NEW s \in Session, PublicationStep(s) PROVE NotesDoNotRun'
    BY <2>5, <1>1, <1>3, <1>4
       DEF PublicationStep, PublishRefused, SecurityBlocks, PublishFails,
           PublishExisting, PublishRevision, PublishNew, PersistPr, OpenPr,
           AwaitHuman, BlockFailedPublication
  <2>6. ASSUME NEW s \in Session, Crash(s) PROVE NotesDoNotRun'
    BY <2>6, <1>3 DEF Crash
  <2>7. ASSUME NEW a \in Attempt, AgentStep(a) PROVE NotesDoNotRun'
    BY <2>7, <1>1 DEF AgentStep, AgentEnds, AgentExpires
  <2> QED
    BY <1>5, <2>1, <2>2, <2>3, <2>4, <2>5, <2>6, <2>7
       DEF WorkerNext, SessionStep
<1>6. CASE OperatorNext \/ UNCHANGED vars
  BY <1>1, <1>6 DEF OperatorNext, vars, worker
<1> QED
  BY <1>5, <1>6 DEF Next

(* The step moves at most one task, and not to RUNNING.                    *)
NoNewRunning ==
    \/ UNCHANGED status
    \/ \E t \in Task, target \in TaskStatus \ {"RUNNING"} :
          status' = [status EXCEPT ![t] = target]

(* A transition to a state other than RUNNING makes no task RUNNING.       *)
LEMMA RecordMoves ==
    ASSUME NEW t \in Task, NEW target \in TaskStatus \ {"RUNNING"},
           \/ Record(t, target) \/ Transition(t, target)
           \/ \E source : ApplyTransition(t, source, target)
    PROVE  NoNewRunning
BY DEF NoNewRunning, Record, Transition, ApplyTransition

(* _drive_task makes no task RUNNING (tracking.py _TERMINAL_TASK_TARGET).  *)
LEMMA DriveMoves ==
    ASSUME NEW t \in Task, NEW row, DriveTask(t, row)
    PROVE  NoNewRunning
<1>1. DriveTarget(t, row) \in TaskStatus \ {"RUNNING"}
  BY DEF DriveTarget, TaskStatus
<1> QED
  BY <1>1, RecordMoves DEF DriveTask, NoNewRunning

(* Of all steps only _advance_to_running can make a task RUNNING           *)
(* (dispatch.py).                                                          *)
LEMMA RunningOnlyAdvances ==
    ASSUME TypeOK, NotesDoNotRun, [Next]_vars
    PROVE  NoNewRunning \/ \E s \in Session : AdvanceToRunning(s)
<1> USE DEF TypeOK, StoreTypeOK, WorkerTypeOK, OperatorTypeOK
<1>0. {"READY", "CANCELLED", "DONE", "BLOCKED", "CLAIMED", "PR_OPEN",
       "WAITING_HUMAN", "CHANGES_REQUESTED", "VALIDATING"}
         \subseteq TaskStatus \ {"RUNNING"}
  BY DEF TaskStatus
<1>1. CASE WorkerNext
  <2>1. ASSUME NEW s \in Session, NEW t \in Task, Select(s, t)
        PROVE  NoNewRunning
    BY <2>1, <1>0, RecordMoves, DriveMoves
       DEF Select, Begin, CancelIneligible, RejectRouting, Resume, Reconcile,
           ReviewMerged, ReviewClosed, store, NoNewRunning
  <2>2. ASSUME NEW s \in Session, DispatchStep(s), ~ AdvanceToRunning(s)
        PROVE  NoNewRunning
    BY <2>2, <1>0, RecordMoves
       DEF DispatchStep, BuildContext, ContextFails, DispatchRefused, Claim,
           ClaimRefused, ProvisionFails, Launch, LaunchStillborn, LaunchRaises,
           Start, PersistRun, PersistRefused, AdvanceRefused, Unclaim, store,
           NoNewRunning
  <2>3. ASSUME NEW s \in Session, WriteNote(s) PROVE NoNewRunning
    <3>1. note[s].to \in TaskStatus \ {"RUNNING"}
      BY DEF Note, NotesDoNotRun
    <3> QED
      BY <2>3, <3>1 DEF WriteNote, UpdateRow, NoNewRunning
  <2>4. ASSUME NEW s \in Session, TrackingStep(s), ~ WriteNote(s)
        PROVE  NoNewRunning
    BY <2>4, <1>0, RecordMoves, DriveMoves
       DEF TrackingStep, Collect, CollectFails, ObserveTerminal, StoreRun,
           StoreRefused, Drive, PollTimeout, ActNotSuccessful, ActRequeue,
           ActBlock, ActNothing, ActDone, ActPublish, Block, BlockRefused, store,
           NoNewRunning
  <2>5. ASSUME NEW s \in Session, PublicationStep(s) PROVE NoNewRunning
    BY <2>5, <1>0, RecordMoves
       DEF PublicationStep, PublishRefused, SecurityBlocks, PublishFails,
           PublishExisting, PublishRevision, PublishNew, PersistPr, OpenPr,
           AwaitHuman, BlockFailedPublication, InPublish, store, NoNewRunning
  <2>6. ASSUME NEW s \in Session, Crash(s) PROVE NoNewRunning
    BY <2>6 DEF Crash, store, NoNewRunning
  <2>7. ASSUME NEW a \in Attempt, AgentStep(a) PROVE NoNewRunning
    BY <2>7 DEF AgentStep, AgentEnds, AgentExpires, store, NoNewRunning
  <2> QED
    BY <1>1, <2>1, <2>2, <2>3, <2>4, <2>5, <2>6, <2>7
       DEF WorkerNext, SessionStep
<1>2. CASE OperatorNext
  <2>1. ASSUME NEW o \in Operators, RetryStep(o) PROVE NoNewRunning
    BY <2>1, <1>0, RecordMoves, ZenonT(30)
       DEF RetryStep, RetryDecide, RetryUnclaim, RetryApply, store, NoNewRunning
  <2>2. ASSUME NEW t \in Task,
               \/ RequestRework(t) \/ OverrideSecurity(t) \/ AuthorizeOrphan(t)
               \/ \E kind : AuthorizeTerminal(t, kind)
        PROVE  NoNewRunning
    BY <2>2, <1>0, RecordMoves
       DEF RequestRework, OverrideSecurity, AuthorizeOrphan, AuthorizeTerminal
  <2> QED
    BY <1>2, <2>1, <2>2
       DEF OperatorNext, RecoverTimeout, RecoverWorkerFailure, RecoverOrphan
<1>3. CASE UNCHANGED vars
  BY <1>3 DEF vars, store, NoNewRunning
<1> QED
  BY <1>1, <1>2, <1>3 DEF Next

(* Every step preserves RunningIsBacked: the step into RUNNING comes from  *)
(* a session whose run row is saved, and rows are never removed.           *)
LEMMA BackedStep ==
    ASSUME TypeOK, RunsTracked, NotesDoNotRun, RowsKept, RunningIsBacked,
           [Next]_vars
    PROVE  RunningIsBacked'
<1> SUFFICES ASSUME NEW t \in Task, status'[t] = "RUNNING"
             PROVE  runs'[t] # << >>
  BY DEF RunningIsBacked, HasRun
<1>1. ASSUME DOMAIN runs[t] # {} PROVE runs'[t] # << >>
  BY <1>1 DEF RowsKept
<1>2. CASE status[t] = "RUNNING"
  <2>1. runs[t] \in Seq(Row) /\ runs[t] # << >>
    BY <1>2 DEF RunningIsBacked, HasRun, TypeOK, StoreTypeOK
  <2>2. 1 \in DOMAIN runs[t]
    BY <2>1
  <2> QED
    BY <1>1, <2>2
<1>3. ASSUME NEW s \in Session, AdvanceToRunning(s), status[t] # "RUNNING"
      PROVE  runs'[t] # << >>
  <2>1. t = task[s] /\ pc[s] = "advance"
    BY <1>3 DEF AdvanceToRunning, At, Transition, Record, TypeOK, StoreTypeOK
  <2>2. DOMAIN runs[t] # {}
    BY <2>1 DEF RunsTracked, RowOf
  <2> QED
    BY <1>1, <2>2
<1>4. CASE NoNewRunning /\ status[t] # "RUNNING"
  BY <1>4 DEF NoNewRunning, TypeOK, StoreTypeOK
<1> QED
  BY <1>2, <1>3, <1>4, RunningOnlyAdvances

-----------------------------------------------------------------------------
(* The inductive invariant: the two properties of interest, the types, and *)
(* the two facts that carry them from step to step.                        *)
IInv == /\ TypeOK
        /\ RunsTracked
        /\ NotesDoNotRun
        /\ RunningIsBacked
        /\ ActiveRunsIsolated

(* The empty factory satisfies the inductive invariant.                    *)
LEMMA InitIInv == Init => IInv
<1> SUFFICES ASSUME Init PROVE IInv
  OBVIOUS
<1> USE StoreAssumption, WorkerAssumption
    DEF Init, StoreInit, WorkerInit, OperatorInit
<1>1. StoreTypeOK
  BY DEF StoreTypeOK, TaskStatus, Reason, ReasonKind, AttemptOrNone
<1>2. WorkerTypeOK
  BY Blanks DEF WorkerTypeOK, EngineState, AttemptOrNone, Attempt, PC
<1>3. OperatorTypeOK
  BY DEF OperatorTypeOK
<1>4. RunsTracked
  BY DEF RunsTracked
<1>5. NotesDoNotRun
  BY DEF NotesDoNotRun, NoNote
<1>6. RunningIsBacked
  BY DEF RunningIsBacked
<1>7. ActiveRunsIsolated
  BY DEF ActiveRunsIsolated, ActiveRuns
<1> QED
  BY <1>1, <1>2, <1>3, <1>4, <1>5, <1>6, <1>7 DEF IInv, TypeOK

(* Every step of the factory, stuttering included, preserves the inductive *)
(* invariant.                                                              *)
LEMMA NextIInv == IInv /\ [Next]_vars => IInv'
<1> SUFFICES ASSUME IInv, [Next]_vars PROVE IInv'
  OBVIOUS
<1>1. TypeOK /\ StoreTypeOK /\ RunsTracked /\ NotesDoNotRun /\ RunningIsBacked
        /\ ActiveRunsIsolated
  BY DEF IInv, TypeOK
<1>2. RunsStep
  BY <1>1, NextRunsStep
<1>3. RowsKept
  BY <1>1, <1>2, RunsStepKeepsRows
<1> QED
  BY <1>1, <1>2, <1>3, TypeStep, TrackedStep, NotesStep, BackedStep,
     RunsStepIsolates DEF IInv

(* The inductive invariant holds in every reachable state of the factory.  *)
THEOREM Invariance == Spec => []IInv
BY InitIInv, NextIInv, PTL DEF Spec

(* The type invariant holds for any number of tasks, sessions, operators,  *)
(* attempts and faults: in particular refresh always finds the row it      *)
(* reads (tracking.py).                                                    *)
THEOREM TypeCorrect == Spec => []TypeOK
<1>1. IInv => TypeOK
  BY DEF IInv
<1> QED
  BY <1>1, Invariance, PTL

(* No task is ever RUNNING without a durable run behind it, for every      *)
(* value of the constants, with shared tasks and careless operators        *)
(* (dispatch.py _start_run, _advance_to_running).                          *)
THEOREM RunningBacked == Spec => []RunningIsBacked
<1>1. IInv => RunningIsBacked
  BY DEF IInv
<1> QED
  BY <1>1, Invariance, PTL

-----------------------------------------------------------------------------
(* Attempts and branches.  An attempt has one agent, one workspace and at  *)
(* most one row, and a pull request names a run and the workspace of that  *)
(* run.  Hence a branch never gets a second pull request on record.        *)

(* The agent of the row was started in the workspace of the row. *)
Started(row) == /\ row.id \in Attempt /\ engine[row.id].st # "none"
                /\ engine[row.id].ws = row.ws

Saving == {"save", "fail"}
InHand == Saving \union {"store", "drive", "act", "publish", "persist"}

WorkspacesKnown ==
    /\ \A t \in Task : \A i \in DOMAIN runs[t] : Started(runs[t][i])
    /\ \A t \in Task : \A pr \in prs[t] : Started([id |-> pr.run, ws |-> pr.ws])
    /\ \A s \in Session : pc[s] \in InHand => Started(job[s])

(* A run about to be saved has no row yet. *)
Unsaved(s) ==
    pc[s] \in Saving =>
        /\ \A t \in Task : \A i \in DOMAIN runs[t] : runs[t][i].id # job[s].id
        /\ \A r \in Session \ {s} : pc[r] \in Saving => job[r].id # job[s].id

IdsUnique ==
    \A t, u \in Task : \A i \in DOMAIN runs[t], j \in DOMAIN runs[u] :
        runs[t][i].id = runs[u][j].id => t = u /\ i = j

IdentInv == /\ WorkspacesKnown /\ IdsUnique /\ OnePrPerBranch
            /\ \A s \in Session : Unsaved(s)

(* The other sessions stay where they are, with all they have in hand. *)
Stay(s) == \A r \in Session \ {s} : /\ pc'[r] = pc[r] /\ task'[r] = task[r]
                                    /\ job'[r] = job[r] /\ note'[r] = note[r]

(* A session that gives its task up (the early returns). *)
LEMMA LeaveLocal ==
    ASSUME TypeOK, NEW s \in Session, Leave(s), UNCHANGED task
    PROVE  Stay(s) /\ pc'[s] = "idle" /\ task'[s] = task[s]
BY DEF TypeOK, WorkerTypeOK, Leave, Goto, Stay

(* A session that goes on with what it has in hand. *)
LEMMA GotoLocal ==
    ASSUME TypeOK, NEW s \in Session, NEW step, Goto(s, step), UNCHANGED <<task, job, note>>
    PROVE  /\ Stay(s) /\ pc'[s] = step /\ task'[s] = task[s]
           /\ job'[s] = job[s] /\ note'[s] = note[s]
BY DEF TypeOK, WorkerTypeOK, Goto, Stay

(* A session that goes on to block its task. *)
LEMMA BlockLaterLocal ==
    ASSUME TypeOK, NEW s \in Session, NEW kind, NEW run, BlockLater(s, kind, run),
           UNCHANGED <<task, job>>
    PROVE  /\ Stay(s) /\ pc'[s] = "block" /\ task'[s] = task[s] /\ job'[s] = job[s]
           /\ note'[s] = [to |-> "BLOCKED", why |-> [kind |-> kind, run |-> run]]
BY DEF TypeOK, WorkerTypeOK, BlockLater, Goto, Stay

SameRun(x, y) == x.id = y.id /\ x.ws = y.ws

(* What a session has in hand is what it had or a row it read. *)
HandAt(s) ==
    /\ pc'[s] \in Saving => pc[s] \in Saving /\ job'[s] = job[s]
    /\ pc'[s] \in InHand =>
          \/ pc[s] \in InHand /\ job'[s] = job[s]
          \/ \E t \in Task : \E i \in DOMAIN runs[t] : SameRun(job'[s], runs[t][i])

HandsKept == \A s \in Session : HandAt(s)

(* So it is for the sessions that stay. *)
LEMMA StayHands ==
    ASSUME NEW s \in Session, Stay(s), HandAt(s)
    PROVE  HandsKept
BY DEF Stay, HandAt, HandsKept, InHand, Saving

(* Refresh reads a row of the task. *)
LEMMA StoredRowIs ==
    ASSUME TypeOK, RunsTracked, NEW s \in Session, At(s, "poll")
    PROVE  \E i \in DOMAIN runs[task[s]] : runs[task[s]][i] = StoredRow(s)
                                        /\ runs[task[s]][i].id = job[s].id
<1>1. RowOf(task[s], job[s].id) # {}
  BY DEF RunsTracked, At
<1>2. (CHOOSE i \in RowOf(task[s], job[s].id) : TRUE) \in RowOf(task[s], job[s].id)
  BY <1>1
<1> QED
  BY <1>2 DEF StoredRow, RowOf

(* Selection takes no run in hand that is not on record. *)
LEMMA SelectHands ==
    ASSUME TypeOK, NEW s \in Session, NEW t \in Task, Select(s, t)
    PROVE  HandsKept
<1> USE DEF TypeOK, WorkerTypeOK
<1>1. CASE UNCHANGED <<pc, job>>
  BY <1>1 DEF HandsKept, HandAt, InHand, Saving
<1>2. ASSUME NEW step \in {"dispatch", "poll", "note", "block"}, Goto(s, step),
             \A r \in Session \ {s} : job'[r] = job[r]
      PROVE  HandsKept
  BY <1>2 DEF Goto, HandsKept, HandAt, InHand, Saving
<1>3. CASE Begin(s, t)
  BY <1>2, <1>3 DEF Begin, Take
<1>4. CASE RejectRouting(s, t)
  BY <1>2, <1>4 DEF RejectRouting, BlockLater
<1>5. CASE Resume(s, t)
  BY <1>2, <1>5 DEF Resume, Take
<1>6. CASE ReviewClosed(s, t)
  BY <1>2, <1>6 DEF ReviewClosed, Take
<1> QED
  BY <1>1, <1>3, <1>4, <1>5, <1>6 DEF Select, CancelIneligible, Reconcile, ReviewMerged

Launches(s, a) == Launch(s, a) \/ LaunchStillborn(s, a) \/ LaunchRaises(s, a)

(* A session that starts no agent takes only runs on record in hand.       *)
LEMMA SessionHands ==
    ASSUME TypeOK, RunsTracked, NEW s \in Session,
           SessionStep(s), ~ \E a \in Attempt : Launches(s, a)
    PROVE  HandsKept
<1> USE DEF TypeOK, WorkerTypeOK
<1>1. ASSUME Leave(s), UNCHANGED task PROVE HandsKept
  BY <1>1, LeaveLocal, StayHands DEF HandAt, InHand, Saving
<1>2. ASSUME NEW step, step \notin InHand, Goto(s, step), \A r \in Session \ {s} : job'[r] = job[r]
      PROVE  HandsKept
  BY <1>2 DEF Goto, HandsKept, HandAt, InHand, Saving
<1>3. ASSUME NEW step \in InHand \ Saving, Goto(s, step), UNCHANGED job, pc[s] \in InHand
      PROVE  HandsKept
  BY <1>3 DEF Goto, HandsKept, HandAt, InHand, Saving
<1>4. ASSUME NEW step \in InHand \ Saving, Goto(s, step), \A r \in Session \ {s} : job'[r] = job[r],
             At(s, "poll"), SameRun(job'[s], StoredRow(s))
      PROVE  HandsKept
  <2>1. \E u \in Task : \E i \in DOMAIN runs[u] : SameRun(job'[s], runs[u][i])
    BY <1>4, StoredRowIs
  <2> QED
    BY <1>4, <2>1 DEF Goto, HandsKept, HandAt, InHand, Saving
<1>5. CASE \/ DispatchRefused(s) \/ ClaimRefused(s) \/ ProvisionFails(s)
           \/ PersistRefused(s) \/ AdvanceRefused(s) \/ Unclaim(s)
           \/ CollectFails(s) \/ StoreRefused(s) \/ PollTimeout(s)
           \/ ActRequeue(s) \/ ActNothing(s) \/ ActDone(s)
           \/ BlockRefused(s) \/ WriteNote(s) \/ AwaitHuman(s)
  BY <1>1, <1>5
     DEF DispatchRefused, ClaimRefused, ProvisionFails, PersistRefused, AdvanceRefused,
         Unclaim, CollectFails, StoreRefused, PollTimeout, ActRequeue, ActNothing,
         ActDone, Concerns, BlockRefused, WriteNote, AwaitHuman
<1>6. CASE BuildContext(s)
  BY <1>2, <1>6 DEF BuildContext, InHand, Saving
<1>7. CASE ContextFails(s) \/ Claim(s) \/ PersistRun(s) \/ AdvanceToRunning(s)
           \/ Block(s) \/ OpenPr(s)
  BY <1>2, <1>7
     DEF ContextFails, Claim, PersistRun, AdvanceToRunning, Block, OpenPr, InHand, Saving
<1>8. CASE Collect(s)
  <2>1. PICK verdict \in Gates : job' = [job EXCEPT ![s] =
           [StoredRow(s) EXCEPT !.status = Collected(StoredRow(s).id), !.gates = verdict]]
    <3>1. StoredRow(s) \in Row
      BY <1>8, StoredRowType DEF Collect
    <3> QED
      BY <1>8, <3>1 DEF Collect, Gates, Row
  <2>2. job'[s] = [StoredRow(s) EXCEPT !.status = Collected(StoredRow(s).id), !.gates = verdict]
        /\ \A r \in Session \ {s} : job'[r] = job[r]
    BY <2>1
  <2>3. StoredRow(s) \in Row /\ At(s, "poll") /\ Goto(s, "store")
    BY <1>8, StoredRowType DEF Collect
  <2>4. SameRun(job'[s], StoredRow(s))
    BY <2>2, <2>3 DEF SameRun, Row
  <2> QED
    BY <1>4, <2>2, <2>3, <2>4 DEF InHand, Saving
<1>9. CASE ObserveTerminal(s)
  <2>1. job'[s] = StoredRow(s) /\ At(s, "poll") /\ \A r \in Session \ {s} : job'[r] = job[r]
    BY <1>9 DEF ObserveTerminal
  <2>2. PICK step \in {"drive", "act"} : Goto(s, step)
    BY <1>9 DEF ObserveTerminal
  <2> QED
    BY <1>4, <2>1, <2>2 DEF SameRun, InHand, Saving
<1>10. CASE StoreRun(s)
  BY <1>3, <1>10 DEF StoreRun, At, InHand, Saving
<1>11. CASE Drive(s)
  <2>1. CASE IsTerminal(job[s])
    BY <1>3, <1>11, <2>1 DEF Drive, At, InHand, Saving
  <2>2. CASE ~ IsTerminal(job[s])
    BY <1>2, <1>11, <2>2 DEF Drive, InHand, Saving
  <2> QED
    BY <2>1, <2>2
<1>12. CASE ActNotSuccessful(s) \/ ActBlock(s)
  <2>1. UNCHANGED task /\ (Leave(s) \/ ((\E step \in {"note", "block"} : Goto(s, step)) /\ UNCHANGED job))
    BY <1>12 DEF ActNotSuccessful, ActBlock, BlockLater, Concerns
  <2> QED
    BY <1>1, <1>2, <2>1 DEF InHand, Saving
<1>13. CASE ActPublish(s)
  BY <1>3, <1>13 DEF ActPublish, Concerns, At, InHand, Saving
<1>14. CASE BlockFailedPublication(s)
  <2>1. UNCHANGED task /\ (Leave(s) \/ (Goto(s, "block") /\ UNCHANGED job))
    BY <1>14 DEF BlockFailedPublication, BlockLater
  <2> QED
    BY <1>1, <1>2, <2>1 DEF InHand, Saving
<1>15. CASE PublicationStep(s) /\ ~ AwaitHuman(s) /\ ~ BlockFailedPublication(s)
  <2>1. PICK step \in {"pubfail", "block", "open", "await", "persist"} :
           Goto(s, step) /\ (step = "persist" => pc[s] = "publish")
    BY <1>15 DEF PublicationStep, PublishRefused, SecurityBlocks, BlockLater,
                PublishFails, PublishExisting, PublishRevision, PublishNew,
                PersistPr, OpenPr, InPublish, At
  <2>2. UNCHANGED job
    BY <1>15 DEF PublicationStep, PublishRefused, SecurityBlocks, PublishFails,
                PublishExisting, PublishRevision, PublishNew, PersistPr, OpenPr,
                InPublish
  <2> QED
    BY <1>2, <1>3, <2>1, <2>2 DEF InHand, Saving
<1> QED
  BY <1>5, <1>6, <1>7, <1>8, <1>9, <1>10, <1>11, <1>12, <1>13, <1>14, <1>15
     DEF SessionStep, DispatchStep, TrackingStep, Launches

(* Only a start puts a run in hand that is not on record.                  *)
LEMMA NextHands ==
    ASSUME TypeOK, RunsTracked, [Next]_vars
    PROVE  HandsKept \/ \E s \in Session, a \in Attempt : Launches(s, a)
<1>1. ASSUME UNCHANGED <<pc, job>> PROVE HandsKept
  BY <1>1 DEF HandsKept, HandAt, InHand, Saving
<1>2. ASSUME NEW s \in Session, Crash(s) PROVE HandsKept
  BY <1>2, LeaveLocal, StayHands DEF Crash, HandAt, InHand, Saving
<1>3. ASSUME NEW a \in Attempt, AgentStep(a) PROVE HandsKept
  BY <1>1, <1>3 DEF AgentStep, AgentEnds, AgentExpires
<1> QED
  BY <1>1, <1>2, <1>3, SelectHands, SessionHands
     DEF Next, WorkerNext, OperatorNext, vars, worker

(* A started agent stays in its workspace, and is never not started again. *)
EnginesKept ==
    \A a \in Attempt : engine[a].st # "none" =>
        engine'[a].st # "none" /\ engine'[a].ws = engine[a].ws

(* A session that starts no agent leaves the agents alone.                 *)
LEMMA EngineFrame ==
    ASSUME NEW s \in Session,
           \/ \E t \in Task : Select(s, t)
           \/ SessionStep(s) /\ ~ \E a \in Attempt : Launches(s, a)
           \/ Crash(s)
    PROVE  UNCHANGED engine
<1>1. ASSUME NEW t \in Task, Select(s, t) PROVE UNCHANGED engine
  BY <1>1 DEF Select, Begin, CancelIneligible, RejectRouting, Resume, Reconcile,
              ReviewMerged, ReviewClosed
<1>2. ASSUME SessionStep(s), ~ \E a \in Attempt : Launches(s, a)
      PROVE  UNCHANGED engine
  <2>1. CASE DispatchStep(s)
    BY <1>2, <2>1
       DEF DispatchStep, Launches, BuildContext, ContextFails, DispatchRefused, Claim,
           ClaimRefused, ProvisionFails, PersistRun, PersistRefused, AdvanceToRunning,
           AdvanceRefused, Unclaim
  <2>2. CASE TrackingStep(s)
    BY <2>2
       DEF TrackingStep, Collect, CollectFails, ObserveTerminal, StoreRun, StoreRefused,
           Drive, PollTimeout, ActNotSuccessful, ActRequeue, ActBlock, ActNothing,
           ActDone, ActPublish, Concerns, Block, BlockRefused, WriteNote
  <2>3. CASE PublicationStep(s)
    BY <2>3
       DEF PublicationStep, PublishRefused, SecurityBlocks, PublishFails, PublishExisting,
           PublishRevision, PublishNew, PersistPr, OpenPr, AwaitHuman,
           BlockFailedPublication, InPublish
  <2> QED
    BY <1>2, <2>1, <2>2, <2>3 DEF SessionStep
<1>3. CASE Crash(s)
  BY <1>3 DEF Crash
<1> QED
  BY <1>1, <1>2, <1>3

(* So it is whatever the factory does (codex.py start, worker processes).  *)
LEMMA NextEngines ==
    ASSUME TypeOK, [Next]_vars
    PROVE  EnginesKept
<1> USE DEF TypeOK, WorkerTypeOK
<1>1. CASE UNCHANGED engine
  BY <1>1 DEF EnginesKept
<1>2. ASSUME NEW s \in Session, NEW a \in Attempt, Launches(s, a) PROVE EnginesKept
  <2>1. engine[a].st = "none" /\ \A b \in Attempt \ {a} : engine'[b] = engine[b]
    BY <1>2 DEF Launches, Launch, LaunchStillborn, LaunchRaises, Start, NextAttempt
  <2> QED
    BY <2>1 DEF EnginesKept
<1>3. ASSUME NEW a \in Attempt, AgentStep(a) PROVE EnginesKept
  <2>1. PICK st \in EngineState \ {"none"} : engine' = [engine EXCEPT ![a].st = st]
    BY <1>3 DEF AgentStep, AgentEnds, AgentExpires, EngineState
  <2>2. engine'[a].st = st /\ engine'[a].ws = engine[a].ws
        /\ \A b \in Attempt \ {a} : engine'[b] = engine[b]
    BY <2>1
  <2> QED
    BY <2>2 DEF EnginesKept
<1> QED
  BY <1>1, <1>2, <1>3, EngineFrame DEF Next, WorkerNext, OperatorNext, vars, worker

(* The pull request a session is about to record.                          *)
PrOf(s) == [ws |-> job[s].ws, run |-> job[s].id]

(* The writes that may reach pull_requests: an insert that finds no row of *)
(* another run for the branch, or the revision of the row of the branch.   *)
PrsStep ==
    \/ UNCHANGED prs
    \/ \E s \in Session :
          /\ pc[s] = "persist" /\ ~ UnderReview(s)
          /\ prs' = [prs EXCEPT ![task[s]] = @ \union {PrOf(s)}]
    \/ \E s \in Session :
          /\ pc[s] = "publish"
          /\ prs' = [prs EXCEPT ![task[s]] =
                       {pr \in @ : pr.ws # job[s].ws} \union {PrOf(s)}]

(* So it is whatever the factory does (publication.py publish, _persist).  *)
LEMMA NextPrs ==
    ASSUME TypeOK, [Next]_vars
    PROVE  PrsStep
<1>1. CASE UNCHANGED prs
  BY <1>1 DEF PrsStep
<1>2. ASSUME NEW s \in Session, PublicationStep(s) PROVE PrsStep
  <2>1. CASE PersistPr(s)
    BY <1>1, <2>1 DEF PersistPr, At, PrsStep, PrOf
  <2>2. CASE PublishRevision(s)
    BY <2>2 DEF PublishRevision, InPublish, At, PrsStep, PrOf
  <2>3. CASE PublicationStep(s) /\ ~ PersistPr(s) /\ ~ PublishRevision(s)
    BY <1>1, <2>3
       DEF PublicationStep, PublishRefused, SecurityBlocks, PublishFails, PublishExisting,
           PublishNew, OpenPr, AwaitHuman, BlockFailedPublication, store
  <2> QED
    BY <1>2, <2>1, <2>2, <2>3
<1>3. ASSUME NEW s \in Session, NEW t \in Task, Select(s, t) PROVE UNCHANGED prs
  BY <1>3 DEF Select, Begin, CancelIneligible, RejectRouting, Resume, Reconcile,
              ReviewMerged, ReviewClosed, store
<1>4. ASSUME NEW s \in Session, DispatchStep(s) PROVE UNCHANGED prs
  BY <1>4
     DEF DispatchStep, Launch, LaunchStillborn, LaunchRaises, Start, BuildContext,
         ContextFails, DispatchRefused, Claim, ClaimRefused, ProvisionFails, PersistRun,
         PersistRefused, AdvanceToRunning, AdvanceRefused, Unclaim, store
<1>5. ASSUME NEW s \in Session, TrackingStep(s) PROVE UNCHANGED prs
  BY <1>5
     DEF TrackingStep, Collect, CollectFails, ObserveTerminal, StoreRun, StoreRefused,
         Drive, PollTimeout, ActNotSuccessful, ActRequeue, ActBlock, ActNothing,
         ActDone, ActPublish, Concerns, Block, BlockRefused, WriteNote, store
<1>6. ASSUME NEW s \in Session, Crash(s) PROVE UNCHANGED prs
  BY <1>6 DEF Crash, store
<1>7. ASSUME NEW a \in Attempt, AgentStep(a) PROVE UNCHANGED prs
  BY <1>7 DEF AgentStep, AgentEnds, AgentExpires, store
<1>8. CASE OperatorNext
  BY <1>1, <1>8
     DEF OperatorNext, RetryStep, RetryDecide, RetryUnclaim, RetryApply, RequestRework,
         OverrideSecurity, RecoverTimeout, RecoverWorkerFailure, AuthorizeTerminal,
         RecoverOrphan, AuthorizeOrphan, store
<1> QED
  BY <1>1, <1>2, <1>3, <1>4, <1>5, <1>6, <1>7, <1>8
     DEF Next, WorkerNext, SessionStep, vars, store

(* The rows are the same, but for what was learnt about them.              *)
RowsSame ==
    \A t \in Task : /\ DOMAIN runs'[t] = DOMAIN runs[t]
                    /\ \A i \in DOMAIN runs[t] : SameRun(runs'[t][i], runs[t][i])

(* A write to agent_runs other than save_run keeps ids and workspaces      *)
(* (run_sqlite.py update_run).                                             *)
LEMMA RunsStepSame ==
    ASSUME TypeOK, RunsStep, ~ \E s \in Session : PersistRun(s)
    PROVE  RowsSame
<1>1. CASE UNCHANGED runs
  BY <1>1 DEF RowsSame, SameRun
<1>2. ASSUME NEW t \in Task, NEW row \in Row, NEW i \in DOMAIN runs[t],
             UpdateRun(t, i, row)
      PROVE  RowsSame
  <2>1. runs[t][i] \in Row /\ runs \in [Task -> Seq(Row)]
    BY DEF TypeOK, StoreTypeOK
  <2>2. SameRun(Updated(t, i, row), runs[t][i])
    BY <2>1 DEF SameRun, Updated, Row
  <2>3. /\ runs'[t][i] = Updated(t, i, row)
        /\ DOMAIN runs'[t] = DOMAIN runs[t]
        /\ \A j \in DOMAIN runs[t] : j # i => runs'[t][j] = runs[t][j]
        /\ \A u \in Task : u # t => runs'[u] = runs[u]
    BY <1>2, <2>1 DEF UpdateRun
  <2> QED
    BY <2>2, <2>3 DEF RowsSame, SameRun
<1> QED
  BY <1>1, <1>2 DEF RunsStep

(* What a saved row is to agent_runs: one more row, the run in hand.       *)
LEMMA SavedRow ==
    ASSUME TypeOK, NEW s \in Session, PersistRun(s)
    PROVE  LET n == Len(runs[task[s]]) + 1 IN
           /\ pc[s] \in Saving /\ Stay(s) /\ pc'[s] \in {"advance", "unclaim"}
           /\ UNCHANGED <<status, reason, hist, rework, prs, engine, task, job, note>>
           /\ n \notin DOMAIN runs[task[s]]
           /\ DOMAIN runs'[task[s]] = DOMAIN runs[task[s]] \union {n}
           /\ runs'[task[s]][n] = job[s]
           /\ \A i \in DOMAIN runs[task[s]] : runs'[task[s]][i] = runs[task[s]][i]
           /\ \A u \in Task \ {task[s]} : runs'[u] = runs[u]
<1> USE DEF TypeOK, StoreTypeOK, WorkerTypeOK
<1>1. /\ pc[s] \in Saving /\ Stay(s) /\ pc'[s] \in {"advance", "unclaim"}
      /\ UNCHANGED <<status, reason, hist, rework, prs, engine, task, job, note>>
  BY DEF PersistRun, At, Goto, Stay, Saving
<1>2. runs' = [runs EXCEPT ![task[s]] = Append(runs[task[s]], job[s])]
  BY DEF PersistRun, SaveRun
<1>3. runs[task[s]] \in Seq(Row) /\ task[s] \in Task
  OBVIOUS
<1> QED
  BY <1>1, <1>2, <1>3

(* What a start is: an unused attempt gets an agent, its run is in hand.   *)
LEMMA LaunchedRun ==
    ASSUME TypeOK, NEW s \in Session, NEW a \in Attempt, Launches(s, a)
    PROVE  /\ Stay(s) /\ UNCHANGED <<store, task, note>> /\ pc[s] = "launch"
           /\ engine[a].st = "none" /\ pc'[s] \in Saving
           /\ job'[s].id = a /\ engine'[a].st # "none" /\ engine'[a].ws = job'[s].ws
           /\ \A b \in Attempt \ {a} : engine'[b] = engine[b]
           /\ (pc'[s] = "fail" => job'[s].status = "FAILED") /\ job'[s].status # "SUCCEEDED"
<1> USE DEF TypeOK, WorkerTypeOK
<1>1. PICK st \in EngineState \ {"none"}, row \in RunStatus, step \in Saving :
         Start(s, a, st, row, step) /\ (step = "fail" => row = "FAILED") /\ row # "SUCCEEDED"
  BY DEF Launches, Launch, LaunchStillborn, LaunchRaises, EngineState, RunStatus, Saving
<1> DEFINE ws == IF job[s].ws = 0 THEN a ELSE job[s].ws
<1>2. /\ job'[s] = [id |-> a, ws |-> ws, status |-> row, gates |-> "none"]
      /\ engine'[a] = [st |-> st, ws |-> ws] /\ engine[a].st = "none"
      /\ \A b \in Attempt \ {a} : engine'[b] = engine[b]
  BY <1>1 DEF Start, NextAttempt
<1>3. Stay(s) /\ UNCHANGED <<store, task, note>> /\ pc[s] = "launch" /\ pc'[s] = step
  BY <1>1 DEF Start, Goto, At, Stay
<1> HIDE DEF ws
<1> QED
  BY <1>1, <1>2, <1>3

(* Started, after the step. *)
StartedThen(id, ws) ==
    id \in Attempt /\ engine'[id].st # "none" /\ engine'[id].ws = ws

(* Every row, every pull request and every run in hand keeps naming an     *)
(* agent and the workspace this agent was started in.                      *)
LEMMA WorkspacesStep ==
    ASSUME TypeOK, RunsTracked, WorkspacesKnown, [Next]_vars
    PROVE  WorkspacesKnown'
<1>1. EnginesKept /\ PrsStep /\ RunsStep
  BY NextEngines, NextPrs, NextRunsStep
<1>2. ASSUME NEW id, NEW ws, Started([id |-> id, ws |-> ws])
      PROVE  StartedThen(id, ws)
  BY <1>1, <1>2 DEF Started, StartedThen, EnginesKept
<1>3. \A t \in Task : \A i \in DOMAIN runs'[t] :
         StartedThen(runs'[t][i].id, runs'[t][i].ws)
  <2> SUFFICES ASSUME NEW t \in Task, NEW i \in DOMAIN runs'[t]
               PROVE  StartedThen(runs'[t][i].id, runs'[t][i].ws)
    OBVIOUS
  <2>1. ASSUME NEW s \in Session, PersistRun(s)
        PROVE  StartedThen(runs'[t][i].id, runs'[t][i].ws)
    <3>1. CASE t = task[s] /\ i = Len(runs[t]) + 1
      BY <1>2, <2>1, <3>1, SavedRow DEF WorkspacesKnown, Started, InHand
    <3>2. CASE i \in DOMAIN runs[t] /\ runs'[t][i] = runs[t][i]
      BY <1>2, <3>2 DEF WorkspacesKnown, Started
    <3> QED
      BY <2>1, <3>1, <3>2, SavedRow
  <2>2. CASE RowsSame
    BY <1>2, <2>2 DEF RowsSame, SameRun, WorkspacesKnown, Started
  <2> QED
    BY <1>1, <2>1, <2>2, RunsStepSame
<1>4. ASSUME NEW s \in Session, pc'[s] \in InHand
      PROVE  StartedThen(job'[s].id, job'[s].ws)
  <2>1. CASE HandsKept
    BY <1>2, <1>4, <2>1 DEF HandsKept, HandAt, SameRun, WorkspacesKnown, Started
  <2>2. ASSUME NEW r \in Session, NEW a \in Attempt, Launches(r, a)
        PROVE  StartedThen(job'[s].id, job'[s].ws)
    <3>1. CASE r = s
      BY <2>2, <3>1, LaunchedRun DEF StartedThen
    <3>2. CASE r # s
      BY <1>2, <1>4, <2>2, <3>2, LaunchedRun DEF Stay, WorkspacesKnown, Started
    <3> QED
      BY <3>1, <3>2
  <2> QED
    BY <2>1, <2>2, NextHands
<1>5. ASSUME NEW t \in Task, NEW pr \in prs'[t] PROVE StartedThen(pr.run, pr.ws)
  <2>1. CASE pr \in prs[t]
    BY <1>2, <2>1 DEF WorkspacesKnown
  <2>2. ASSUME NEW s \in Session, pc[s] \in InHand, pr = PrOf(s)
        PROVE  StartedThen(pr.run, pr.ws)
    BY <1>2, <2>2 DEF WorkspacesKnown, Started, PrOf
  <2> QED
    BY <1>1, <2>1, <2>2 DEF PrsStep, TypeOK, StoreTypeOK, InHand
<1> QED
  BY <1>3, <1>4, <1>5 DEF WorkspacesKnown, Started, StartedThen

(* No write gives a branch a second pull request: an insert finds no row   *)
(* of the branch, or the row of this very run, whose branch is the same.   *)
LEMMA OnePrStep ==
    ASSUME TypeOK, WorkspacesKnown, OnePrPerBranch, [Next]_vars
    PROVE  OnePrPerBranch'
<1> USE DEF TypeOK, StoreTypeOK, WorkerTypeOK
<1>1. PrsStep
  BY NextPrs
<1>2. CASE UNCHANGED prs
  BY <1>2 DEF OnePrPerBranch
<1>3. ASSUME NEW s \in Session, pc[s] = "persist", ~ UnderReview(s),
             prs' = [prs EXCEPT ![task[s]] = @ \union {PrOf(s)}]
      PROVE  OnePrPerBranch'
  <2>1. ASSUME NEW pr \in prs[task[s]], pr.ws = job[s].ws PROVE pr = PrOf(s)
    <3>1. PICK own \in prs[task[s]] : own.run = job[s].id
      BY <1>3, <2>1 DEF UnderReview, Published, PrForRun, PrForBranch
    <3>2. Started([id |-> own.run, ws |-> own.ws]) /\ Started(job[s])
      BY <1>3 DEF WorkspacesKnown, InHand
    <3>3. own.ws = job[s].ws
      BY <3>1, <3>2 DEF Started
    <3>4. own = pr
      BY <2>1, <3>3 DEF OnePrPerBranch
    <3>5. own \in [ws : AttemptOrNone, run : AttemptOrNone]
      OBVIOUS
    <3> QED
      BY <3>1, <3>3, <3>4, <3>5 DEF PrOf
  <2>2. \A u \in Task : u # task[s] => prs'[u] = prs[u]
    BY <1>3
  <2>3. prs'[task[s]] = prs[task[s]] \union {PrOf(s)} /\ PrOf(s).ws = job[s].ws
    BY <1>3 DEF PrOf
  <2>4. ASSUME NEW u \in Task, NEW p \in prs'[u], NEW q \in prs'[u], p.ws = q.ws PROVE p = q
    <3>1. CASE u # task[s]
      BY <2>2, <2>4, <3>1 DEF OnePrPerBranch
    <3>2. CASE u = task[s]
      BY <2>1, <2>3, <2>4, <3>2 DEF OnePrPerBranch
    <3> QED
      BY <3>1, <3>2
  <2> QED
    BY <2>4 DEF OnePrPerBranch
<1>4. ASSUME NEW s \in Session,
             prs' = [prs EXCEPT ![task[s]] =
                       {pr \in @ : pr.ws # job[s].ws} \union {PrOf(s)}]
      PROVE  OnePrPerBranch'
  <2>1. \A u \in Task : u # task[s] => prs'[u] = prs[u]
    BY <1>4
  <2>2. prs'[task[s]] = {pr \in prs[task[s]] : pr.ws # job[s].ws} \union {PrOf(s)}
        /\ PrOf(s).ws = job[s].ws
    BY <1>4 DEF PrOf
  <2>3. ASSUME NEW u \in Task, NEW p \in prs'[u], NEW q \in prs'[u], p.ws = q.ws PROVE p = q
    <3>1. CASE u # task[s]
      BY <2>1, <2>3, <3>1 DEF OnePrPerBranch
    <3>2. CASE u = task[s]
      BY <2>2, <2>3, <3>2 DEF OnePrPerBranch
    <3> QED
      BY <3>1, <3>2
  <2> QED
    BY <2>3 DEF OnePrPerBranch
<1> QED
  BY <1>1, <1>2, <1>3, <1>4 DEF PrsStep

(* A run about to be saved stays without a row, and saving keeps ids       *)
(* unique: the id of an attempt is used once.                              *)
LEMMA IdsStep ==
    ASSUME TypeOK, RunsTracked, WorkspacesKnown, IdsUnique,
           \A s \in Session : Unsaved(s), [Next]_vars
    PROVE  IdsUnique' /\ \A s \in Session : Unsaved(s)'
<1> USE DEF TypeOK, StoreTypeOK, WorkerTypeOK
<1>1. ASSUME NEW s \in Session, PersistRun(s)
      PROVE  IdsUnique' /\ \A r \in Session : Unsaved(r)'
  <2> DEFINE n == Len(runs[task[s]]) + 1
  <2>1. /\ pc[s] \in Saving /\ Stay(s) /\ pc'[s] \in {"advance", "unclaim"}
        /\ n \notin DOMAIN runs[task[s]] /\ UNCHANGED job
        /\ DOMAIN runs'[task[s]] = DOMAIN runs[task[s]] \union {n}
        /\ runs'[task[s]][n] = job[s]
        /\ \A i \in DOMAIN runs[task[s]] : runs'[task[s]][i] = runs[task[s]][i]
        /\ \A u \in Task \ {task[s]} : runs'[u] = runs[u]
    BY <1>1, SavedRow
  <2>2. \A t \in Task : \A i \in DOMAIN runs[t] : runs[t][i].id # job[s].id
    BY <2>1 DEF Unsaved
  <2>3. \A r \in Session \ {s} : pc[r] \in Saving => job[r].id # job[s].id
    BY <2>1 DEF Unsaved
  <2> HIDE DEF n
  <2>4. ASSUME NEW t \in Task, NEW i \in DOMAIN runs'[t]
        PROVE  \/ t = task[s] /\ i = n /\ runs'[t][i].id = job[s].id
               \/ i \in DOMAIN runs[t] /\ runs'[t][i].id = runs[t][i].id
    BY <2>1, <2>4
  <2>5. IdsUnique'
    <3> SUFFICES ASSUME NEW t \in Task, NEW u \in Task,
                        NEW i \in DOMAIN runs'[t], NEW j \in DOMAIN runs'[u],
                        runs'[t][i].id = runs'[u][j].id
                 PROVE  t = u /\ i = j
      BY DEF IdsUnique
    <3>1. \/ t = task[s] /\ i = n /\ runs'[t][i].id = job[s].id
          \/ i \in DOMAIN runs[t] /\ runs'[t][i].id = runs[t][i].id
      BY <2>4
    <3>2. \/ u = task[s] /\ j = n /\ runs'[u][j].id = job[s].id
          \/ j \in DOMAIN runs[u] /\ runs'[u][j].id = runs[u][j].id
      BY <2>4
    <3> QED
      BY <2>2, <3>1, <3>2 DEF IdsUnique
  <2>6. ASSUME NEW r \in Session, pc'[r] \in Saving
        PROVE  /\ \A t \in Task : \A i \in DOMAIN runs'[t] : runs'[t][i].id # job'[r].id
               /\ \A q \in Session \ {r} : pc'[q] \in Saving => job'[q].id # job'[r].id
    <3>1. r # s /\ pc[r] \in Saving /\ job'[r] = job[r] /\ job[r].id # job[s].id
      BY <2>1, <2>3, <2>6 DEF Stay, Saving
    <3>2. \A t \in Task : \A i \in DOMAIN runs[t] : runs[t][i].id # job[r].id
      BY <3>1 DEF Unsaved
    <3>3. \A t \in Task : \A i \in DOMAIN runs'[t] : runs'[t][i].id # job'[r].id
      BY <2>4, <3>1, <3>2
    <3>4. \A q \in Session \ {r} : pc'[q] \in Saving => job'[q].id # job'[r].id
      BY <2>1, <3>1 DEF Unsaved, Stay, Saving
    <3> QED
      BY <3>3, <3>4
  <2> QED
    BY <2>5, <2>6 DEF Unsaved
<1>2. ASSUME RowsSame PROVE IdsUnique'
  BY <1>2 DEF RowsSame, SameRun, IdsUnique
<1>3. ASSUME RowsSame, HandsKept PROVE \A s \in Session : Unsaved(s)'
  BY <1>3 DEF RowsSame, SameRun, HandsKept, HandAt, Unsaved
<1>4. ASSUME NEW s \in Session, NEW a \in Attempt, Launches(s, a)
      PROVE  IdsUnique' /\ \A r \in Session : Unsaved(r)'
  <2>1. /\ Stay(s) /\ UNCHANGED runs /\ engine[a].st = "none" /\ job'[s].id = a
    BY <1>4, LaunchedRun DEF store
  <2>2. \A t \in Task : \A i \in DOMAIN runs[t] : runs[t][i].id # a
    BY <2>1 DEF WorkspacesKnown, Started
  <2>3. \A r \in Session : pc[r] \in Saving => job[r].id # a
    BY <2>1 DEF WorkspacesKnown, Started, InHand
  <2>4. IdsUnique'
    BY <2>1 DEF IdsUnique
  <2>5. ASSUME NEW r \in Session, pc'[r] \in Saving
        PROVE  /\ \A t \in Task : \A i \in DOMAIN runs[t] : runs[t][i].id # job'[r].id
               /\ \A q \in Session \ {r} : pc'[q] \in Saving => job'[q].id # job'[r].id
    <3>1. CASE r = s
      BY <2>1, <2>2, <2>3, <3>1 DEF Stay
    <3>2. CASE r # s
      <4>1. pc[r] \in Saving /\ job'[r] = job[r] /\ job[r].id # a
        BY <2>1, <2>3, <2>5, <3>2 DEF Stay
      <4>2. \A t \in Task : \A i \in DOMAIN runs[t] : runs[t][i].id # job[r].id
        BY <4>1 DEF Unsaved
      <4>3. \A q \in Session \ {r} : pc'[q] \in Saving => job'[q].id # job'[r].id
        <5>1. \A q \in Session \ {r} : pc[q] \in Saving => job[q].id # job[r].id
          BY <4>1 DEF Unsaved
        <5>2. \A q \in Session \ {s} : pc'[q] = pc[q] /\ job'[q] = job[q]
          BY <2>1 DEF Stay
        <5> QED
          BY <2>1, <4>1, <5>1, <5>2
      <4> QED
        BY <4>1, <4>2, <4>3
    <3> QED
      BY <3>1, <3>2
  <2> QED
    BY <2>1, <2>4, <2>5 DEF Unsaved
<1> QED
  BY <1>1, <1>2, <1>3, <1>4, NextHands, NextRunsStep, RunsStepSame

(* IdentInv holds at the start and is kept by every step.                  *)
LEMMA IdentInvariance == Spec => []IdentInv
<1>1. Init => IdentInv
  BY DEF Init, StoreInit, WorkerInit, IdentInv, WorkspacesKnown, IdsUnique, OnePrPerBranch,
         Unsaved, InHand, Saving
<1>2. IInv /\ IdentInv /\ [Next]_vars => IdentInv'
  BY WorkspacesStep, OnePrStep, IdsStep DEF IInv, IdentInv
<1> QED
  BY <1>1, <1>2, Invariance, PTL DEF Spec

(* A branch has at most one pull request on record, however sessions,      *)
(* retries and crashes interleave, with shared tasks and careless          *)
(* operators (publication.py _persist, _rework_pull_request).              *)
THEOREM OnePrProved == Spec => []OnePrPerBranch
<1>1. IdentInv => OnePrPerBranch
  BY DEF IdentInv
<1> QED
  BY <1>1, IdentInvariance, PTL

-----------------------------------------------------------------------------
(* Agents at work and their rows.  A row ends only after its agent did, so *)
(* an agent at work that is on record holds its place in the indexes.      *)

DeadOf(row) == IsTerminal(row) => engine[row.id].st # "RUNNING"

RowsTrue == \A t \in Task : \A i \in DOMAIN runs[t] : DeadOf(runs[t][i])

(* A run about to be stored, whether it was just started or collected. *)
ToStore == Saving \union {"store"}

HandsTrue == \A s \in Session : pc[s] \in ToStore => DeadOf(job[s])

(* An agent that was started and is not at work never is again. *)
NoneRevived ==
    \A a \in Attempt :
        engine[a].st \notin {"none", "RUNNING"} => engine'[a].st # "RUNNING"

(* Agents end once (codex.py, openhands.py; tracking reads what they       *)
(* left).                                                                  *)
LEMMA EnginesEndOnce == TypeOK /\ [Next]_vars => NoneRevived
<1> SUFFICES ASSUME TypeOK, [Next]_vars PROVE NoneRevived
  OBVIOUS
<1> USE DEF TypeOK, WorkerTypeOK
<1>1. CASE UNCHANGED engine
  BY <1>1 DEF NoneRevived
<1>2. ASSUME NEW s \in Session, NEW a \in Attempt, Launches(s, a)
      PROVE  NoneRevived
  BY <1>2, LaunchedRun DEF NoneRevived
<1>3. ASSUME NEW a \in Attempt, AgentStep(a) PROVE NoneRevived
  <2>1. PICK st \in EngineState \ {"RUNNING"} :
           engine' = [engine EXCEPT ![a].st = st]
    BY <1>3 DEF AgentStep, AgentEnds, AgentExpires, EngineState
  <2>2. engine'[a].st = st /\ \A b \in Attempt \ {a} : engine'[b] = engine[b]
    BY <2>1
  <2> QED
    BY <2>2 DEF NoneRevived
<1> QED
  BY <1>1, <1>2, <1>3, EngineFrame
     DEF Next, WorkerNext, OperatorNext, vars, worker

(* What was true of a row whose agent was started stays true of it.        *)
LEMMA DeadStays ==
    ASSUME NoneRevived, NEW row, DeadOf(row), Started(row)
    PROVE  IsTerminal(row) => engine'[row.id].st # "RUNNING"
BY DEF NoneRevived, DeadOf, Started

(* The run a start hands over is active, or its agent never came to work   *)
(* (dispatch.py _start_run).                                               *)
LEMMA LaunchedTrue ==
    ASSUME TypeOK, NEW s \in Session, NEW a \in Attempt, Launches(s, a)
    PROVE  IsTerminal(job'[s]) => engine'[job'[s].id].st # "RUNNING"
<1> USE DEF TypeOK, WorkerTypeOK
<1>1. PICK st \in EngineState, row \in RunStatus, step \in Saving :
         Start(s, a, st, row, step) /\ (row # "RUNNING" => st # "RUNNING")
  BY DEF Launches, Launch, LaunchStillborn, LaunchRaises, EngineState,
         RunStatus, Saving
<1>2. /\ job'[s].id = a /\ job'[s].status = row
      /\ engine'[a].st = st
  BY <1>1 DEF Start
<1> QED
  BY <1>1, <1>2 DEF IsTerminal

(* Only refresh takes a result in hand, and a result is terminal only when *)
(* the agent no longer works (tracking.py _observe).                       *)
LEMMA CollectedTrue ==
    ASSUME TypeOK, RunsTracked, WorkspacesKnown, NEW s \in Session, Collect(s)
    PROVE  /\ Stay(s) /\ pc'[s] = "store" /\ UNCHANGED <<engine, store>>
           /\ IsTerminal(job'[s]) => engine'[job'[s].id].st # "RUNNING"
<1> USE DEF TypeOK, WorkerTypeOK
<1>1. Stay(s) /\ pc'[s] = "store" /\ UNCHANGED <<engine, store>>
  BY DEF Collect, Goto, Stay
<1>2. StoredRow(s) \in Row
  BY StoredRowType DEF Collect
<1>3. job'[s].id = StoredRow(s).id /\ job'[s].status = Collected(StoredRow(s).id)
  BY <1>2 DEF Collect, Row
<1> QED
  BY <1>1, <1>3 DEF IsTerminal, Collected

(* A result in hand was in hand before. *)
ResultsKept ==
    \A s \in Session : pc'[s] = "store" => pc[s] = "store" /\ job'[s] = job[s]

(* Only refresh takes a result in hand (tracking.py refresh).              *)
LEMMA OnlyCollects ==
    TypeOK /\ [Next]_vars => ResultsKept \/ \E s \in Session : Collect(s)
<1> SUFFICES ASSUME TypeOK, [Next]_vars, ~ \E s \in Session : Collect(s)
             PROVE  ResultsKept
  OBVIOUS
<1> USE DEF TypeOK, WorkerTypeOK, ResultsKept
<1>1. CASE UNCHANGED <<pc, job>>
  BY <1>1
<1>2. ASSUME NEW s \in Session, NEW step, step # "store", Goto(s, step),
             \A r \in Session \ {s} : job'[r] = job[r]
      PROVE  ResultsKept
  BY <1>2 DEF Goto
<1>3. ASSUME NEW s \in Session, Leave(s) PROVE ResultsKept
  BY <1>2, <1>3 DEF Leave
<1>4. ASSUME NEW s \in Session, NEW kind, NEW run, BlockLater(s, kind, run),
             UNCHANGED job
      PROVE  ResultsKept
  BY <1>2, <1>4 DEF BlockLater
<1>5. ASSUME NEW s \in Session, NEW t \in Task, Select(s, t)
      PROVE  ResultsKept
  BY <1>1, <1>2, <1>4, <1>5
     DEF Select, Begin, CancelIneligible, RejectRouting, Resume, Reconcile,
         ReviewMerged, ReviewClosed, Take
<1>6. ASSUME NEW s \in Session, DispatchStep(s) PROVE ResultsKept
  <2>1. ASSUME NEW a \in Attempt, Launches(s, a) PROVE ResultsKept
    BY <2>1, LaunchedRun DEF Stay, Saving
  <2> QED
    BY <1>2, <1>3, <1>6, <2>1
       DEF DispatchStep, Launches, BuildContext, ContextFails, DispatchRefused,
           Claim, ClaimRefused, ProvisionFails, PersistRun, PersistRefused,
           AdvanceToRunning, AdvanceRefused, Unclaim
<1>7. ASSUME NEW s \in Session, TrackingStep(s) PROVE ResultsKept
  <2>1. CASE ObserveTerminal(s) \/ Drive(s)
    <3>1. (\E step \in {"drive", "act", "poll"} : Goto(s, step))
            /\ \A r \in Session \ {s} : job'[r] = job[r]
      BY <2>1 DEF ObserveTerminal, Drive
    <3> QED
      BY <1>2, <3>1
  <2>2. CASE ActNotSuccessful(s)
    <3>1. Leave(s) \/ (Goto(s, "note") /\ UNCHANGED job)
      BY <2>2 DEF ActNotSuccessful
    <3> QED
      BY <1>2, <1>3, <3>1
  <2> QED
    BY <1>2, <1>3, <1>4, <1>7, <2>1, <2>2
       DEF TrackingStep, CollectFails, StoreRun, StoreRefused, PollTimeout,
           ActRequeue, ActBlock, ActNothing, ActDone, ActPublish, Block,
           BlockRefused, WriteNote
<1>8. ASSUME NEW s \in Session, PublicationStep(s) PROVE ResultsKept
  <2>1. \/ Leave(s)
        \/ UNCHANGED job /\ \E step \in PC \ {"store"} : Goto(s, step)
    BY <1>8
       DEF PublicationStep, PublishRefused, SecurityBlocks, PublishFails,
           PublishExisting, PublishRevision, PublishNew, PersistPr, OpenPr,
           AwaitHuman, BlockFailedPublication, BlockLater, InPublish, PC
  <2> QED
    BY <1>2, <1>3, <2>1
<1>9. ASSUME NEW s \in Session, Crash(s) PROVE ResultsKept
  BY <1>3, <1>9 DEF Crash
<1>10. ASSUME NEW a \in Attempt, AgentStep(a) PROVE ResultsKept
  BY <1>1, <1>10 DEF AgentStep, AgentEnds, AgentExpires
<1> QED
  BY <1>1, <1>5, <1>6, <1>7, <1>8, <1>9, <1>10
     DEF Next, WorkerNext, OperatorNext, SessionStep, vars, worker

(* What is about to be stored says of an agent that it ended only when it  *)
(* did.                                                                    *)
LEMMA HandsTrueStep ==
    TypeOK /\ RunsTracked /\ WorkspacesKnown /\ HandsTrue /\ [Next]_vars
        => HandsTrue'
<1> SUFFICES ASSUME TypeOK, RunsTracked, WorkspacesKnown, HandsTrue, [Next]_vars
             PROVE  HandsTrue'
  OBVIOUS
<1>1. NoneRevived
  BY EnginesEndOnce
<1>2. ASSUME NEW r \in Session, pc[r] \in ToStore
      PROVE  IsTerminal(job[r]) => engine'[job[r].id].st # "RUNNING"
  BY <1>1, <1>2, DeadStays DEF HandsTrue, WorkspacesKnown, ToStore, InHand
<1>3. CASE HandsKept /\ ResultsKept
  BY <1>2, <1>3 DEF HandsTrue, DeadOf, HandsKept, HandAt, ResultsKept, ToStore,
                    IsTerminal
<1>4. ASSUME NEW s \in Session, Stay(s),
             IsTerminal(job'[s]) => engine'[job'[s].id].st # "RUNNING"
      PROVE  HandsTrue'
  BY <1>2, <1>4 DEF HandsTrue, DeadOf, Stay, IsTerminal
<1>5. ASSUME NEW s \in Session, NEW a \in Attempt, Launches(s, a)
      PROVE  HandsTrue'
  BY <1>4, <1>5, LaunchedRun, LaunchedTrue
<1>6. ASSUME NEW s \in Session, Collect(s) PROVE HandsTrue'
  BY <1>4, <1>6, CollectedTrue
<1> QED
  BY <1>3, <1>5, <1>6, NextHands, OnlyCollects

(* A row is written with the run in hand, or ended on the proof that its   *)
(* agent is dead (run_sqlite.py save_run, update_run; sqlite.py            *)
(* authorize_orphaned).                                                    *)
LEMMA RowsTrueStep ==
    TypeOK /\ WorkspacesKnown /\ RowsTrue /\ HandsTrue /\ [Next]_vars
        => RowsTrue'
<1> SUFFICES ASSUME TypeOK, StoreTypeOK, WorkerTypeOK, WorkspacesKnown,
                    RowsTrue, HandsTrue, [Next]_vars
             PROVE  RowsTrue'
  BY DEF TypeOK
<1>1. NoneRevived
  BY EnginesEndOnce
<1> DEFINE Then(row) == IsTerminal(row) => engine'[row.id].st # "RUNNING"
<1>2. ASSUME NEW t \in Task, NEW i \in DOMAIN runs[t] PROVE Then(runs[t][i])
  BY <1>1, <1>2, DeadStays DEF RowsTrue, WorkspacesKnown
<1>3. ASSUME NEW s \in Session, pc[s] \in ToStore PROVE Then(job[s])
  BY <1>1, <1>3, DeadStays DEF HandsTrue, WorkspacesKnown, ToStore, InHand
<1>4. SUFFICES ASSUME NEW t \in Task, NEW i \in DOMAIN runs'[t]
               PROVE  Then(runs'[t][i])
  BY DEF RowsTrue, DeadOf, IsTerminal
<1>5. CASE UNCHANGED runs
  BY <1>2, <1>5
<1>6. ASSUME NEW s \in Session, PersistRun(s) PROVE Then(runs'[t][i])
  <2>1. runs'[t][i] = job[s] \/ (i \in DOMAIN runs[t] /\ runs'[t][i] = runs[t][i])
    BY <1>6, SavedRow
  <2>2. pc[s] \in ToStore
    BY <1>6, SavedRow DEF ToStore
  <2> HIDE DEF Then
  <2> QED
    BY <1>2, <1>3, <2>1, <2>2
<1>7. ASSUME NEW u \in Task, NEW j \in DOMAIN runs[u], NEW row \in Row,
             UpdateRun(u, j, row), row.id = runs[u][j].id, Then(row)
      PROVE  Then(runs'[t][i])
  <2>1. runs[u][j] \in Row /\ runs \in [Task -> Seq(Row)]
    BY DEF StoreTypeOK
  <2>2. /\ runs'[u][j] = Updated(u, j, row)
        /\ DOMAIN runs'[u] = DOMAIN runs[u]
        /\ \A k \in DOMAIN runs[u] : k # j => runs'[u][k] = runs[u][k]
        /\ \A v \in Task : v # u => runs'[v] = runs[v]
    BY <1>7, <2>1 DEF UpdateRun
  <2>3. CASE t = u /\ i = j
    <3>1. Updated(u, j, row).id = row.id /\ Updated(u, j, row).status = row.status
      BY <1>7, <2>1 DEF Updated, Row
    <3> QED
      BY <1>7, <2>2, <2>3, <3>1 DEF IsTerminal
  <2>4. CASE ~ (t = u /\ i = j)
    <3>1. i \in DOMAIN runs[t] /\ runs'[t][i] = runs[t][i]
      BY <2>2, <2>4
    <3> HIDE DEF Then
    <3> QED
      BY <1>2, <3>1
  <2> QED
    BY <2>3, <2>4
<1>8. ASSUME NEW s \in Session, StoreRun(s) PROVE Then(runs'[t][i])
  <2>1. pc[s] \in ToStore /\ task[s] \in Task /\ job[s] \in Row
    BY <1>8 DEF StoreRun, At, ToStore, WorkerTypeOK
  <2>2. PICK j \in DOMAIN runs[task[s]] :
           runs[task[s]][j].id = job[s].id /\ UpdateRun(task[s], j, job[s])
    BY <1>8 DEF StoreRun, RowOf
  <2>3. Then(job[s])
    BY <1>3, <2>1
  <2> HIDE DEF Then
  <2> QED
    BY <1>7, <2>1, <2>2, <2>3
<1>9. ASSUME NEW u \in Task, RecoverOrphan(u) PROVE Then(runs'[t][i])
  <2> DEFINE n == Len(runs[u])
             row == [LatestRun(u) EXCEPT !.status = "FAILED"]
  <2>1. n \in DOMAIN runs[u] /\ LatestRun(u) = runs[u][n] /\ runs[u][n] \in Row
    BY <1>9 DEF RecoverOrphan, AuthorizeOrphan, HasRun, LatestRun, StoreTypeOK
  <2>2. row \in Row /\ row.id = runs[u][n].id
    BY <2>1 DEF Row, RunStatus
  <2>3. Updated(u, n, row) = row
    BY <2>1, <2>2 DEF Updated, Row
  <2>4. UpdateRun(u, n, row)
    BY <1>9, <2>1, <2>3 DEF RecoverOrphan, AuthorizeOrphan, UpdateRun
  <2>5. Then(row)
    <3>1. engine[row.id].st \in {"LOST", "EXPIRED"}
      BY <1>9, <2>1, <2>2 DEF RecoverOrphan, Evidence
    <3>2. row.id \in Attempt
      BY <2>1, <2>2 DEF WorkspacesKnown, Started
    <3> QED
      BY <1>1, <3>1, <3>2 DEF NoneRevived
  <2> HIDE DEF Then, row, n
  <2> QED
    BY <1>7, <2>1, <2>2, <2>4, <2>5
<1> QED
  BY <1>5, <1>6, <1>8, <1>9, NextWrites DEF RunsWritten

(* Rows and results say true of the agents, in every reachable state.      *)
LEMMA RowsTrueInvariance == Spec => [](RowsTrue /\ HandsTrue)
<1>1. Init => RowsTrue /\ HandsTrue
  BY DEF Init, StoreInit, WorkerInit, RowsTrue, HandsTrue, ToStore, Saving
<1>2. IInv /\ IdentInv /\ RowsTrue /\ HandsTrue /\ [Next]_vars
        => (RowsTrue /\ HandsTrue)'
  BY RowsTrueStep, HandsTrueStep DEF IInv, IdentInv
<1> QED
  BY <1>1, <1>2, Invariance, IdentInvariance, PTL DEF Spec

(* Of the agents at work, those on record serve different tasks in         *)
(* different workspaces, for every value of the constants, with shared     *)
(* tasks and careless operators: an agent at work has an active row, and   *)
(* the indexes keep active rows apart (dispatch.py _persist_run,           *)
(* tracking.py refresh, sqlite.py authorize_orphaned).                     *)
THEOREM RecordedIsolated == Spec => []RecordedAgentsIsolated
<1>1. TypeOK /\ ActiveRunsIsolated /\ WorkspacesKnown /\ RowsTrue
        => RecordedAgentsIsolated
  <2> SUFFICES ASSUME TypeOK, ActiveRunsIsolated, WorkspacesKnown, RowsTrue,
                      NEW t \in Task, NEW u \in Task,
                      NEW a \in Attempt, NEW b \in Attempt, a # b,
                      engine[a].st = "RUNNING", engine[b].st = "RUNNING",
                      NEW i \in DOMAIN runs[t], runs[t][i].id = a,
                      NEW j \in DOMAIN runs[u], runs[u][j].id = b
               PROVE  t # u /\ engine[a].ws # engine[b].ws
    BY DEF RecordedAgentsIsolated, RowOf
  <2>1. i \in ActiveRuns(t) /\ j \in ActiveRuns(u)
    BY DEF RowsTrue, DeadOf, ActiveRuns
  <2>2. <<t, i>> # <<u, j>>
    OBVIOUS
  <2>3. t # u /\ runs[t][i].ws # runs[u][j].ws
    BY <2>1, <2>2 DEF ActiveRunsIsolated
  <2>4. engine[a].ws = runs[t][i].ws /\ engine[b].ws = runs[u][j].ws
    BY DEF WorkspacesKnown, Started
  <2> QED
    BY <2>3, <2>4
<1>2. IInv /\ IdentInv /\ RowsTrue => RecordedAgentsIsolated
  BY <1>1 DEF IInv, IdentInv
<1> QED
  BY <1>2, Invariance, IdentInvariance, RowsTrueInvariance, PTL

-----------------------------------------------------------------------------
(* One writer per task.  When no two processes drive one task at a time    *)
(* (the pool's own promise, and the discipline docs/development.md asks of *)
(* operators), what a session knows of its task stays true until it acts.  *)

Owned == ~ SharedTasks /\ (CarefulOperators \/ Commands = {})

(* Whether the registry may stop routing a task that is under way, and     *)
(* whether operators may send a task back to VALIDATING.                   *)
Routed == "routing" \in Faults
Backed == Commands \intersect {"retry", "override"} # {}

(* The task t of session s is as the session left it. *)
Holds(s, t) ==
    /\ pc[s] = "note" => status[t] = note[s].to
    /\ pc[s] = "block" => note[s].to = "BLOCKED" /\ (Routed \/ ActiveRuns(t) = {})
    /\ pc[s] = "fail" => job[s].status = "FAILED"
    /\ pc[s] \in {"launch", "save", "fail", "advance", "unclaim"} => status[t] = "CLAIMED"
    /\ pc[s] \in {"poll", "store", "drive"} => status[t] \in BusyStatus
    /\ pc[s] \in {"claim", "launch", "save", "fail", "unclaim", "act", "publish",
                  "persist", "open", "await", "pubfail"} => ActiveRuns(t) = {}
    /\ pc[s] \in {"advance", "poll", "store", "drive"} =>
          \A i \in ActiveRuns(t) : runs[t][i].id = job[s].id
    /\ pc[s] = "store" => RowOf(t, job[s].id) \subseteq ActiveRuns(t)
    /\ pc[s] = "drive" /\ IsTerminal(job[s]) => ActiveRuns(t) = {}

(* Only the latest run of a task can be active. *)
OnlyLatest(t) == \A i \in ActiveRuns(t) : i = Len(runs[t])

Calm(t) == ~ Routed /\ ActiveRuns(t) # {} => status[t] \in {"CLAIMED", "RUNNING"}

Good(t) == hist[t].last = status[t] /\ Calm(t) /\ OnlyLatest(t)

(* What a step may do to a task: move it along the graph of the lifecycle, *)
(* add to its runs or end one, and occupy a claim only where there is room.*)
Follows(t) ==
    /\ status'[t] = status[t] \/ Machine!Edge(status[t], status'[t])
    /\ \A i \in DOMAIN runs[t] : IsTerminal(runs[t][i]) => runs'[t][i] = runs[t][i]
    /\ Backed \/ Occupies(t) \/ IdleGuard(t) \/ ~ Occupies(t)'

TaskStays(t) == \A u \in Task \ {t} : /\ status'[u] = status[u] /\ hist'[u] = hist[u]
                                      /\ runs'[u] = runs[u]

(* A transition that leaves no active run unobserved.                      *)
StatusMoves(t) ==
    \/ UNCHANGED <<status, hist>>
    \/ \E target \in TaskStatus :
          /\ CanTransition(status[t], target)
          /\ target = "CLAIMED" => IdleGuard(t)
          /\ Backed \/ target # "VALIDATING" \/ status[t] # "BLOCKED"
          /\ ActiveRuns(t) = {} \/ Routed \/ target = "RUNNING"
          /\ Record(t, target)

(* The only ways to occupy a claim: CLAIMED, or back to VALIDATING         *)
(* (domain/task_lifecycle.py).                                             *)
LEMMA BusyEdges ==
    ASSUME NEW source, NEW target, CanTransition(source, target),
           target \in BusyStatus, source \notin BusyStatus
    PROVE  target = "CLAIMED" \/ (source = "BLOCKED" /\ target = "VALIDATING")
BY DEF CanTransition, Transitions, BusyStatus

(* Such a transition does to the task what a step may do to it.            *)
LEMMA StatusMovesKeep ==
    ASSUME TypeOK, NEW t \in Task, Good(t), UNCHANGED runs, StatusMoves(t)
    PROVE  TaskStays(t) /\ Good(t)' /\ Follows(t)
<1> USE DEF TypeOK, StoreTypeOK
<1>1. ActiveRuns(t)' = ActiveRuns(t)
  BY DEF ActiveRuns
<1>2. CASE UNCHANGED <<status, hist>>
  BY <1>1, <1>2 DEF TaskStays, Good, Calm, OnlyLatest, Follows, Occupies
<1>3. ASSUME NEW target \in TaskStatus, CanTransition(status[t], target),
             target = "CLAIMED" => IdleGuard(t),
             Backed \/ target # "VALIDATING" \/ status[t] # "BLOCKED",
             ActiveRuns(t) = {} \/ Routed \/ target = "RUNNING",
             Record(t, target)
      PROVE  TaskStays(t) /\ Good(t)' /\ Follows(t)
  <2>1. /\ status'[t] = target /\ hist'[t].last = target
        /\ \A u \in Task \ {t} : status'[u] = status[u] /\ hist'[u] = hist[u]
    BY <1>3 DEF Record
  <2>2. TaskStays(t)
    BY <2>1 DEF TaskStays
  <2>3. Good(t)'
    BY <1>1, <1>3, <2>1 DEF Good, Calm, OnlyLatest
  <2>4. Machine!Edge(status[t], status'[t])
    BY <1>3, <2>1
       DEF Machine!Edge, Machine!CanTransition, Machine!Transitions, CanTransition, Transitions
  <2>5. Backed \/ Occupies(t) \/ IdleGuard(t) \/ ~ Occupies(t)'
    BY <1>1, <1>3, <2>1, BusyEdges DEF Occupies
  <2> QED
    BY <2>2, <2>3, <2>4, <2>5 DEF Follows
<1> QED
  BY <1>2, <1>3 DEF StatusMoves

(* A lifecycle transition is such a move, where the task has no active run *)
(* or stays observed (task_lifecycle.py transition).                       *)
LEMMA TransitionMoves ==
    ASSUME TypeOK, NEW t \in Task, NEW target \in TaskStatus,
           \/ Transition(t, target) \/ \E source : ApplyTransition(t, source, target),
           Backed \/ target # "VALIDATING" \/ status[t] # "BLOCKED",
           ActiveRuns(t) = {} \/ Routed \/ target = "RUNNING" \/ status[t] = target
    PROVE  StatusMoves(t) /\ status'[t] = target
<1> USE DEF TypeOK, StoreTypeOK
<1>1. CASE status[t] = target /\ UNCHANGED <<status, hist>>
  BY <1>1 DEF StatusMoves
<1>2. CASE Permitted(t, target) /\ Record(t, target)
  <2>1. status'[t] = target
    BY <1>2 DEF Record
  <2>2. status[t] # target
    BY <1>2 DEF Permitted, CanTransition, Transitions
  <2> QED
    BY <1>2, <2>1, <2>2 DEF StatusMoves, Permitted
<1> QED
  BY <1>1, <1>2 DEF Transition, ApplyTransition

(* _drive_task is such a move for a busy task whose run ended: no edge     *)
(* leads back to VALIDATING (tracking.py).                                 *)
LEMMA DriveTaskMoves ==
    ASSUME TypeOK, NEW t \in Task, NEW row, DriveTask(t, row), status[t] \in BusyStatus,
           IsTerminal(row) => ActiveRuns(t) = {}
    PROVE  StatusMoves(t) /\ (~ IsTerminal(row) => status'[t] = status[t])
<1>1. DriveTarget(t, row) \in TaskStatus /\ status[t] # "BLOCKED"
  BY DEF DriveTarget, TaskStatus, BusyStatus
<1>2. CASE UNCHANGED <<status, hist>>
  BY <1>2 DEF StatusMoves
<1>3. CASE IsTerminal(row) /\ Transition(t, DriveTarget(t, row))
  BY <1>1, <1>3, TransitionMoves
<1> QED
  BY <1>2, <1>3 DEF DriveTask

(* A step of session s on its task t, in which nobody else takes part.     *)
OwnStep(s, t) ==
    /\ Stay(s) /\ TaskStays(t) /\ (pc'[s] # "idle" => task'[s] = t)
    /\ Holds(s, t)' /\ Good(t)' /\ Follows(t)

(* A session that gives its task up leaves it in order.                    *)
LEMMA LeaveOwn ==
    ASSUME TypeOK, NEW s \in Session, NEW t \in Task, Good(t), Leave(s), UNCHANGED task,
           UNCHANGED runs, StatusMoves(t)
    PROVE  OwnStep(s, t)
<1>1. Stay(s) /\ pc'[s] = "idle"
  BY LeaveLocal
<1>2. Holds(s, t)'
  BY <1>1 DEF Holds
<1> QED
  BY <1>1, <1>2, StatusMovesKeep DEF OwnStep

(* A session that takes up a task in order knows it as it is.              *)
LEMMA SelectOwn ==
    ASSUME TypeOK, ActiveRunsIsolated, NEW s \in Session, NEW t \in Task, Select(s, t), Good(t)
    PROVE  OwnStep(s, t)
<1> USE DEF TypeOK, StoreTypeOK, WorkerTypeOK
<1>0. {"READY", "CANCELLED", "DONE"} \subseteq TaskStatus
  BY DEF TaskStatus
<1>1. ASSUME UNCHANGED <<runs, pc, task, job, note>>, pc[s] = "idle", StatusMoves(t)
      PROVE  OwnStep(s, t)
  BY <1>1, StatusMovesKeep DEF OwnStep, Stay, Holds
<1>2. CASE Begin(s, t)
  <2>1. Stay(s) /\ task'[s] = t /\ pc'[s] = "dispatch" /\ UNCHANGED runs
    BY <1>2 DEF Begin, Take, Goto, Stay
  <2>2. StatusMoves(t)
    BY <1>0, <1>2, TransitionMoves DEF Begin
  <2> QED
    BY <2>1, <2>2, StatusMovesKeep DEF OwnStep, Holds
<1>3. CASE CancelIneligible(s, t)
  <2>1. StatusMoves(t)
    BY <1>0, <1>3, TransitionMoves DEF CancelIneligible
  <2> QED
    BY <1>1, <1>3, <2>1 DEF CancelIneligible, At
<1>4. CASE RejectRouting(s, t)
  <2>1. Stay(s) /\ task'[s] = t /\ pc'[s] = "block" /\ UNCHANGED runs /\ Routed
    BY <1>4 DEF RejectRouting, BlockLater, Goto, Stay, Fault, Routed, store
  <2>2. note'[s] = [to |-> "BLOCKED", why |-> [kind |-> "routing", run |-> 0]]
    BY <1>4 DEF RejectRouting, BlockLater
  <2>3. StatusMoves(t)
    BY <1>4 DEF RejectRouting, store, StatusMoves
  <2> QED
    BY <2>1, <2>2, <2>3, StatusMovesKeep DEF OwnStep, Holds
<1>5. CASE Resume(s, t)
  <2>1. /\ Stay(s) /\ task'[s] = t /\ pc'[s] = "poll"
        /\ UNCHANGED <<status, hist, runs>> /\ status[t] \in BusyStatus
    BY <1>5 DEF Resume, Take, Goto, Stay, store
  <2>2. \A i \in ActiveRuns(t) : runs[t][i].id = job'[s].id
    <3>1. CASE ActiveRuns(t) = {}
      BY <3>1
    <3>2. CASE ActiveRuns(t) # {}
      <4> DEFINE k == CHOOSE i \in ActiveRuns(t) : TRUE
      <4>1. job'[s] = runs[t][k] /\ k \in ActiveRuns(t)
        BY <1>5, <3>2 DEF Resume
      <4>2. \A i \in ActiveRuns(t) : i = k
        BY <4>1 DEF ActiveRunsIsolated
      <4> QED
        BY <4>1, <4>2
    <3> QED
      BY <3>1, <3>2
  <2>3. Holds(s, t)'
    BY <2>1, <2>2 DEF Holds, ActiveRuns
  <2> QED
    BY <2>1, <2>3, StatusMovesKeep DEF OwnStep, StatusMoves
<1>6. CASE Reconcile(s, t)
  <2>1. ActiveRuns(t) = {}
    BY <1>6 DEF Reconcile, Good, OnlyLatest, LatestRun, ActiveRuns
  <2>2. StatusMoves(t)
    BY <1>6, <2>1, DriveTaskMoves DEF Reconcile
  <2> QED
    BY <1>1, <1>6, <2>2 DEF Reconcile, At
<1>7. CASE ReviewMerged(s, t) \/ ReviewClosed(s, t)
  <2>1. ActiveRuns(t) = {} \/ Routed
    BY <1>7 DEF ReviewMerged, ReviewClosed, Reviewable, Good, Calm
  <2>2. CASE ReviewMerged(s, t)
    <3>1. StatusMoves(t)
      BY <1>0, <2>1, <2>2, TransitionMoves DEF ReviewMerged
    <3> QED
      BY <1>1, <2>2, <3>1 DEF ReviewMerged, Reviewable, At
  <2>3. CASE ReviewClosed(s, t)
    <3>1. StatusMoves(t) /\ status'[t] = "CANCELLED"
      BY <1>0, <2>1, <2>3, TransitionMoves DEF ReviewClosed
    <3>2. Stay(s) /\ task'[s] = t /\ pc'[s] = "note" /\ UNCHANGED runs
      BY <2>3 DEF ReviewClosed, Take, Goto, Stay
    <3>3. note'[s] = [to |-> "CANCELLED", why |-> [kind |-> "closed", run |-> 0]]
      BY <2>3 DEF ReviewClosed
    <3> QED
      BY <3>1, <3>2, <3>3, StatusMovesKeep DEF OwnStep, Holds
  <2> QED
    BY <1>7, <2>2, <2>3
<1> QED
  BY <1>2, <1>3, <1>4, <1>5, <1>6, <1>7 DEF Select

(* A session that dispatches its task keeps it in order: it claims without *)
(* an active run, and its own run is the only one that becomes active      *)
(* (dispatch.py).                                                          *)
LEMMA DispatchOwn ==
    ASSUME TypeOK, NEW s \in Session, NEW t \in Task, t = task[s], DispatchStep(s),
           Good(t), Holds(s, t)
    PROVE  OwnStep(s, t)
<1> USE DEF TypeOK, StoreTypeOK, WorkerTypeOK
<1>0. {"CLAIMED", "BLOCKED", "RUNNING"} \subseteq TaskStatus
  BY DEF TaskStatus
<1>1. CASE BuildContext(s)
  <2>1. /\ Stay(s) /\ task'[s] = t /\ pc'[s] = "claim"
        /\ UNCHANGED <<status, hist, runs>> /\ ActiveRuns(t) = {}
    BY <1>1 DEF BuildContext, Dispatchable, Goto, Stay, store
  <2>2. Holds(s, t)'
    BY <2>1 DEF Holds, ActiveRuns
  <2> QED
    BY <2>1, <2>2, StatusMovesKeep DEF OwnStep, StatusMoves
<1>2. CASE ContextFails(s)
  <2>1. /\ Stay(s) /\ task'[s] = t /\ pc'[s] = "note" /\ UNCHANGED runs
        /\ note'[s] = [to |-> "BLOCKED", why |-> [kind |-> "context", run |-> 0]]
    BY <1>2 DEF ContextFails, Goto, Stay
  <2>2. StatusMoves(t) /\ status'[t] = "BLOCKED"
    BY <1>0, <1>2, TransitionMoves DEF ContextFails, Dispatchable
  <2>3. Holds(s, t)'
    BY <2>1, <2>2 DEF Holds
  <2> QED
    BY <2>1, <2>2, <2>3, StatusMovesKeep DEF OwnStep
<1>3. CASE DispatchRefused(s) \/ ClaimRefused(s) \/ ProvisionFails(s)
             \/ PersistRefused(s) \/ AdvanceRefused(s)
  BY <1>3, LeaveOwn DEF DispatchRefused, ClaimRefused, ProvisionFails, PersistRefused,
                        AdvanceRefused, store, StatusMoves
<1>4. CASE Unclaim(s)
  <2>1. ActiveRuns(t) = {}
    BY <1>4 DEF Unclaim, At, Holds
  <2>2. StatusMoves(t)
    BY <1>0, <1>4, <2>1, TransitionMoves DEF Unclaim, StatusMoves
  <2> QED
    BY <1>4, <2>2, LeaveOwn DEF Unclaim
<1>5. CASE Claim(s)
  <2>1. /\ Stay(s) /\ task'[s] = t /\ pc'[s] = "launch" /\ UNCHANGED runs
    BY <1>5 DEF Claim, Goto, Stay
  <2>2. ActiveRuns(t) = {}
    BY <1>5 DEF Claim, At, Holds
  <2>3. StatusMoves(t) /\ status'[t] = "CLAIMED"
    BY <1>0, <1>5, <2>2, TransitionMoves DEF Claim
  <2>4. Holds(s, t)'
    BY <2>1, <2>2, <2>3 DEF Holds, ActiveRuns
  <2> QED
    BY <2>1, <2>3, <2>4, StatusMovesKeep DEF OwnStep
<1>6. ASSUME NEW a \in Attempt, Launches(s, a) PROVE OwnStep(s, t)
  <2>1. /\ Stay(s) /\ UNCHANGED <<store, task>> /\ pc[s] = "launch" /\ pc'[s] \in Saving
        /\ (pc'[s] = "fail" => job'[s].status = "FAILED")
    BY <1>6, LaunchedRun
  <2>2. UNCHANGED <<status, hist, runs>> /\ task'[s] = t
    BY <2>1 DEF store
  <2>3. Holds(s, t)'
    BY <2>1, <2>2 DEF Holds, ActiveRuns, Saving
  <2> QED
    BY <2>1, <2>2, <2>3, StatusMovesKeep DEF OwnStep, StatusMoves
<1>7. CASE PersistRun(s)
  <2> DEFINE n == Len(runs[t]) + 1
  <2>1. /\ pc[s] \in Saving /\ Stay(s) /\ task'[s] = t /\ job'[s] = job[s]
        /\ UNCHANGED <<status, hist>>
        /\ n \notin DOMAIN runs[t]
        /\ DOMAIN runs'[t] = DOMAIN runs[t] \union {n}
        /\ runs'[t][n] = job[s]
        /\ \A i \in DOMAIN runs[t] : runs'[t][i] = runs[t][i]
        /\ \A u \in Task \ {t} : runs'[u] = runs[u]
    BY <1>7, SavedRow
  <2>2. (pc[s] = "save" /\ pc'[s] = "advance") \/ (pc[s] = "fail" /\ pc'[s] = "unclaim")
    BY <1>7 DEF PersistRun, At, Goto
  <2>3. ActiveRuns(t) = {} /\ status[t] = "CLAIMED"
        /\ (pc[s] = "fail" => job[s].status = "FAILED")
    BY <2>2 DEF Holds
  <2>4. Len(runs'[t]) = n
    BY <1>7 DEF PersistRun, SaveRun
  <2> HIDE DEF n
  <2>5. ActiveRuns(t)' = IF IsTerminal(job[s]) THEN {} ELSE {n}
    BY <2>1, <2>3 DEF ActiveRuns
  <2>6. Holds(s, t)'
    BY <2>1, <2>2, <2>3, <2>5 DEF Holds, IsTerminal
  <2>7. Good(t)'
    BY <2>1, <2>3, <2>4, <2>5 DEF Good, Calm, OnlyLatest
  <2>8. Follows(t)
    BY <2>1, <2>3 DEF Follows, Occupies, BusyStatus
  <2> QED
    BY <2>1, <2>6, <2>7, <2>8 DEF OwnStep, TaskStays
<1>8. CASE AdvanceToRunning(s)
  <2>1. /\ Stay(s) /\ task'[s] = t /\ pc'[s] = "poll" /\ UNCHANGED runs /\ job'[s] = job[s]
        /\ pc[s] = "advance"
    BY <1>8 DEF AdvanceToRunning, Goto, Stay, At
  <2>2. StatusMoves(t) /\ status'[t] = "RUNNING"
    BY <1>0, <1>8, TransitionMoves DEF AdvanceToRunning
  <2>3. Holds(s, t)'
    BY <2>1, <2>2 DEF Holds, ActiveRuns, BusyStatus
  <2> QED
    BY <2>1, <2>2, <2>3, StatusMovesKeep DEF OwnStep
<1> QED
  BY <1>1, <1>2, <1>3, <1>4, <1>5, <1>6, <1>7, <1>8 DEF DispatchStep, Launches

(* A session without an active run goes on with the run in hand.           *)
LEMMA EndedOwn ==
    ASSUME TypeOK, NEW s \in Session, NEW t \in Task, t = task[s], Good(t),
           ActiveRuns(t) = {}, UNCHANGED <<task, job, runs>>, StatusMoves(t),
           \/ /\ UNCHANGED note
              /\ \E step \in {"publish", "persist", "open", "await", "pubfail"} : Goto(s, step)
           \/ \E kind, run : BlockLater(s, kind, run)
    PROVE  OwnStep(s, t)
<1> USE DEF TypeOK, StoreTypeOK, WorkerTypeOK
<1>1. Stay(s) /\ task'[s] = t /\ ActiveRuns(t)' = {}
  BY DEF Stay, Goto, BlockLater, ActiveRuns
<1>2. ASSUME NEW kind, NEW run, BlockLater(s, kind, run)
      PROVE  pc'[s] = "block" /\ note'[s].to = "BLOCKED"
  BY <1>2 DEF BlockLater, Goto
<1>3. ASSUME NEW step \in {"publish", "persist", "open", "await", "pubfail"}, Goto(s, step)
      PROVE  pc'[s] = step
  BY <1>3 DEF Goto
<1>4. Holds(s, t)'
  BY <1>1, <1>2, <1>3 DEF Holds
<1> QED
  BY <1>1, <1>4, StatusMovesKeep DEF OwnStep

(* A session that publishes keeps its task in order (publication.py).      *)
LEMMA PublicationOwn ==
    ASSUME TypeOK, NEW s \in Session, NEW t \in Task, t = task[s], PublicationStep(s),
           Good(t), Holds(s, t)
    PROVE  OwnStep(s, t)
<1>0. {"PR_OPEN", "WAITING_HUMAN"} \subseteq TaskStatus
  BY DEF TaskStatus
<1>1. ActiveRuns(t) = {}
  BY DEF PublicationStep, PublishRefused, SecurityBlocks, PublishFails, PublishExisting,
         PublishRevision, PublishNew, PersistPr, OpenPr, AwaitHuman,
         BlockFailedPublication, InPublish, At, Holds
<1>2. CASE AwaitHuman(s)
  <2>1. StatusMoves(t)
    BY <1>0, <1>1, <1>2, TransitionMoves DEF AwaitHuman, StatusMoves
  <2> QED
    BY <1>2, <2>1, LeaveOwn DEF AwaitHuman
<1>3. CASE OpenPr(s)
  <2>1. StatusMoves(t)
    BY <1>0, <1>1, <1>3, TransitionMoves DEF OpenPr, StatusMoves
  <2> QED
    BY <1>1, <1>3, <2>1, EndedOwn DEF OpenPr
<1>4. CASE BlockFailedPublication(s)
  <2>1. StatusMoves(t) /\ UNCHANGED <<runs, task>>
    BY <1>4 DEF BlockFailedPublication, store, StatusMoves
  <2> QED
    BY <1>1, <1>4, <2>1, EndedOwn, LeaveOwn DEF BlockFailedPublication
<1>5. CASE \/ PublishRefused(s) \/ SecurityBlocks(s) \/ PublishFails(s)
           \/ PublishExisting(s) \/ PublishRevision(s) \/ PublishNew(s) \/ PersistPr(s)
  <2>1. StatusMoves(t) /\ UNCHANGED <<runs, task, job>>
    BY <1>5 DEF PublishRefused, SecurityBlocks, PublishFails, PublishExisting,
                PublishRevision, PublishNew, PersistPr, InPublish, StatusMoves
  <2>2. \/ /\ UNCHANGED note
           /\ \E step \in {"publish", "persist", "open", "await", "pubfail"} : Goto(s, step)
        \/ \E kind, run : BlockLater(s, kind, run)
    BY <1>5 DEF PublishRefused, SecurityBlocks, PublishFails, PublishExisting,
                PublishRevision, PublishNew, PersistPr
  <2> QED
    BY <1>1, <2>1, <2>2, EndedOwn
<1> QED
  BY <1>2, <1>3, <1>4, <1>5 DEF PublicationStep

(* A session that observes its run keeps its task in order: it stores a    *)
(* result only over an active row, and drives only when no run is active   *)
(* any more (tracking.py).                                                 *)
LEMMA TrackingOwn ==
    ASSUME TypeOK, RunsTracked, ActiveRunsIsolated, IdsUnique, NEW s \in Session,
           NEW t \in Task, t = task[s], TrackingStep(s), Good(t), Holds(s, t)
    PROVE  OwnStep(s, t)
<1> USE DEF TypeOK, StoreTypeOK, WorkerTypeOK
<1>0. {"READY", "BLOCKED", "DONE"} \subseteq TaskStatus
  BY DEF TaskStatus
<1>1. ASSUME At(s, "poll")
      PROVE  /\ RowOf(t, job[s].id) # {} /\ StoredRow(s).id = job[s].id
             /\ \A i \in RowOf(t, job[s].id) : runs[t][i] = StoredRow(s)
             /\ \A i \in ActiveRuns(t) : i \in RowOf(t, job[s].id)
  <2>1. PICK k \in DOMAIN runs[t] : runs[t][k] = StoredRow(s) /\ runs[t][k].id = job[s].id
    BY <1>1, StoredRowIs
  <2>2. \A i \in RowOf(t, job[s].id) : i = k
    BY <2>1 DEF RowOf, IdsUnique
  <2>3. \A i \in ActiveRuns(t) : i \in RowOf(t, job[s].id)
    BY <1>1 DEF Holds, At, ActiveRuns, RowOf
  <2> QED
    BY <2>1, <2>2, <2>3 DEF RowOf
<1>2. CASE Collect(s)
  <2>1. PICK verdict \in Gates : job' = [job EXCEPT ![s] =
           [StoredRow(s) EXCEPT !.status = Collected(StoredRow(s).id), !.gates = verdict]]
    <3>1. StoredRow(s) \in Row
      BY <1>2, StoredRowType DEF Collect
    <3> QED
      BY <1>2, <3>1 DEF Collect, Gates, Row
  <2>2. job'[s] = [StoredRow(s) EXCEPT !.status = Collected(StoredRow(s).id), !.gates = verdict]
        /\ \A r \in Session \ {s} : job'[r] = job[r]
    BY <2>1
  <2>3. StoredRow(s) \in Row
    BY <1>2, StoredRowType DEF Collect
  <2>4. job'[s].id = StoredRow(s).id
    BY <2>2, <2>3 DEF Row
  <2>5. /\ Stay(s) /\ task'[s] = t /\ pc'[s] = "store" /\ pc[s] = "poll"
        /\ UNCHANGED <<status, hist, runs>> /\ ~ IsTerminal(StoredRow(s))
    BY <1>2, <2>2 DEF Collect, Goto, Stay, store, At
  <2>6. job'[s].id = job[s].id /\ RowOf(t, job[s].id) \subseteq ActiveRuns(t)
    BY <1>1, <2>4, <2>5 DEF At, RowOf, ActiveRuns
  <2>7. Holds(s, t)'
    <3>1. /\ status[t] \in BusyStatus
          /\ \A i \in ActiveRuns(t) : runs[t][i].id = job'[s].id
          /\ RowOf(t, job'[s].id) \subseteq ActiveRuns(t)
      BY <2>5, <2>6 DEF Holds
    <3>2. ActiveRuns(t)' = ActiveRuns(t) /\ RowOf(t, job[s].id)' = RowOf(t, job'[s].id)
      BY <2>5 DEF ActiveRuns, RowOf
    <3> QED
      BY <2>5, <3>1, <3>2 DEF Holds
  <2> QED
    BY <2>5, <2>7, StatusMovesKeep DEF OwnStep, StatusMoves
<1>3. CASE CollectFails(s) \/ StoreRefused(s) \/ PollTimeout(s) \/ ActNothing(s)
           \/ BlockRefused(s)
  BY <1>3, LeaveOwn DEF CollectFails, StoreRefused, PollTimeout, ActNothing, Concerns,
                        BlockRefused, store, StatusMoves
<1>4. CASE ObserveTerminal(s)
  <2>1. /\ Stay(s) /\ task'[s] = t /\ pc'[s] \in {"drive", "act"} /\ pc[s] = "poll"
        /\ UNCHANGED <<status, hist, runs>> /\ IsTerminal(StoredRow(s))
        /\ job'[s] = StoredRow(s)
    BY <1>4 DEF ObserveTerminal, Goto, Stay, store, At
  <2>2. ActiveRuns(t) = {}
    BY <1>1, <2>1 DEF At, ActiveRuns
  <2>3. status[t] \in BusyStatus
    BY <2>1 DEF Holds
  <2>4. Holds(s, t)'
    BY <2>1, <2>2, <2>3 DEF Holds, ActiveRuns
  <2> QED
    BY <2>1, <2>4, StatusMovesKeep DEF OwnStep, StatusMoves
<1>5. CASE StoreRun(s)
  <2>1. PICK k \in RowOf(t, job[s].id) : UpdateRun(t, k, job[s])
    BY <1>5 DEF StoreRun
  <2>2. /\ Stay(s) /\ task'[s] = t /\ pc'[s] = "drive" /\ pc[s] = "store"
        /\ UNCHANGED <<status, hist>> /\ job'[s] = job[s]
    BY <1>5 DEF StoreRun, Goto, Stay, At
  <2>3. /\ status[t] \in BusyStatus /\ k \in ActiveRuns(t)
        /\ \A i \in ActiveRuns(t) : i = k
    BY <2>2 DEF Holds, ActiveRunsIsolated
  <2>4. runs[t][k] \in Row /\ k \in DOMAIN runs[t] /\ runs[t][k].id = job[s].id
    BY <2>1 DEF RowOf
  <2>5. Updated(t, k, job[s]).status = job[s].status /\ Updated(t, k, job[s]).id = job[s].id
    BY <2>4 DEF Updated, Row
  <2>6. /\ runs'[t][k] = Updated(t, k, job[s])
        /\ DOMAIN runs'[t] = DOMAIN runs[t] /\ Len(runs'[t]) = Len(runs[t])
        /\ \A j \in DOMAIN runs[t] : j # k => runs'[t][j] = runs[t][j]
        /\ \A u \in Task \ {t} : runs'[u] = runs[u]
    BY <2>1, <2>4 DEF UpdateRun
  <2>7. ActiveRuns(t)' = IF IsTerminal(job[s]) THEN {} ELSE {k}
    BY <2>3, <2>4, <2>5, <2>6 DEF ActiveRuns, IsTerminal
  <2>8. Holds(s, t)'
    BY <2>2, <2>3, <2>5, <2>6, <2>7 DEF Holds
  <2>9. Good(t)'
    BY <2>2, <2>3, <2>6, <2>7 DEF Good, Calm, OnlyLatest
  <2>10. Follows(t)
    BY <2>2, <2>3, <2>6 DEF Follows, Occupies, ActiveRuns
  <2> QED
    BY <2>2, <2>6, <2>8, <2>9, <2>10 DEF OwnStep, TaskStays
<1>6. CASE Drive(s)
  <2>1. /\ Stay(s) /\ task'[s] = t /\ pc[s] = "drive" /\ job'[s] = job[s]
        /\ UNCHANGED runs /\ pc'[s] = IF IsTerminal(job[s]) THEN "act" ELSE "poll"
    BY <1>6 DEF Drive, Goto, Stay, At
  <2>2. /\ status[t] \in BusyStatus
        /\ IsTerminal(job[s]) => ActiveRuns(t) = {}
        /\ \A i \in ActiveRuns(t) : runs[t][i].id = job[s].id
    BY <2>1 DEF Holds
  <2>3. StatusMoves(t) /\ (~ IsTerminal(job[s]) => status'[t] = status[t])
    BY <1>6, <2>2, DriveTaskMoves DEF Drive
  <2>4. Holds(s, t)'
    BY <2>1, <2>2, <2>3 DEF Holds, ActiveRuns
  <2> QED
    BY <2>1, <2>3, <2>4, StatusMovesKeep DEF OwnStep
<1>7. ASSUME At(s, "act") PROVE ActiveRuns(t) = {}
  BY <1>7 DEF At, Holds
<1>8. CASE ActNotSuccessful(s)
  <2>1. UNCHANGED <<runs, task>> /\ StatusMoves(t)
    BY <1>8 DEF ActNotSuccessful, Concerns, StatusMoves
  <2>2. CASE Leave(s)
    BY <2>1, <2>2, LeaveOwn
  <2>3. CASE /\ Goto(s, "note") /\ UNCHANGED job /\ status[t] = "FAILED"
             /\ note' = [note EXCEPT ![s] =
                  [to |-> "FAILED", why |-> [kind |-> "operational", run |-> 0]]]
    <3>1. Stay(s) /\ pc'[s] = "note" /\ task'[s] = t /\ note'[s].to = "FAILED"
      BY <2>1, <2>3 DEF Goto, Stay
    <3>2. status'[t] = "FAILED"
      BY <1>8, <2>3 DEF ActNotSuccessful
    <3>3. Holds(s, t)'
      BY <3>1, <3>2 DEF Holds
    <3> QED
      BY <2>1, <3>1, <3>3, StatusMovesKeep DEF OwnStep
  <2> QED
    BY <1>8, <2>2, <2>3 DEF ActNotSuccessful
<1>9. CASE ActRequeue(s) \/ ActDone(s)
  <2>1. StatusMoves(t)
    BY <1>0, <1>7, <1>9, TransitionMoves DEF ActRequeue, ActDone, Concerns, StatusMoves
  <2> QED
    BY <1>9, <2>1, LeaveOwn DEF ActRequeue, ActDone, Concerns
<1>10. CASE ActBlock(s) \/ ActPublish(s)
  <2>1. StatusMoves(t) /\ UNCHANGED <<runs, task, job>> /\ ActiveRuns(t) = {}
    BY <1>7, <1>10 DEF ActBlock, ActPublish, Concerns, StatusMoves
  <2> QED
    BY <1>10, <2>1, EndedOwn DEF ActBlock, ActPublish
<1>11. CASE Block(s)
  <2>1. /\ Stay(s) /\ task'[s] = t /\ pc'[s] = "note" /\ UNCHANGED runs
        /\ note'[s] = note[s] /\ pc[s] = "block"
    BY <1>11 DEF Block, Goto, Stay, At
  <2>2. note[s].to = "BLOCKED" /\ (Routed \/ ActiveRuns(t) = {})
    BY <2>1 DEF Holds
  <2>3. StatusMoves(t) /\ status'[t] = "BLOCKED"
    BY <1>0, <1>11, <2>2, TransitionMoves DEF Block
  <2>4. Holds(s, t)'
    BY <2>1, <2>2, <2>3 DEF Holds
  <2> QED
    BY <2>1, <2>3, <2>4, StatusMovesKeep DEF OwnStep
<1>12. CASE WriteNote(s)
  <2>1. status[t] = note[s].to
    BY <1>12 DEF WriteNote, At, Holds
  <2>2. status' = status /\ hist' = hist
    BY <1>12, <2>1 DEF WriteNote, UpdateRow
  <2> QED
    BY <1>12, <2>2, LeaveOwn DEF WriteNote, StatusMoves
<1> QED
  BY <1>2, <1>3, <1>4, <1>5, <1>6, <1>8, <1>9, <1>10, <1>11, <1>12 DEF TrackingStep

(* No task is in the hands of two processes, and every process finds its   *)
(* task as it left it.                                                     *)
Apart ==
    /\ \A r, s \in Session :
          r # s /\ pc[r] # "idle" /\ pc[s] # "idle" => task[r] # task[s]
    /\ \A o \in Operators, s \in Session :
          opc[o] # "idle" /\ pc[s] # "idle" => otask[o] # task[s]

HoldsAll ==
    /\ \A s \in Session, t \in Task : task[s] = t => Holds(s, t)
    /\ \A o \in Operators, t \in Task :
          otask[o] = t /\ opc[o] # "idle" => ActiveRuns(t) = {}
    /\ \A o \in Operators : opc[o] # "idle" => "retry" \in Commands

OInv == Apart /\ HoldsAll /\ \A t \in Task : Good(t)

(* No other process has a hand on task t. *)
Alone(s, t) ==
    /\ \A r \in Session \ {s} : pc[r] = "idle" \/ task[r] # t
    /\ \A o \in Operators : opc[o] = "idle" \/ otask[o] # t

(* At most one task changes, and as a step may change it. *)
OneFollows ==
    \/ UNCHANGED <<status, runs>>
    \/ \E t \in Task : TaskStays(t) /\ Follows(t)

(* What a session knows stays true while it and its task stay.             *)
LEMMA HoldsStays ==
    ASSUME NEW s \in Session, NEW t \in Task, Holds(s, t), status'[t] = status[t],
           runs'[t] = runs[t], pc'[s] = pc[s], job'[s] = job[s], note'[s] = note[s]
    PROVE  Holds(s, t)'
BY DEF Holds, ActiveRuns, RowOf

(* A task that stays stays in order.                                       *)
LEMMA GoodStays ==
    ASSUME NEW t \in Task, Good(t), status'[t] = status[t], hist'[t] = hist[t],
           runs'[t] = runs[t]
    PROVE  Good(t)'
BY DEF Good, Calm, OnlyLatest, ActiveRuns

(* A session alone on its task disturbs nobody.                            *)
LEMMA OwnStepKeeps ==
    ASSUME TypeOK, OInv, NEW s \in Session, NEW t \in Task, OwnStep(s, t), Alone(s, t),
           UNCHANGED operator
    PROVE  OInv' /\ OneFollows
<1> USE DEF TypeOK, WorkerTypeOK, OperatorTypeOK
<1>1. /\ Stay(s) /\ TaskStays(t) /\ (pc'[s] # "idle" => task'[s] = t)
      /\ Holds(s, t)' /\ Good(t)' /\ Follows(t) /\ UNCHANGED <<opc, otask>>
  BY DEF OwnStep, operator
<1>2. Apart'
  <2>1. \A r \in Session \ {s} : pc'[r] = pc[r] /\ task'[r] = task[r]
    BY <1>1 DEF Stay
  <2>2. ASSUME NEW q \in Session, NEW r \in Session, q # r, pc'[q] # "idle", pc'[r] # "idle"
        PROVE  task'[q] # task'[r]
    BY <1>1, <2>1, <2>2 DEF OInv, Apart, Alone
  <2>3. ASSUME NEW o \in Operators, NEW r \in Session, opc'[o] # "idle", pc'[r] # "idle"
        PROVE  otask'[o] # task'[r]
    BY <1>1, <2>1, <2>3 DEF OInv, Apart, Alone
  <2> QED
    BY <2>2, <2>3 DEF Apart
<1>3. ASSUME NEW r \in Session, NEW u \in Task, task'[r] = u PROVE Holds(r, u)'
  <2>1. CASE pc'[r] = "idle"
    BY <2>1 DEF Holds
  <2>2. CASE r = s /\ pc'[r] # "idle"
    BY <1>1, <1>3, <2>2
  <2>3. CASE r # s /\ pc'[r] # "idle"
    <3>1. /\ pc'[r] = pc[r] /\ job'[r] = job[r] /\ note'[r] = note[r] /\ task[r] = u /\ u # t
      BY <1>1, <1>3, <2>3 DEF Stay, Alone
    <3>2. Holds(r, u)
      BY <3>1 DEF OInv, HoldsAll
    <3> QED
      BY <1>1, <3>1, <3>2, HoldsStays DEF TaskStays
  <2> QED
    BY <2>1, <2>2, <2>3
<1>4. ASSUME NEW o \in Operators, NEW u \in Task, otask'[o] = u, opc'[o] # "idle"
      PROVE  ActiveRuns(u)' = {}
  <2>1. u # t /\ ActiveRuns(u) = {}
    BY <1>1, <1>4 DEF Alone, OInv, HoldsAll
  <2> QED
    BY <1>1, <2>1 DEF TaskStays, ActiveRuns
<1>5. HoldsAll'
  BY <1>1, <1>3, <1>4 DEF HoldsAll, OInv
<1>6. ASSUME NEW u \in Task PROVE Good(u)'
  BY <1>1, GoodStays DEF TaskStays, OInv
<1> QED
  BY <1>1, <1>2, <1>5, <1>6 DEF OInv, OneFollows

(* A step that only moves agents or nothing disturbs nobody.               *)
LEMMA FrameKeeps ==
    ASSUME TypeOK, OInv, UNCHANGED <<status, hist, runs, pc, task, job, note, operator>>
    PROVE  OInv' /\ OneFollows
<1>1. Apart'
  BY DEF OInv, Apart, operator
<1>2. ASSUME NEW s \in Session, NEW t \in Task, task'[s] = t PROVE Holds(s, t)'
  BY <1>2, HoldsStays DEF OInv, HoldsAll
<1>3. HoldsAll'
  BY <1>2 DEF OInv, HoldsAll, ActiveRuns, operator
<1>4. ASSUME NEW t \in Task PROVE Good(t)'
  BY GoodStays DEF OInv
<1> QED
  BY <1>1, <1>3, <1>4 DEF OInv, OneFollows

(* An operator's write to a task no session holds disturbs nobody.         *)
LEMMA CommandKeeps ==
    ASSUME TypeOK, OInv, NEW t \in Task, UNCHANGED worker,
           \A s \in Session : pc[s] = "idle" \/ task[s] # t,
           TaskStays(t), Good(t)', Follows(t), ActiveRuns(t)' \subseteq ActiveRuns(t),
           UNCHANGED otask, \A o \in Operators : opc'[o] # "idle" => opc[o] # "idle"
    PROVE  OInv' /\ OneFollows
<1> USE DEF TypeOK, WorkerTypeOK, OperatorTypeOK
<1>0. UNCHANGED <<pc, task, job, note>>
  BY DEF worker
<1>1. Apart'
  BY <1>0 DEF OInv, Apart
<1>2. ASSUME NEW s \in Session, NEW u \in Task, task'[s] = u PROVE Holds(s, u)'
  <2>1. CASE pc'[s] = "idle"
    BY <2>1 DEF Holds
  <2>2. CASE pc'[s] # "idle"
    <3>1. u # t /\ Holds(s, u)
      BY <1>0, <1>2, <2>2 DEF OInv, HoldsAll
    <3> QED
      BY <1>0, <3>1, HoldsStays DEF TaskStays
  <2> QED
    BY <2>1, <2>2
<1>3. ASSUME NEW o \in Operators, NEW u \in Task, otask'[o] = u, opc'[o] # "idle"
      PROVE  ActiveRuns(u)' = {}
  <2>1. ActiveRuns(u) = {}
    BY <1>3 DEF OInv, HoldsAll
  <2>2. CASE u = t
    BY <2>1, <2>2
  <2>3. CASE u # t
    BY <2>1, <2>3 DEF TaskStays, ActiveRuns
  <2> QED
    BY <2>2, <2>3
<1>4. HoldsAll'
  BY <1>2, <1>3 DEF OInv, HoldsAll
<1>5. ASSUME NEW u \in Task PROVE Good(u)'
  BY GoodStays DEF TaskStays, OInv
<1> QED
  BY <1>1, <1>4, <1>5 DEF OInv, OneFollows

(* Every write of an operator leaves the task in order (retry.py,          *)
(* rework.py, terminal_recovery.py).                                       *)
LEMMA OperatorKeeps ==
    ASSUME TypeOK, ActiveRunsIsolated, Owned, OInv, OperatorNext
    PROVE  OInv' /\ OneFollows
<1> USE DEF TypeOK, StoreTypeOK, WorkerTypeOK, OperatorTypeOK
<1>0. UNCHANGED worker /\ {"READY", "VALIDATING", "BLOCKED", "CHANGES_REQUESTED"} \subseteq TaskStatus
  BY DEF OperatorNext, TaskStatus
<1>1. ASSUME NEW t \in Task, Commanded(t), Commands # {}
      PROVE  \A s \in Session : pc[s] = "idle" \/ task[s] # t
  BY <1>1 DEF Commanded, Quiet, Owned
<1>2. ASSUME NEW t \in Task, \A s \in Session : pc[s] = "idle" \/ task[s] # t,
             StatusMoves(t), UNCHANGED <<runs, otask>>,
             \A o \in Operators : opc'[o] # "idle" => opc[o] # "idle"
      PROVE  OInv' /\ OneFollows
  <2>1. TaskStays(t) /\ Good(t)' /\ Follows(t)
    BY <1>2, StatusMovesKeep DEF OInv
  <2>2. ActiveRuns(t)' \subseteq ActiveRuns(t)
    BY <1>2 DEF ActiveRuns
  <2> QED
    BY <1>0, <1>2, <2>1, <2>2, CommandKeeps
<1>3. ASSUME NEW o \in Operators, NEW t \in Task, Commanded(t), RetryDecide(o, t)
      PROVE  OInv' /\ OneFollows
  <2>1. /\ UNCHANGED <<status, hist, runs, pc, task, job, note>> /\ ActiveRuns(t) = {}
        /\ "retry" \in Commands
    BY <1>0, <1>3 DEF RetryDecide, store, worker
  <2>2. \A p \in Operators \ {o} : opc'[p] = opc[p] /\ otask'[p] = otask[p]
    BY <1>3 DEF RetryDecide
  <2>3. otask'[o] = t
    BY <1>3 DEF RetryDecide
  <2>4. \A s \in Session : pc[s] = "idle" \/ task[s] # t
    BY <1>1, <1>3, <2>1
  <2>5. Apart'
    <3>1. ASSUME NEW p \in Operators, NEW s \in Session, opc'[p] # "idle", pc'[s] # "idle"
          PROVE  otask'[p] # task'[s]
      <4>1. CASE p = o
        BY <2>1, <2>3, <2>4, <3>1, <4>1
      <4>2. CASE p # o
        BY <2>1, <2>2, <3>1, <4>2 DEF OInv, Apart
      <4> QED
        BY <4>1, <4>2
    <3> QED
      BY <2>1, <3>1 DEF OInv, Apart
  <2>6. ASSUME NEW s \in Session, NEW u \in Task, task'[s] = u PROVE Holds(s, u)'
    BY <2>1, <2>6, HoldsStays DEF OInv, HoldsAll
  <2>7. ASSUME NEW p \in Operators, NEW u \in Task, otask'[p] = u, opc'[p] # "idle"
        PROVE  ActiveRuns(u)' = {}
    BY <2>1, <2>2, <2>3, <2>7 DEF OInv, HoldsAll, ActiveRuns
  <2>8. HoldsAll'
    BY <2>1, <2>6, <2>7 DEF HoldsAll
  <2>9. ASSUME NEW u \in Task PROVE Good(u)'
    BY <2>1, GoodStays DEF OInv
  <2> QED
    BY <2>1, <2>5, <2>8, <2>9 DEF OInv, OneFollows
<1>4. ASSUME NEW o \in Operators, RetryUnclaim(o) \/ RetryApply(o)
      PROVE  OInv' /\ OneFollows
  <2>1. PICK t \in Task : t = otask[o]
    OBVIOUS
  <2>2. opc[o] # "idle" /\ UNCHANGED <<runs, otask>>
        /\ \A p \in Operators \ {o} : opc'[p] = opc[p]
    BY <1>4 DEF RetryUnclaim, RetryApply
  <2>3. ActiveRuns(t) = {} /\ Backed
    BY <2>1, <2>2 DEF OInv, HoldsAll, Backed
  <2>4. \A s \in Session : pc[s] = "idle" \/ task[s] # t
    BY <2>1, <2>2 DEF OInv, Apart
  <2>5. otarget[o] \in TaskStatus
    BY <1>0
  <2>6. \/ UNCHANGED <<status, hist>>
        \/ \E target \in TaskStatus : \E source : ApplyTransition(t, source, target)
    BY <1>0, <1>4, <2>1, <2>5 DEF RetryUnclaim, RetryApply
  <2>7. StatusMoves(t)
    BY <2>3, <2>6, TransitionMoves DEF StatusMoves
  <2> QED
    BY <1>2, <2>2, <2>4, <2>7
<1>5. ASSUME NEW t \in Task, Commanded(t), RequestRework(t) PROVE OInv' /\ OneFollows
  <2>1. StatusMoves(t)
    <3>1. CanTransition(status[t], "CHANGES_REQUESTED")
      BY <1>5 DEF RequestRework, CanTransition, Transitions
    <3>2. ActiveRuns(t) = {} \/ Routed
      BY <1>5 DEF RequestRework, OInv, Good, Calm
    <3> QED
      BY <1>0, <1>5, <3>1, <3>2 DEF RequestRework, StatusMoves
  <2> QED
    BY <1>1, <1>2, <1>5, <2>1 DEF RequestRework, operator
<1>6. ASSUME NEW t \in Task, Commanded(t), OverrideSecurity(t) PROVE OInv' /\ OneFollows
  <2>1. ActiveRuns(t) = {} \/ Routed
    BY <1>6 DEF OverrideSecurity, OInv, Good, Calm
  <2>2. StatusMoves(t)
    BY <1>0, <1>6, <2>1, TransitionMoves DEF OverrideSecurity, Backed
  <2> QED
    BY <1>1, <1>2, <1>6, <2>2 DEF OverrideSecurity, operator
<1>7. ASSUME NEW t \in Task, NEW kind, Commanded(t), AuthorizeTerminal(t, kind)
      PROVE  OInv' /\ OneFollows
  <2>1. /\ UNCHANGED <<runs, opc, otask>> /\ Commands # {} /\ ActiveRuns(t) = {}
        /\ status[t] = "FAILED" /\ Record(t, "BLOCKED")
    BY <1>7 DEF AuthorizeTerminal, operator
  <2>2. /\ status'[t] = "BLOCKED" /\ hist'[t].last = "BLOCKED" /\ TaskStays(t)
        /\ ActiveRuns(t)' = {}
    BY <2>1 DEF Record, TaskStays, ActiveRuns
  <2>3. Good(t)'
    BY <2>2 DEF Good, Calm, OnlyLatest
  <2>4. Follows(t)
    BY <2>1, <2>2 DEF Follows, Machine!Edge, Occupies, BusyStatus
  <2> QED
    BY <1>0, <1>1, <1>7, <2>1, <2>2, <2>3, <2>4, CommandKeeps
<1>8. ASSUME NEW t \in Task, Commanded(t), AuthorizeOrphan(t) PROVE OInv' /\ OneFollows
  <2> DEFINE n == Len(runs[t])
  <2>1. /\ UNCHANGED <<opc, otask>> /\ Commands # {} /\ status[t] = "RUNNING"
        /\ Record(t, "BLOCKED") /\ n \in DOMAIN runs[t] /\ runs[t][n].status = "RUNNING"
        /\ runs[t][n] \in Row
    BY <1>8 DEF AuthorizeOrphan, operator, HasRun, LatestRun
  <2>2. runs' = [runs EXCEPT ![t][n].status = "FAILED"]
    BY <1>8 DEF AuthorizeOrphan
  <2>3. /\ runs'[t][n].status = "FAILED" /\ DOMAIN runs'[t] = DOMAIN runs[t]
        /\ \A j \in DOMAIN runs[t] : j # n => runs'[t][j] = runs[t][j]
        /\ \A u \in Task \ {t} : runs'[u] = runs[u]
    BY <2>1, <2>2 DEF Row
  <2>4. \A i \in ActiveRuns(t) : i = n
    BY DEF OInv, Good, OnlyLatest
  <2> HIDE DEF n
  <2>5. ActiveRuns(t)' = {}
    BY <2>3, <2>4 DEF ActiveRuns, IsTerminal
  <2>6. status'[t] = "BLOCKED" /\ hist'[t].last = "BLOCKED" /\ TaskStays(t)
    BY <2>1, <2>3 DEF Record, TaskStays
  <2>7. Good(t)'
    BY <2>5, <2>6 DEF Good, Calm, OnlyLatest
  <2>8. Machine!Edge(status[t], status'[t])
    BY <2>1, <2>6 DEF Machine!Edge, Machine!CanTransition, Machine!Transitions
  <2>9. Follows(t)
    BY <2>1, <2>3, <2>5, <2>6, <2>8 DEF Follows, Occupies, BusyStatus, IsTerminal
  <2> QED
    BY <1>0, <1>1, <1>8, <2>1, <2>5, <2>6, <2>7, <2>9, CommandKeeps
<1> QED
  BY <1>3, <1>4, <1>5, <1>6, <1>7, <1>8
     DEF OperatorNext, RetryStep, RecoverTimeout, RecoverWorkerFailure, RecoverOrphan

(* A session that takes a step has a task.                                 *)
LEMMA StepsAreBusy ==
    ASSUME NEW s \in Session, SessionStep(s)
    PROVE  pc[s] # "idle"
<1>1. CASE DispatchStep(s)
  BY <1>1
     DEF DispatchStep, Launch, LaunchStillborn, LaunchRaises, Start, BuildContext,
         ContextFails, DispatchRefused, Claim, ClaimRefused, ProvisionFails, PersistRun,
         PersistRefused, AdvanceToRunning, AdvanceRefused, Unclaim, At
<1>2. CASE TrackingStep(s)
  BY <1>2
     DEF TrackingStep, Collect, CollectFails, ObserveTerminal, StoreRun, StoreRefused,
         Drive, PollTimeout, ActNotSuccessful, ActRequeue, ActBlock, ActNothing,
         ActDone, ActPublish, Concerns, Block, BlockRefused, WriteNote, At
<1>3. CASE PublicationStep(s)
  BY <1>3
     DEF PublicationStep, PublishRefused, SecurityBlocks, PublishFails, PublishExisting,
         PublishRevision, PublishNew, PersistPr, OpenPr, AwaitHuman,
         BlockFailedPublication, InPublish, At
<1> QED
  BY <1>1, <1>2, <1>3 DEF SessionStep

(* One writer per task: every step keeps every process's knowledge true,   *)
(* and does to at most one task what a step may do.                        *)
LEMMA OwnedStep ==
    ASSUME TypeOK, RunsTracked, ActiveRunsIsolated, IdsUnique, Owned, OInv, [Next]_vars
    PROVE  OInv' /\ OneFollows
<1> USE DEF TypeOK, WorkerTypeOK
<1>1. ASSUME NEW s \in Session, NEW t \in Task, Selectable(t), Select(s, t), UNCHANGED operator
      PROVE  OInv' /\ OneFollows
  <2>1. Free(t)
    BY <1>1 DEF Select, Begin, CancelIneligible, RejectRouting, Resume, Reconcile,
                ReviewMerged, ReviewClosed, Reviewable, Take
  <2>2. Alone(s, t)
    BY <1>1, <2>1 DEF Free, Selectable, Owned, Alone, OInv, HoldsAll
  <2> QED
    BY <1>1, <2>2, SelectOwn, OwnStepKeeps DEF OInv
<1>2. ASSUME NEW s \in Session, pc[s] # "idle" PROVE Alone(s, task[s])
  BY <1>2 DEF OInv, Apart, Alone
<1>3. ASSUME NEW s \in Session, SessionStep(s), UNCHANGED operator PROVE OInv' /\ OneFollows
  <2>1. PICK t \in Task : t = task[s]
    OBVIOUS
  <2>2. Good(t) /\ Holds(s, t) /\ Alone(s, t)
    BY <1>2, <1>3, <2>1, StepsAreBusy DEF OInv, HoldsAll
  <2>3. OwnStep(s, t)
    BY <1>3, <2>1, <2>2, DispatchOwn, TrackingOwn, PublicationOwn DEF SessionStep
  <2> QED
    BY <1>3, <2>2, <2>3, OwnStepKeeps
<1>4. ASSUME NEW s \in Session, Crash(s), UNCHANGED operator PROVE OInv' /\ OneFollows
  <2>1. PICK t \in Task : t = task[s]
    OBVIOUS
  <2>2. Good(t) /\ Alone(s, t)
    BY <1>2, <1>4, <2>1 DEF OInv, Crash
  <2>3. OwnStep(s, t)
    BY <1>4, <2>2, LeaveOwn DEF Crash, store, StatusMoves
  <2> QED
    BY <1>4, <2>2, <2>3, OwnStepKeeps
<1>5. ASSUME NEW a \in Attempt, AgentStep(a), UNCHANGED operator PROVE OInv' /\ OneFollows
  BY <1>5, FrameKeeps DEF AgentStep, AgentEnds, AgentExpires, store
<1>6. CASE UNCHANGED vars
  BY <1>6, FrameKeeps DEF vars, store, worker
<1> QED
  BY <1>1, <1>3, <1>4, <1>5, <1>6, OperatorKeeps DEF Next, WorkerNext

(* So it is at the start, when nothing is under way.                       *)
LEMMA InitOInv == Init => OInv
BY DEF Init, StoreInit, WorkerInit, OperatorInit, OInv, Apart, HoldsAll, Holds, Good, Calm,
       OnlyLatest, ActiveRuns

(* The inductive invariant of the factory with one writer per task.        *)
LEMMA OwnedInvariance == ASSUME Owned PROVE Spec => []OInv
<1>1. Init => OInv
  BY InitOInv
<1>2. IInv /\ IdentInv /\ OInv /\ [Next]_vars => OInv'
  BY OwnedStep DEF IInv, IdentInv
<1> QED
  BY <1>1, <1>2, Invariance, IdentInvariance, PTL DEF Spec

(* With one writer per task, the history of every task ends in its status: *)
(* the row writes that bypass the history (SqliteTaskRepository.update in  *)
(* runtime.py _block and dispatch.py) put back the status they find.       *)
THEOREM HistoryProved ==
    ASSUME Owned
    PROVE  Spec => []HistoryMatchesStatus
<1>1. OInv => HistoryMatchesStatus
  BY DEF OInv, Good, HistoryMatchesStatus
<1> QED
  BY <1>1, OwnedInvariance, PTL

(* With one writer per task and a registry that keeps routing the tasks    *)
(* under way, the status of every task is explained by the other tables:   *)
(* by its history, and a task with an active run is CLAIMED or RUNNING     *)
(* (sqlite.py apply_transition, dispatch.py, tracking.py).                 *)
THEOREM StatusProved ==
    ASSUME Owned, "routing" \notin Faults
    PROVE  Spec => []StatusIsExplained
<1>1. OInv => StatusIsExplained
  BY DEF OInv, Good, Calm, Routed, StatusIsExplained, HistoryMatchesStatus,
         ActiveRunIsObservable
<1> QED
  BY <1>1, OwnedInvariance, PTL

(* With one writer per task, a run that ended keeps its status and gates   *)
(* (tracking.py refresh, run_sqlite.py update_run, which itself overwrites *)
(* whatever it finds).                                                     *)
THEOREM TerminalRunsProved ==
    ASSUME Owned
    PROVE  Spec => TerminalRunsImmutable
<1>1. ASSUME IInv, IdentInv, OInv, [Next]_vars
      PROVE  [\A t \in Task : \A i \in DOMAIN runs[t] :
                IsTerminal(runs[t][i]) => runs'[t][i] = runs[t][i]]_vars
  <2>1. OneFollows
    BY <1>1, OwnedStep DEF IInv, IdentInv
  <2> QED
    BY <2>1 DEF OneFollows, TaskStays, Follows
<1> QED
  BY <1>1, Invariance, IdentInvariance, OwnedInvariance, PTL DEF Spec, TerminalRunsImmutable

(* With one writer per task, every write of a task status by any process,  *)
(* the blind row updates included, is a step of the lifecycle graph or an  *)
(* audited recovery (sqlite.py, TaskMachine).                              *)
THEOREM LifecycleProved ==
    ASSUME Owned
    PROVE  Spec => LifecycleRefined
<1>1. Init => Machine!Init
  BY DEF Init, StoreInit, Machine!Init
<1>2. ASSUME IInv, IInv', IdentInv, OInv, [Next]_vars PROVE [Machine!Next]_status
  <2>1. OneFollows
    BY <1>2, OwnedStep DEF IInv, IdentInv
  <2>2. status \in [Task -> TaskStatus] /\ status' \in [Task -> TaskStatus]
    BY <1>2 DEF IInv, TypeOK, StoreTypeOK
  <2>3. ASSUME NEW t \in Task, TaskStays(t), Follows(t) PROVE [Machine!Next]_status
    <3>1. status' = [status EXCEPT ![t] = status'[t]]
      BY <2>2, <2>3 DEF TaskStays
    <3>2. CASE status'[t] = status[t]
      BY <2>2, <3>1, <3>2
    <3>3. CASE Machine!Edge(status[t], status'[t])
      <4>1. Machine!Move(t, status'[t]) /\ status'[t] \in Machine!TaskStatus
        BY <2>2, <3>1, <3>3 DEF Machine!Move, Machine!TaskStatus, TaskStatus
      <4> QED
        BY <4>1 DEF Machine!Next
    <3> QED
      BY <2>3, <3>2, <3>3 DEF Follows
  <2> QED
    BY <2>1, <2>3 DEF OneFollows
<1> QED
  BY <1>1, <1>2, Invariance, IdentInvariance, OwnedInvariance, PTL
     DEF Spec, LifecycleRefined, Machine!Spec

(* The tasks that hold a claim, and the room left for others. *)
Holders == {t \in Task : Occupies(t)}
Room == IsFiniteSet(Holders) /\ Cardinality(Holders) <= MaxActiveClaims

(* A step that occupies a claim only where there is room keeps the bound.  *)
LEMMA RoomStep ==
    ASSUME Room, ~ Backed, OneFollows
    PROVE  Room'
<1>0. MaxActiveClaims \in Nat
  BY StoreAssumption
<1>1. ASSUME Holders' \subseteq Holders PROVE Room'
  <2>1. IsFiniteSet(Holders') /\ Cardinality(Holders') <= Cardinality(Holders)
    BY <1>1, FS_Subset DEF Room
  <2>2. Cardinality(Holders) \in Nat /\ Cardinality(Holders') \in Nat
    BY <2>1, FS_CardinalityType DEF Room
  <2> QED
    BY <1>0, <2>1, <2>2 DEF Room
<1>2. CASE UNCHANGED <<status, runs>>
  BY <1>1, <1>2 DEF Holders, Occupies, ActiveRuns
<1>3. ASSUME NEW t \in Task, TaskStays(t), Follows(t) PROVE Room'
  <2>1. \A u \in Task \ {t} : Occupies(u)' <=> Occupies(u)
    BY <1>3 DEF TaskStays, Occupies, ActiveRuns
  <2>2. CASE Occupies(t) \/ ~ Occupies(t)'
    BY <1>1, <2>1, <2>2 DEF Holders
  <2>3. CASE IdleGuard(t) /\ Occupies(t)'
    <3> DEFINE others == {other \in Task \ {t} : Occupies(other)}
    <3>1. Holders' = others \union {t} /\ others \subseteq Holders /\ t \notin others
      BY <2>1, <2>3 DEF Holders
    <3>2. IsFiniteSet(others) /\ Cardinality(others) \in Nat
      BY <3>1, FS_Subset, FS_CardinalityType DEF Room
    <3>3. Cardinality(others) < MaxActiveClaims
      BY <2>3 DEF IdleGuard
    <3>4. IsFiniteSet(Holders') /\ Cardinality(Holders') = Cardinality(others) + 1
      BY <3>1, <3>2, FS_AddElement
    <3> QED
      BY <1>0, <3>2, <3>3, <3>4 DEF Room
  <2> QED
    BY <1>3, <2>2, <2>3 DEF Follows
<1> QED
  BY <1>2, <1>3 DEF OneFollows

(* With one writer per task and no command that sends a task back to       *)
(* VALIDATING, the tasks that hold a claim never outnumber                 *)
(* max_active_claims, across crashes, lost agents, recoveries and reworks  *)
(* (sqlite.py _apply_transition, the idle guard).                          *)
THEOREM ClaimBoundProved ==
    ASSUME Owned, ~ Backed
    PROVE  Spec => []ClaimBound
<1>1. Init => Room
  <2> SUFFICES ASSUME Init PROVE Room
    OBVIOUS
  <2>1. Holders = {}
    BY DEF Init, StoreInit, Holders, Occupies, ActiveRuns, BusyStatus
  <2> QED
    BY <2>1, FS_EmptySet, StoreAssumption DEF Room
<1>2. IInv /\ IdentInv /\ OInv /\ Room /\ [Next]_vars => Room'
  BY OwnedStep, RoomStep DEF IInv, IdentInv
<1>3. Room => ClaimBound
  BY DEF Room, Holders, ClaimBound
<1> QED
  BY <1>1, <1>2, <1>3, Invariance, IdentInvariance, OwnedInvariance, PTL DEF Spec

-----------------------------------------------------------------------------
(* What publication rests on.  With one writer per task a session drives,  *)
(* publishes and blocks for the latest run only, so that a task under      *)
(* review shows the run that was validated, and a failed publication can   *)
(* be repeated for it.                                                     *)

(* The run in hand is the latest run, as it is on record. *)
Mirrors(s, t) == /\ HasRun(t) /\ LatestRun(t).id = job[s].id
                 /\ LatestRun(t).status = job[s].status
                 /\ LatestRun(t).gates = job[s].gates

Reviewed(t) == /\ HasRun(t) /\ Publishable(LatestRun(t))
               /\ [ws |-> LatestRun(t).ws, run |-> LatestRun(t).id] \in prs[t]

(* The failed publication that the reason names is of the latest run. *)
Named(t) == /\ HasRun(t) /\ Publishable(LatestRun(t))
            /\ reason[t] = [kind |-> "publication", run |-> LatestRun(t).id]

Delivered(t) == Named(t) => PrForRun(t, LatestRun(t).id)

(* What a status asks of the other tables. *)
Asks(t, st) ==
    /\ st \in {"PR_OPEN", "WAITING_HUMAN"} => Reviewed(t)
    /\ st \in {"DISCOVERED", "READY", "CLAIMED", "CHANGES_REQUESTED"} => Delivered(t)

(* A failed publication names a validated run. *)
Validated(t, why) ==
    why.kind = "publication" =>
        \E i \in DOMAIN runs[t] : runs[t][i].id = why.run /\ Publishable(runs[t][i])

Sound(t) == Asks(t, status[t]) /\ Validated(t, reason[t])

Knows(s, t) ==
    /\ pc[s] = "claim" => status[t] = "READY"
    /\ pc[s] \in Saving => job[s].status # "SUCCEEDED"
    /\ pc[s] \in {"advance", "poll", "store"} => IsLatestRun(t, job[s].id)
    /\ pc[s] \in {"drive", "act", "publish", "persist", "open"} => Mirrors(s, t)
    /\ pc[s] = "persist" => Publishable(LatestRun(t))
    /\ pc[s] = "open" /\ status[t] = "VALIDATING" => Reviewed(t)
    /\ pc[s] = "note" => note[s].to \in {"BLOCKED", "FAILED", "CANCELLED"}
    /\ pc[s] \in {"block", "note"} => Validated(t, note[s].why)

(* VALIDATING is entered for a successful latest run, and a session leaves *)
(* a BLOCKED task alone.                                                   *)
Enters(t) ==
    /\ status[t] # "VALIDATING" /\ status'[t] = "VALIDATING" =>
          HasRun(t) /\ LatestRun(t).status = "SUCCEEDED"
    /\ status[t] = "BLOCKED" => status'[t] = "BLOCKED"

RecordsStay(t) == \A u \in Task \ {t} : prs'[u] = prs[u] /\ reason'[u] = reason[u]

KnowStep(s, t) == RecordsStay(t) /\ Knows(s, t)' /\ Sound(t)' /\ Enters(t)

(* A transition that keeps the other tables asks no more than the new      *)
(* status asks.                                                            *)
LEMMA SoundMoves ==
    ASSUME NEW t \in Task, Sound(t), UNCHANGED <<runs, prs, reason>>, Asks(t, status'[t])
    PROVE  Sound(t)' /\ RecordsStay(t)
BY DEF Sound, Asks, Validated, Reviewed, Delivered, Named, RecordsStay, HasRun, LatestRun,
       PrForRun

(* A transition to a status that asks nothing.                             *)
LEMMA AsksNothing ==
    ASSUME NEW t \in Task,
           NEW st \in {"RUNNING", "VALIDATING", "BLOCKED", "DONE", "FAILED", "CANCELLED"}
    PROVE  Asks(t, st)
BY DEF Asks

(* Where a transition ends.                                                *)
LEMMA TransitionEnds ==
    ASSUME TypeOK, NEW t \in Task, NEW target,
           \/ Transition(t, target) \/ \E source : ApplyTransition(t, source, target)
    PROVE  status'[t] = target
BY DEF TypeOK, StoreTypeOK, Transition, ApplyTransition, Record

(* _drive_task takes a task to VALIDATING on a successful run only.        *)
LEMMA DriveTaskEnds ==
    ASSUME TypeOK, NEW t \in Task, NEW row, DriveTask(t, row), status[t] \in BusyStatus,
           Sound(t), row.status = "SUCCEEDED" => HasRun(t) /\ LatestRun(t).status = "SUCCEEDED"
    PROVE  Asks(t, status'[t]) /\ Enters(t)
<1>0. status[t] # "BLOCKED"
  BY DEF BusyStatus
<1>1. CASE UNCHANGED status
  BY <1>1 DEF Sound, Enters
<1>2. CASE Transition(t, DriveTarget(t, row))
  <2>1. status'[t] = DriveTarget(t, row)
    BY <1>2, TransitionEnds
  <2>2. DriveTarget(t, row) \in {"VALIDATING", "CANCELLED", "BLOCKED", "FAILED"}
        /\ (DriveTarget(t, row) = "VALIDATING" => row.status = "SUCCEEDED")
    BY DEF DriveTarget
  <2> QED
    BY <1>0, <2>1, <2>2, AsksNothing DEF Enters
<1> QED
  BY <1>1, <1>2 DEF DriveTask

(* A session that gives its task up has nothing to know.                   *)
LEMMA LeaveKnows ==
    ASSUME TypeOK, NEW s \in Session, NEW t \in Task, Leave(s), UNCHANGED task
    PROVE  Knows(s, t)'
<1>1. pc'[s] = "idle"
  BY LeaveLocal
<1> QED
  BY <1>1 DEF Knows, Saving

(* A session takes a task up for its latest run (runtime.py).              *)
LEMMA SelectKnows ==
    ASSUME TypeOK, NEW s \in Session, NEW t \in Task, Select(s, t), Good(t), Sound(t)
    PROVE  KnowStep(s, t)
<1> USE DEF TypeOK, StoreTypeOK, WorkerTypeOK
<1>1. CASE Begin(s, t)
  <2>1. pc'[s] = "dispatch" /\ UNCHANGED <<runs, prs, reason>> /\ status'[t] = "READY"
    BY <1>1, TransitionEnds DEF Begin, Take, Goto
  <2>2. Asks(t, "READY") /\ status[t] # "BLOCKED"
    BY <1>1 DEF Begin, Sound, Asks
  <2> QED
    BY <2>1, <2>2, SoundMoves DEF KnowStep, Knows, Enters, Saving
<1>2. ASSUME UNCHANGED <<runs, prs, reason, pc>>, pc[s] = "idle", Asks(t, status'[t]), Enters(t)
      PROVE  KnowStep(s, t)
  BY <1>2, SoundMoves DEF KnowStep, Knows, Saving
<1>3. CASE CancelIneligible(s, t)
  <2>1. status'[t] = "CANCELLED" /\ status[t] # "BLOCKED"
    BY <1>3, TransitionEnds DEF CancelIneligible, Unstarted
  <2> QED
    BY <1>2, <1>3, <2>1, AsksNothing DEF CancelIneligible, At, Enters
<1>4. CASE RejectRouting(s, t)
  <2>1. /\ pc'[s] = "block" /\ UNCHANGED <<status, runs, prs, reason>>
        /\ note'[s] = [to |-> "BLOCKED", why |-> [kind |-> "routing", run |-> 0]]
    BY <1>4 DEF RejectRouting, BlockLater, Goto, store
  <2> QED
    BY <2>1, SoundMoves DEF KnowStep, Knows, Enters, Saving, Validated, Sound
<1>5. CASE Resume(s, t)
  <2>1. pc'[s] = "poll" /\ UNCHANGED <<status, runs, prs, reason>> /\ HasRun(t)
    BY <1>5 DEF Resume, Take, Goto, store
  <2>2. job'[s] = LatestRun(t)
    <3>1. CASE ActiveRuns(t) = {}
      BY <1>5, <3>1 DEF Resume
    <3>2. CASE ActiveRuns(t) # {}
      <4> DEFINE k == CHOOSE i \in ActiveRuns(t) : TRUE
      <4>1. job'[s] = runs[t][k] /\ k \in ActiveRuns(t)
        BY <1>5, <3>2 DEF Resume
      <4> QED
        BY <4>1 DEF Good, OnlyLatest, LatestRun
    <3> QED
      BY <3>1, <3>2
  <2>3. IsLatestRun(t, job[s].id)'
    BY <2>1, <2>2 DEF IsLatestRun, HasRun, LatestRun
  <2> QED
    BY <2>1, <2>3, SoundMoves DEF KnowStep, Knows, Enters, Saving, Sound
<1>6. CASE Reconcile(s, t)
  <2>1. Asks(t, status'[t]) /\ Enters(t)
    BY <1>6, DriveTaskEnds DEF Reconcile
  <2> QED
    BY <1>2, <1>6, <2>1 DEF Reconcile, At
<1>7. CASE ReviewMerged(s, t)
  <2>1. status'[t] = "DONE" /\ status[t] # "BLOCKED"
    BY <1>7, TransitionEnds DEF ReviewMerged, Reviewable
  <2> QED
    BY <1>2, <1>7, <2>1, AsksNothing DEF ReviewMerged, Reviewable, At, Enters
<1>8. CASE ReviewClosed(s, t)
  <2>1. status'[t] = "CANCELLED" /\ status[t] # "BLOCKED"
    BY <1>8, TransitionEnds DEF ReviewClosed, Reviewable
  <2>2. /\ pc'[s] = "note" /\ UNCHANGED <<runs, prs, reason>>
        /\ note'[s] = [to |-> "CANCELLED", why |-> [kind |-> "closed", run |-> 0]]
    BY <1>8 DEF ReviewClosed, Take, Goto
  <2> QED
    BY <2>1, <2>2, SoundMoves, AsksNothing DEF KnowStep, Knows, Enters, Saving, Validated
<1> QED
  BY <1>1, <1>3, <1>4, <1>5, <1>6, <1>7, <1>8 DEF Select

(* AgentRun.validation_outcome, spelled out.                               *)
LEMMA Outcomes ==
    ASSUME NEW row
    PROVE  /\ Publishable(row) <=> row.status = "SUCCEEDED" /\ row.gates # "red"
           /\ GatesFailed(row) <=> row.status = "SUCCEEDED" /\ row.gates = "red"
BY DEF Publishable, GatesFailed, ValidationOutcome

(* Dispatch starts nothing that was validated (dispatch.py).               *)
LEMMA DispatchKnows ==
    ASSUME TypeOK, NEW s \in Session, NEW t \in Task, t = task[s], DispatchStep(s),
           Holds(s, t), Knows(s, t), Sound(t)
    PROVE  KnowStep(s, t)
<1> USE DEF TypeOK, StoreTypeOK, WorkerTypeOK
<1>1. CASE BuildContext(s)
  <2>1. pc'[s] = "claim" /\ UNCHANGED <<status, runs, prs, reason>> /\ status[t] = "READY"
    BY <1>1 DEF BuildContext, Dispatchable, Goto, store
  <2> QED
    BY <2>1, SoundMoves DEF KnowStep, Knows, Enters, Saving, Sound
<1>2. CASE ContextFails(s)
  <2>1. /\ pc'[s] = "note" /\ UNCHANGED <<runs, prs, reason>> /\ status[t] = "READY"
        /\ note'[s] = [to |-> "BLOCKED", why |-> [kind |-> "context", run |-> 0]]
    BY <1>2 DEF ContextFails, Dispatchable, Goto
  <2>2. status'[t] = "BLOCKED"
    BY <1>2, TransitionEnds DEF ContextFails
  <2> QED
    BY <2>1, <2>2, SoundMoves, AsksNothing DEF KnowStep, Knows, Enters, Saving, Validated
<1>3. CASE DispatchRefused(s) \/ ClaimRefused(s) \/ ProvisionFails(s)
             \/ PersistRefused(s) \/ AdvanceRefused(s)
  <2>1. Leave(s) /\ UNCHANGED <<status, runs, prs, reason, task>>
    BY <1>3 DEF DispatchRefused, ClaimRefused, ProvisionFails, PersistRefused,
                AdvanceRefused, store
  <2> QED
    BY <2>1, LeaveKnows, SoundMoves DEF KnowStep, Enters, Sound
<1>4. CASE Unclaim(s)
  <2>1. Leave(s) /\ UNCHANGED <<runs, prs, reason, task>> /\ status[t] = "CLAIMED"
    BY <1>4 DEF Unclaim, At, Holds
  <2>2. status'[t] = "BLOCKED"
    BY <1>4, <2>1, TransitionEnds DEF Unclaim
  <2> QED
    BY <2>1, <2>2, LeaveKnows, SoundMoves, AsksNothing DEF KnowStep, Enters
<1>5. CASE Claim(s)
  <2>1. pc'[s] = "launch" /\ UNCHANGED <<runs, prs, reason>> /\ status[t] = "READY"
    BY <1>5 DEF Claim, At, Goto, Knows
  <2>2. status'[t] = "CLAIMED"
    BY <1>5, TransitionEnds DEF Claim
  <2>3. Asks(t, "CLAIMED")
    BY <2>1 DEF Sound, Asks
  <2> QED
    BY <2>1, <2>2, <2>3, SoundMoves DEF KnowStep, Knows, Enters, Saving
<1>6. ASSUME NEW a \in Attempt, Launches(s, a) PROVE KnowStep(s, t)
  <2>1. UNCHANGED <<status, runs, prs, reason>> /\ pc'[s] \in Saving
        /\ job'[s].status # "SUCCEEDED"
    BY <1>6, LaunchedRun DEF store
  <2> QED
    BY <2>1, SoundMoves DEF KnowStep, Knows, Enters, Saving, Sound
<1>7. CASE PersistRun(s)
  <2> DEFINE n == Len(runs[t]) + 1
  <2>1. /\ pc[s] \in Saving /\ job'[s] = job[s] /\ UNCHANGED <<status, reason, prs>>
        /\ pc'[s] \in {"advance", "unclaim"}
        /\ DOMAIN runs'[t] = DOMAIN runs[t] \union {n}
        /\ runs'[t][n] = job[s]
        /\ \A i \in DOMAIN runs[t] : runs'[t][i] = runs[t][i]
    BY <1>7, SavedRow
  <2>2. Len(runs'[t]) = n
    BY <1>7 DEF PersistRun, SaveRun
  <2>3. status[t] = "CLAIMED" /\ job[s].status # "SUCCEEDED"
    BY <2>1 DEF Holds, Knows, Saving
  <2> HIDE DEF n
  <2>4. LatestRun(t)' = job[s] /\ HasRun(t)'
    <3>1. n \in DOMAIN runs'[t]
      BY <2>1
    <3>2. runs'[t] # << >>
      BY <3>1
    <3> QED
      BY <2>1, <2>2, <3>2 DEF LatestRun, HasRun
  <2>5. ~ Publishable(job[s])
    BY <2>3, Outcomes
  <2>6. Asks(t, status[t])'
    BY <2>1, <2>3, <2>4, <2>5 DEF Asks, Delivered, Named
  <2>7. Validated(t, reason[t])'
    BY <2>1 DEF Sound, Validated
  <2>8. Knows(s, t)'
    BY <2>1, <2>4 DEF Knows, Saving, IsLatestRun
  <2> QED
    BY <2>1, <2>6, <2>7, <2>8 DEF KnowStep, Sound, RecordsStay, Enters
<1>8. CASE AdvanceToRunning(s)
  <2>1. /\ pc'[s] = "poll" /\ UNCHANGED <<runs, prs, reason>> /\ job'[s] = job[s]
        /\ pc[s] = "advance" /\ status[t] = "CLAIMED" /\ IsLatestRun(t, job[s].id)
    BY <1>8 DEF AdvanceToRunning, At, Goto, Holds, Knows
  <2>2. status'[t] = "RUNNING"
    BY <1>8, TransitionEnds DEF AdvanceToRunning
  <2>3. Knows(s, t)'
    BY <2>1 DEF Knows, Saving, IsLatestRun, HasRun, LatestRun
  <2> QED
    BY <2>1, <2>2, <2>3, SoundMoves, AsksNothing DEF KnowStep, Enters
<1> QED
  BY <1>1, <1>2, <1>3, <1>4, <1>5, <1>6, <1>7, <1>8 DEF DispatchStep, Launches

(* Publication records the latest run, validated, under its own branch     *)
(* (publication.py).                                                       *)
LEMMA PublicationKnows ==
    ASSUME TypeOK, WorkspacesKnown, NEW s \in Session, NEW t \in Task, t = task[s],
           PublicationStep(s), Knows(s, t), Sound(t)
    PROVE  KnowStep(s, t)
<1> USE DEF TypeOK, StoreTypeOK, WorkerTypeOK
<1>1. ASSUME UNCHANGED <<status, runs, prs, reason>>, Knows(s, t)' PROVE KnowStep(s, t)
  BY <1>1, SoundMoves DEF KnowStep, Enters, Sound
<1>2. ASSUME UNCHANGED runs, job'[s] = job[s], Mirrors(s, t) PROVE Mirrors(s, t)'
  BY <1>2 DEF Mirrors, HasRun, LatestRun
<1>3. ASSUME pc[s] \in {"publish", "persist"}, Mirrors(s, t)
      PROVE  [ws |-> LatestRun(t).ws, run |-> LatestRun(t).id] = PrOf(s)
  <2>1. Started(job[s])
    BY <1>3 DEF WorkspacesKnown, InHand
  <2>2. Started(LatestRun(t))
    BY <1>3 DEF WorkspacesKnown, Mirrors, HasRun, LatestRun
  <2> QED
    BY <1>3, <2>1, <2>2 DEF Started, Mirrors, PrOf
<1>4. CASE PublishRefused(s) \/ PublishFails(s)
  <2>1. UNCHANGED <<status, runs, prs, reason>> /\ pc'[s] = "pubfail"
    BY <1>4 DEF PublishRefused, PublishFails, InPublish, Goto
  <2> QED
    BY <1>1, <2>1 DEF Knows, Saving
<1>5. CASE SecurityBlocks(s)
  <2>1. /\ UNCHANGED <<status, runs, prs, reason>> /\ pc'[s] = "block"
        /\ note'[s] = [to |-> "BLOCKED", why |-> [kind |-> "security", run |-> 0]]
    BY <1>5 DEF SecurityBlocks, InPublish, BlockLater, Goto
  <2> QED
    BY <1>1, <2>1 DEF Knows, Saving, Validated
<1>6. CASE PublishExisting(s)
  <2>1. /\ UNCHANGED <<status, runs, prs, reason>> /\ pc'[s] = "open" /\ job'[s] = job[s]
        /\ pc[s] = "publish" /\ MayPublish(s) /\ (Published(s) \/ status[t] # "VALIDATING")
    BY <1>6 DEF PublishExisting, InPublish, Goto, At
  <2>2. Mirrors(s, t)
    BY <2>1 DEF Knows
  <2>3. CASE status[t] # "VALIDATING"
    BY <1>1, <1>2, <2>1, <2>2, <2>3 DEF Knows, Saving
  <2>4. CASE Published(s)
    <3>1. PICK pr \in prs[t] : pr.run = job[s].id
      BY <2>4 DEF Published, PrForRun
    <3>2. Started([id |-> pr.run, ws |-> pr.ws]) /\ Started(job[s])
      BY <2>1 DEF WorkspacesKnown, InHand
    <3>3. pr \in [ws : AttemptOrNone, run : AttemptOrNone]
      OBVIOUS
    <3>4. pr.ws = job[s].ws
      BY <3>1, <3>2 DEF Started
    <3>5. pr = PrOf(s)
      BY <3>1, <3>3, <3>4 DEF PrOf
    <3>6. Reviewed(t)
      BY <1>3, <2>1, <2>2, <3>5 DEF Reviewed, MayPublish, IsLatestRun
    <3>7. Reviewed(t)'
      BY <2>1, <3>6 DEF Reviewed, HasRun, LatestRun
    <3> QED
      BY <1>1, <1>2, <2>1, <2>2, <3>7 DEF Knows, Saving
  <2> QED
    BY <2>1, <2>3, <2>4
<1>7. CASE PublishRevision(s)
  <2>1. /\ UNCHANGED <<status, runs, reason>> /\ pc'[s] = "open" /\ job'[s] = job[s]
        /\ pc[s] = "publish" /\ MayPublish(s) /\ status[t] = "VALIDATING"
    BY <1>7 DEF PublishRevision, InPublish, Goto, At
  <2>2. PrOf(s) \in prs'[t] /\ \A u \in Task \ {t} : prs'[u] = prs[u]
    BY <1>7 DEF PublishRevision, PrOf
  <2>3. Mirrors(s, t)
    BY <2>1 DEF Knows
  <2>4. Reviewed(t)'
    BY <1>3, <2>1, <2>2, <2>3 DEF Reviewed, MayPublish, HasRun, LatestRun, IsLatestRun
  <2>5. Knows(s, t)'
    BY <1>2, <2>1, <2>3, <2>4 DEF Knows, Saving
  <2>6. Sound(t)'
    BY <2>1 DEF Sound, Asks, Validated
  <2> QED
    BY <2>1, <2>2, <2>5, <2>6 DEF KnowStep, RecordsStay, Enters
<1>8. CASE PublishNew(s)
  <2>1. /\ UNCHANGED <<status, runs, prs, reason>> /\ pc'[s] = "persist" /\ job'[s] = job[s]
        /\ pc[s] = "publish" /\ MayPublish(s)
    BY <1>8 DEF PublishNew, InPublish, Goto, At
  <2>2. Mirrors(s, t)' /\ Publishable(LatestRun(t))'
    BY <1>2, <2>1 DEF Knows, MayPublish, LatestRun
  <2> QED
    BY <1>1, <2>1, <2>2 DEF Knows, Saving
<1>9. CASE PersistPr(s)
  <2>1. /\ UNCHANGED <<status, runs, reason>> /\ job'[s] = job[s] /\ pc[s] = "persist"
        /\ Mirrors(s, t) /\ Publishable(LatestRun(t))
    BY <1>9 DEF PersistPr, At, Knows
  <2>2. CASE UNCHANGED prs /\ Goto(s, "pubfail")
    BY <1>1, <2>1, <2>2 DEF Knows, Saving, Goto
  <2>3. CASE /\ Goto(s, "open")
             /\ prs' = [prs EXCEPT ![t] = @ \union {PrOf(s)}]
    <3>1. /\ pc'[s] = "open" /\ prs'[t] = prs[t] \union {PrOf(s)}
          /\ \A u \in Task \ {t} : prs'[u] = prs[u]
      BY <2>3 DEF Goto
    <3>2. Reviewed(t)'
      BY <1>3, <2>1, <3>1 DEF Reviewed, HasRun, LatestRun, Mirrors
    <3>3. Knows(s, t)'
      BY <1>2, <2>1, <3>1, <3>2 DEF Knows, Saving
    <3>4. Delivered(t) => Delivered(t)'
      BY <2>1, <3>1 DEF Delivered, Named, PrForRun, HasRun, LatestRun
    <3>5. Sound(t)'
      BY <2>1, <3>2, <3>4 DEF Sound, Asks, Validated
    <3> QED
      BY <2>1, <3>1, <3>3, <3>5 DEF KnowStep, RecordsStay, Enters
  <2> QED
    BY <1>9, <2>2, <2>3 DEF PersistPr, PrOf
<1>10. CASE OpenPr(s)
  <2>1. UNCHANGED <<runs, prs, reason>> /\ pc'[s] = "await" /\ pc[s] = "open"
    BY <1>10 DEF OpenPr, Goto, At
  <2>2. Knows(s, t)'
    BY <2>1 DEF Knows, Saving
  <2>3. CASE status[t] = "VALIDATING"
    <3>1. status'[t] = "PR_OPEN"
      BY <1>10, <2>3, TransitionEnds DEF OpenPr
    <3>2. Asks(t, "PR_OPEN")
      BY <2>1, <2>3 DEF Knows, Asks
    <3> QED
      BY <2>1, <2>2, <2>3, <3>1, <3>2, SoundMoves DEF KnowStep, Enters
  <2>4. CASE status[t] # "VALIDATING"
    BY <1>1, <1>10, <2>1, <2>2, <2>4 DEF OpenPr
  <2> QED
    BY <2>3, <2>4
<1>11. CASE AwaitHuman(s)
  <2>1. UNCHANGED <<runs, prs, reason, task>> /\ Leave(s)
    BY <1>11 DEF AwaitHuman
  <2>2. CASE status[t] = "PR_OPEN"
    <3>1. status'[t] = "WAITING_HUMAN"
      BY <1>11, <2>2, TransitionEnds DEF AwaitHuman
    <3>2. Asks(t, "WAITING_HUMAN")
      BY <2>2 DEF Sound, Asks
    <3> QED
      BY <2>1, <2>2, <3>1, <3>2, LeaveKnows, SoundMoves DEF KnowStep, Enters
  <2>3. CASE status[t] # "PR_OPEN"
    BY <1>1, <1>11, <2>1, <2>3, LeaveKnows DEF AwaitHuman
  <2> QED
    BY <2>2, <2>3
<1>12. CASE BlockFailedPublication(s)
  <2>1. UNCHANGED <<status, runs, prs, reason, task>>
    BY <1>12 DEF BlockFailedPublication, store
  <2>2. CASE Leave(s)
    BY <1>1, <2>1, <2>2, LeaveKnows
  <2>3. CASE BlockLater(s, "publication", job[s].id) /\ MayPublish(s)
    <3>1. /\ pc'[s] = "block"
          /\ note'[s] = [to |-> "BLOCKED",
                         why |-> [kind |-> "publication", run |-> job[s].id]]
      BY <2>3 DEF BlockLater, Goto
    <3>2. Len(runs[t]) \in DOMAIN runs[t] /\ runs[t][Len(runs[t])].id = job[s].id
          /\ Publishable(runs[t][Len(runs[t])])
      BY <2>3 DEF MayPublish, IsLatestRun, HasRun, LatestRun
    <3>3. Validated(t, note[s].why)'
      BY <2>1, <3>1, <3>2 DEF Validated
    <3> QED
      BY <1>1, <2>1, <3>1, <3>3 DEF Knows, Saving
  <2> QED
    BY <1>12, <2>2, <2>3 DEF BlockFailedPublication
<1> QED
  BY <1>4, <1>5, <1>6, <1>7, <1>8, <1>9, <1>10, <1>11, <1>12 DEF PublicationStep

(* Tracking drives a task by its latest run, as it is on record, and a     *)
(* correction is never a validated run given up (tracking.py, runtime.py). *)
LEMMA TrackingKnows ==
    ASSUME TypeOK, RunsTracked, IdsUnique, NEW s \in Session, NEW t \in Task,
           t = task[s], TrackingStep(s), Good(t), Holds(s, t), Knows(s, t), Sound(t)
    PROVE  KnowStep(s, t)
<1> USE DEF TypeOK, StoreTypeOK, WorkerTypeOK
<1>1. ASSUME UNCHANGED <<status, runs, prs, reason>>, Knows(s, t)' PROVE KnowStep(s, t)
  BY <1>1, SoundMoves DEF KnowStep, Enters, Sound
<1>2. ASSUME UNCHANGED runs, job'[s] = job[s], Mirrors(s, t) PROVE Mirrors(s, t)'
  BY <1>2 DEF Mirrors, HasRun, LatestRun
<1>3. ASSUME At(s, "poll") PROVE HasRun(t) /\ StoredRow(s) = LatestRun(t)
  <2>1. PICK k \in DOMAIN runs[t] : runs[t][k] = StoredRow(s) /\ runs[t][k].id = job[s].id
    BY <1>3, StoredRowIs
  <2>2. HasRun(t) /\ LatestRun(t).id = job[s].id
    BY <1>3 DEF At, Knows, IsLatestRun
  <2>3. Len(runs[t]) \in DOMAIN runs[t]
    BY <2>1
  <2>4. runs[t][Len(runs[t])].id = runs[t][k].id
    BY <2>1, <2>2 DEF LatestRun
  <2>5. Len(runs[t]) = k
    <3>1. \A i, j \in DOMAIN runs[t] : runs[t][i].id = runs[t][j].id => i = j
      BY DEF IdsUnique
    <3> QED
      BY <2>3, <2>4, <3>1
  <2> QED
    BY <2>1, <2>2, <2>5 DEF LatestRun
<1>4. CASE CollectFails(s) \/ StoreRefused(s) \/ PollTimeout(s) \/ ActNothing(s)
           \/ BlockRefused(s)
  <2>1. Leave(s) /\ UNCHANGED <<status, runs, prs, reason, task>>
    BY <1>4 DEF CollectFails, StoreRefused, PollTimeout, ActNothing, Concerns,
                BlockRefused, store
  <2> QED
    BY <1>1, <2>1, LeaveKnows
<1>5. CASE Collect(s)
  <2>1. /\ pc'[s] = "store" /\ pc[s] = "poll" /\ UNCHANGED <<status, runs, prs, reason>>
    BY <1>5 DEF Collect, Goto, store, At
  <2>2. StoredRow(s) \in Row
    BY <1>5, StoredRowType DEF Collect
  <2>3. PICK verdict \in Gates : job' = [job EXCEPT ![s] =
           [StoredRow(s) EXCEPT !.status = Collected(StoredRow(s).id), !.gates = verdict]]
    BY <1>5, <2>2 DEF Collect, Gates, Row
  <2>4. job'[s] = [StoredRow(s) EXCEPT !.status = Collected(StoredRow(s).id), !.gates = verdict]
    BY <2>3
  <2>5. job'[s].id = StoredRow(s).id
    BY <2>2, <2>4 DEF Row
  <2>6. IsLatestRun(t, job[s].id)'
    BY <1>3, <2>1, <2>5 DEF At, IsLatestRun, HasRun, LatestRun
  <2> QED
    BY <1>1, <2>1, <2>6 DEF Knows, Saving
<1>6. CASE ObserveTerminal(s)
  <2>1. /\ pc'[s] \in {"drive", "act"} /\ pc[s] = "poll" /\ job'[s] = StoredRow(s)
        /\ UNCHANGED <<status, runs, prs, reason>>
    BY <1>6 DEF ObserveTerminal, Goto, store, At
  <2>2. Mirrors(s, t)'
    BY <1>3, <2>1 DEF At, Mirrors, HasRun, LatestRun
  <2> QED
    BY <1>1, <2>1, <2>2 DEF Knows, Saving
<1>7. CASE StoreRun(s)
  <2>1. PICK k \in RowOf(t, job[s].id) : UpdateRun(t, k, job[s])
    BY <1>7 DEF StoreRun
  <2>2. /\ pc'[s] = "drive" /\ pc[s] = "store" /\ UNCHANGED <<status, prs, reason>>
        /\ job'[s] = job[s]
    BY <1>7 DEF StoreRun, Goto, At
  <2>3. status[t] \in BusyStatus /\ k \in ActiveRuns(t) /\ k = Len(runs[t])
    BY <2>1, <2>2 DEF Holds, Good, OnlyLatest
  <2>4. /\ runs[t][k] \in Row /\ k \in DOMAIN runs[t] /\ runs[t][k].id = job[s].id
        /\ ~ IsTerminal(runs[t][k])
    BY <2>1, <2>3 DEF RowOf, ActiveRuns
  <2>5. /\ Updated(t, k, job[s]).status = job[s].status
        /\ Updated(t, k, job[s]).id = job[s].id
        /\ Updated(t, k, job[s]).gates = job[s].gates
    BY <2>4 DEF Updated, Row
  <2>6. /\ runs'[t][k] = Updated(t, k, job[s])
        /\ DOMAIN runs'[t] = DOMAIN runs[t] /\ Len(runs'[t]) = Len(runs[t])
        /\ \A j \in DOMAIN runs[t] : j # k => runs'[t][j] = runs[t][j]
    BY <2>1, <2>4 DEF UpdateRun
  <2>7. HasRun(t) /\ HasRun(t)' /\ LatestRun(t)' = Updated(t, k, job[s])
        /\ LatestRun(t) = runs[t][k]
    <3>1. runs[t] # << >> /\ runs'[t] # << >>
      BY <2>4, <2>6
    <3> QED
      BY <2>3, <2>6, <3>1 DEF HasRun, LatestRun
  <2>8. Mirrors(s, t)'
    BY <2>2, <2>5, <2>7 DEF Mirrors
  <2>9. ~ Publishable(runs[t][k])
    BY <2>4, Outcomes DEF IsTerminal
  <2>10. reason[t].kind = "publication" => reason[t].run # job[s].id
    <3>1. \A i \in DOMAIN runs[t] : runs[t][i].id = job[s].id => i = k
      BY <2>4 DEF IdsUnique
    <3> QED
      BY <2>9, <3>1 DEF Sound, Validated
  <2>11. ~ Named(t)'
    BY <2>2, <2>5, <2>7, <2>10 DEF Named
  <2>12. Asks(t, status[t])'
    <3>1. status[t] \notin {"PR_OPEN", "WAITING_HUMAN"}
      BY <2>7, <2>9 DEF Sound, Asks, Reviewed
    <3> QED
      BY <2>2, <2>11, <3>1 DEF Asks, Delivered
  <2>13. Validated(t, reason[t])'
    BY <2>2, <2>6, <2>9 DEF Sound, Validated
  <2> QED
    BY <2>2, <2>8, <2>12, <2>13 DEF KnowStep, Knows, Saving, Sound, RecordsStay, Enters
<1>8. CASE Drive(s)
  <2>1. /\ pc[s] = "drive" /\ pc'[s] \in {"act", "poll"} /\ job'[s] = job[s]
        /\ UNCHANGED <<runs, prs, reason>>
    BY <1>8 DEF Drive, Goto, At
  <2>2. Mirrors(s, t) /\ Mirrors(s, t)' /\ status[t] \in BusyStatus
    BY <1>2, <2>1 DEF Knows, Holds
  <2>3. Asks(t, status'[t]) /\ Enters(t)
    BY <1>8, <2>2, DriveTaskEnds DEF Drive, Mirrors
  <2>4. Knows(s, t)'
    BY <2>1, <2>2 DEF Knows, Saving, Mirrors, IsLatestRun
  <2> QED
    BY <2>1, <2>3, <2>4, SoundMoves DEF KnowStep
<1>9. CASE ActNotSuccessful(s)
  <2>1. UNCHANGED <<status, runs, prs, reason, task>>
    BY <1>9 DEF ActNotSuccessful, Concerns
  <2>2. CASE Leave(s)
    BY <1>1, <2>1, <2>2, LeaveKnows
  <2>3. CASE /\ Goto(s, "note")
             /\ note' = [note EXCEPT ![s] =
                  [to |-> "FAILED", why |-> [kind |-> "operational", run |-> 0]]]
    <3>1. /\ pc'[s] = "note"
          /\ note'[s] = [to |-> "FAILED", why |-> [kind |-> "operational", run |-> 0]]
      BY <2>3 DEF Goto
    <3> QED
      BY <1>1, <2>1, <3>1 DEF Knows, Saving, Validated
  <2> QED
    BY <1>9, <2>2, <2>3 DEF ActNotSuccessful
<1>10. CASE ActRequeue(s)
  <2>1. /\ Leave(s) /\ UNCHANGED <<runs, prs, reason, task>> /\ GatesFailed(job[s])
        /\ status[t] = "VALIDATING" /\ Mirrors(s, t)
    BY <1>10 DEF ActRequeue, Concerns, Knows, At
  <2>2. status'[t] = "READY"
    BY <1>10, TransitionEnds DEF ActRequeue
  <2>3. Asks(t, "READY")
    BY <2>1, Outcomes DEF Asks, Delivered, Named, Mirrors
  <2> QED
    BY <2>1, <2>2, <2>3, LeaveKnows, SoundMoves DEF KnowStep, Enters
<1>11. CASE ActBlock(s)
  <2>1. PICK kind \in {"correction", "operational"} :
          /\ pc'[s] = "block" /\ UNCHANGED <<status, runs, prs, reason>>
          /\ note'[s] = [to |-> "BLOCKED", why |-> [kind |-> kind, run |-> 0]]
    BY <1>11 DEF ActBlock, Concerns, BlockLater, Goto
  <2> QED
    BY <1>1, <2>1 DEF Knows, Saving, Validated
<1>12. CASE ActDone(s)
  <2>1. Leave(s) /\ UNCHANGED <<runs, prs, reason, task>>
    BY <1>12 DEF ActDone, Concerns
  <2>2. CASE status[t] = "VALIDATING"
    <3>1. status'[t] = "DONE"
      BY <1>12, <2>2, TransitionEnds DEF ActDone
    <3> QED
      BY <2>1, <2>2, <3>1, AsksNothing, LeaveKnows, SoundMoves DEF KnowStep, Enters
  <2>3. CASE status[t] # "VALIDATING"
    BY <1>1, <1>12, <2>1, <2>3, LeaveKnows DEF ActDone
  <2> QED
    BY <2>2, <2>3
<1>13. CASE ActPublish(s)
  <2>1. /\ pc'[s] = "publish" /\ pc[s] = "act" /\ job'[s] = job[s]
        /\ UNCHANGED <<status, runs, prs, reason>>
    BY <1>13 DEF ActPublish, Concerns, Goto, At
  <2>2. Mirrors(s, t)'
    BY <1>2, <2>1 DEF Knows
  <2> QED
    BY <1>1, <2>1, <2>2 DEF Knows, Saving
<1>14. CASE Block(s)
  <2>1. /\ pc'[s] = "note" /\ pc[s] = "block" /\ UNCHANGED <<runs, prs, reason>>
        /\ note'[s] = note[s] /\ note[s].to = "BLOCKED"
    BY <1>14 DEF Block, Goto, At, Holds
  <2>2. status'[t] = "BLOCKED"
    BY <1>14, TransitionEnds DEF Block
  <2>3. Validated(t, note[s].why)'
    BY <2>1 DEF Knows, Validated
  <2>4. Knows(s, t)'
    BY <2>1, <2>3 DEF Knows, Saving
  <2> QED
    BY <2>1, <2>2, <2>4, AsksNothing, SoundMoves DEF KnowStep, Enters
<1>15. CASE WriteNote(s)
  <2>1. /\ Leave(s) /\ UNCHANGED <<runs, prs, task>> /\ pc[s] = "note"
        /\ status[t] = note[s].to /\ note[s].to \in {"BLOCKED", "FAILED", "CANCELLED"}
        /\ Validated(t, note[s].why)
    BY <1>15 DEF WriteNote, At, Holds, Knows
  <2>2. /\ status' = status /\ reason'[t] = note[s].why
        /\ \A u \in Task \ {t} : reason'[u] = reason[u]
    BY <1>15, <2>1 DEF WriteNote, UpdateRow
  <2>3. Validated(t, reason[t])'
    BY <2>1, <2>2 DEF Validated
  <2>4. Asks(t, status[t])'
    BY <2>1, <2>2 DEF Asks
  <2> QED
    BY <2>1, <2>2, <2>3, <2>4, LeaveKnows DEF KnowStep, Sound, RecordsStay, Enters
<1> QED
  BY <1>4, <1>5, <1>6, <1>7, <1>8, <1>9, <1>10, <1>11, <1>12, <1>13, <1>14, <1>15
     DEF TrackingStep

(* What a retry under way knows of its task: the run it will publish again *)
(* is the validated one, or there is none to publish (retry.py).           *)
OpKnows(o, t) ==
    /\ otarget[o] = "VALIDATING" => HasRun(t) /\ Publishable(LatestRun(t))
    /\ otarget[o] = "READY" => Delivered(t)

KInv == /\ \A t \in Task : Sound(t)
        /\ \A s \in Session, t \in Task : task[s] = t => Knows(s, t)
        /\ \A o \in Operators, t \in Task :
              otask[o] = t /\ opc[o] # "idle" => OpKnows(o, t)

(* Validated work is kept in this step. *)
Settles(t) ==
    /\ status[t] # "VALIDATING" /\ status'[t] = "VALIDATING" =>
          HasRun(t) /\ LatestRun(t).status = "SUCCEEDED"
    /\ status[t] = "BLOCKED" /\ ~ Delivered(t) => status'[t] \in {"BLOCKED", "VALIDATING"}

Settled == \A t \in Task : Settles(t)

(* The tables of one task stay. *)
TablesStay(t) == /\ status'[t] = status[t] /\ runs'[t] = runs[t]
                 /\ prs'[t] = prs[t] /\ reason'[t] = reason[t]

(* What is known of a task stays true while its tables stay.               *)
LEMMA KnowledgeStays ==
    ASSUME NEW t \in Task, TablesStay(t)
    PROVE  /\ Sound(t) => Sound(t)'
           /\ Settles(t)
           /\ \A s \in Session : pc'[s] = pc[s] /\ job'[s] = job[s] /\ note'[s] = note[s]
                                 /\ Knows(s, t) => Knows(s, t)'
           /\ \A o \in Operators : otarget'[o] = otarget[o] /\ OpKnows(o, t) => OpKnows(o, t)'
<1> USE DEF TablesStay, HasRun, LatestRun, PrForRun
<1>1. /\ Named(t)' = Named(t) /\ Delivered(t)' = Delivered(t) /\ Reviewed(t)' = Reviewed(t)
      /\ Validated(t, reason[t])' = Validated(t, reason[t])
  BY DEF Named, Delivered, Reviewed, Validated
<1>2. Sound(t) => Sound(t)'
  BY <1>1 DEF Sound, Asks
<1>3. Settles(t)
  BY DEF Settles
<1>4. ASSUME NEW s \in Session, pc'[s] = pc[s], job'[s] = job[s], note'[s] = note[s], Knows(s, t)
      PROVE  Knows(s, t)'
  BY <1>1, <1>4 DEF Knows, Mirrors, IsLatestRun, Validated
<1>5. ASSUME NEW o \in Operators, otarget'[o] = otarget[o], OpKnows(o, t) PROVE OpKnows(o, t)'
  BY <1>1, <1>5 DEF OpKnows
<1> QED
  BY <1>2, <1>3, <1>4, <1>5

(* A session alone on its task leaves everybody else's knowledge true.     *)
LEMMA KnowStepKeeps ==
    ASSUME TypeOK, KInv, NEW s \in Session, NEW t \in Task, OwnStep(s, t),
           KnowStep(s, t), Alone(s, t), UNCHANGED operator
    PROVE  KInv' /\ Settled
<1> USE DEF TypeOK, WorkerTypeOK, OperatorTypeOK
<1>1. /\ Stay(s) /\ TaskStays(t) /\ (pc'[s] # "idle" => task'[s] = t) /\ RecordsStay(t)
      /\ Knows(s, t)' /\ Sound(t)' /\ Enters(t) /\ UNCHANGED <<opc, otask, otarget>>
  BY DEF OwnStep, KnowStep, operator
<1>2. \A u \in Task \ {t} : TablesStay(u)
  BY <1>1 DEF TaskStays, RecordsStay, TablesStay
<1>3. ASSUME NEW r \in Session, NEW u \in Task, task'[r] = u PROVE Knows(r, u)'
  <2>1. CASE pc'[r] = "idle"
    BY <2>1 DEF Knows, Saving
  <2>2. CASE r = s /\ pc'[r] # "idle"
    BY <1>1, <1>3, <2>2
  <2>3. CASE r # s /\ pc'[r] # "idle"
    <3>1. /\ pc'[r] = pc[r] /\ job'[r] = job[r] /\ note'[r] = note[r] /\ task[r] = u /\ u # t
      BY <1>1, <1>3, <2>3 DEF Stay, Alone
    <3>2. Knows(r, u)
      BY <3>1 DEF KInv
    <3> QED
      BY <1>2, <3>1, <3>2, KnowledgeStays
  <2> QED
    BY <2>1, <2>2, <2>3
<1>4. ASSUME NEW o \in Operators, NEW u \in Task, otask'[o] = u, opc'[o] # "idle"
      PROVE  OpKnows(o, u)'
  <2>1. u # t /\ OpKnows(o, u) /\ otarget'[o] = otarget[o]
    BY <1>1, <1>4 DEF Alone, KInv
  <2> QED
    BY <1>2, <2>1, KnowledgeStays
<1>5. ASSUME NEW u \in Task PROVE Sound(u)'
  BY <1>1, <1>2, KnowledgeStays DEF KInv
<1>6. ASSUME NEW u \in Task PROVE Settles(u)
  <2>1. CASE u = t
    BY <1>1, <2>1 DEF Enters, Settles
  <2>2. CASE u # t
    BY <1>2, <2>2, KnowledgeStays
  <2> QED
    BY <2>1, <2>2
<1> QED
  BY <1>3, <1>4, <1>5, <1>6 DEF KInv, Settled

(* A step that leaves the tables and the sessions alone.                   *)
LEMMA KnowFrame ==
    ASSUME TypeOK, KInv,
           UNCHANGED <<status, runs, prs, reason, pc, task, job, note, operator>>
    PROVE  KInv' /\ Settled
<1>1. \A t \in Task : TablesStay(t)
  BY DEF TablesStay
<1>2. ASSUME NEW s \in Session, NEW t \in Task, task'[s] = t PROVE Knows(s, t)'
  BY <1>1, <1>2, KnowledgeStays DEF KInv
<1>3. ASSUME NEW o \in Operators, NEW t \in Task, otask'[o] = t, opc'[o] # "idle"
      PROVE  OpKnows(o, t)'
  BY <1>1, <1>3, KnowledgeStays DEF KInv, operator
<1>4. ASSUME NEW t \in Task PROVE Sound(t)' /\ Settles(t)
  BY <1>1, KnowledgeStays DEF KInv
<1> QED
  BY <1>2, <1>3, <1>4 DEF KInv, Settled

(* An operator's write to a task that no session holds.                    *)
LEMMA CommandKnows ==
    ASSUME TypeOK, KInv, NEW t \in Task, UNCHANGED worker,
           \A s \in Session : pc[s] = "idle" \/ task[s] # t,
           \A u \in Task \ {t} : TablesStay(u),
           Sound(t)', Settles(t), UNCHANGED <<otask, otarget>>,
           \A o \in Operators : opc'[o] # "idle" => opc[o] # "idle",
           \A o \in Operators : opc[o] # "idle" /\ otask[o] = t => OpKnows(o, t)'
    PROVE  KInv' /\ Settled
<1> USE DEF TypeOK, WorkerTypeOK, OperatorTypeOK
<1>0. UNCHANGED <<pc, task, job, note>>
  BY DEF worker
<1>1. ASSUME NEW s \in Session, NEW u \in Task, task'[s] = u PROVE Knows(s, u)'
  <2>1. CASE pc'[s] = "idle"
    BY <2>1 DEF Knows, Saving
  <2>2. CASE pc'[s] # "idle"
    <3>1. u # t /\ Knows(s, u)
      BY <1>0, <1>1, <2>2 DEF KInv
    <3> QED
      BY <1>0, <3>1, KnowledgeStays
  <2> QED
    BY <2>1, <2>2
<1>2. ASSUME NEW o \in Operators, NEW u \in Task, otask'[o] = u, opc'[o] # "idle"
      PROVE  OpKnows(o, u)'
  <2>1. otask[o] = u /\ opc[o] # "idle" /\ otarget'[o] = otarget[o]
    BY <1>2
  <2>2. CASE u = t
    BY <2>1, <2>2
  <2>3. CASE u # t
    BY <2>1, <2>3, KnowledgeStays DEF KInv
  <2> QED
    BY <2>2, <2>3
<1>3. ASSUME NEW u \in Task PROVE Sound(u)' /\ Settles(u)
  BY KnowledgeStays DEF KInv
<1> QED
  BY <1>1, <1>2, <1>3 DEF KInv, Settled

(* No operator command gives a validated run up (retry.py, rework.py,      *)
(* terminal_recovery.py).                                                  *)
LEMMA OperatorKnows ==
    ASSUME TypeOK, Owned, OInv, KInv, OperatorNext
    PROVE  KInv' /\ Settled
<1> USE DEF TypeOK, StoreTypeOK, WorkerTypeOK, OperatorTypeOK
<1>0. UNCHANGED worker
  BY DEF OperatorNext
<1>1. ASSUME NEW t \in Task, Commanded(t), Commands # {}
      PROVE  \A s \in Session : pc[s] = "idle" \/ task[s] # t
  BY <1>1 DEF Commanded, Quiet, Owned
<1>2. ASSUME NEW t \in Task, \A s \in Session : pc[s] = "idle" \/ task[s] # t,
             \A u \in Task \ {t} : status'[u] = status[u],
             UNCHANGED <<runs, prs, reason, otask, otarget>>,
             \A o \in Operators : opc'[o] # "idle" => opc[o] # "idle",
             Asks(t, status'[t]), Settles(t)
      PROVE  KInv' /\ Settled
  <2>1. \A u \in Task \ {t} : TablesStay(u)
    BY <1>2 DEF TablesStay
  <2>2. Sound(t)'
    BY <1>2, SoundMoves DEF KInv
  <2>3. ASSUME NEW o \in Operators, opc[o] # "idle", otask[o] = t PROVE OpKnows(o, t)'
    BY <1>2, <2>3 DEF KInv, OpKnows, Delivered, Named, HasRun, LatestRun, PrForRun
  <2> QED
    BY <1>0, <1>2, <2>1, <2>2, <2>3, CommandKnows
<1>3. ASSUME NEW o \in Operators, NEW t \in Task, Commanded(t), RetryDecide(o, t)
      PROVE  KInv' /\ Settled
  <2>1. /\ UNCHANGED <<status, runs, prs, reason, pc, task, job, note>>
        /\ status[t] \in {"BLOCKED", "CLAIMED"}
    BY <1>0, <1>3 DEF RetryDecide, store, worker
  <2>2. \A p \in Operators \ {o} : /\ opc'[p] = opc[p] /\ otask'[p] = otask[p]
                                   /\ otarget'[p] = otarget[p]
    BY <1>3 DEF RetryDecide
  <2>3. /\ otask'[o] = t
        /\ otarget'[o] = IF IsPublicationRetry(t) THEN "VALIDATING" ELSE "READY"
    BY <1>3 DEF RetryDecide
  <2>4. \A u \in Task : TablesStay(u)
    BY <2>1 DEF TablesStay
  <2>5. Delivered(t)' = Delivered(t)
    BY <2>1 DEF Delivered, Named, HasRun, LatestRun, PrForRun
  <2>6. OpKnows(o, t)'
    <3>1. CASE IsPublicationRetry(t)
      BY <2>1, <2>3, <3>1 DEF OpKnows, IsPublicationRetry, HasRun, LatestRun
    <3>2. CASE ~ IsPublicationRetry(t)
      <4>1. Delivered(t)
        BY <2>1, <3>2 DEF IsPublicationRetry, Delivered, Named, KInv, Sound, Asks
      <4> QED
        BY <2>3, <2>5, <3>2, <4>1 DEF OpKnows
    <3> QED
      BY <3>1, <3>2
  <2>7. ASSUME NEW p \in Operators, NEW u \in Task, otask'[p] = u, opc'[p] # "idle"
        PROVE  OpKnows(p, u)'
    <3>1. CASE p = o
      BY <2>3, <2>6, <2>7, <3>1
    <3>2. CASE p # o
      BY <2>2, <2>4, <2>7, <3>2, KnowledgeStays DEF KInv
    <3> QED
      BY <3>1, <3>2
  <2>8. ASSUME NEW s \in Session, NEW u \in Task, task'[s] = u PROVE Knows(s, u)'
    BY <2>1, <2>4, <2>8, KnowledgeStays DEF KInv
  <2>9. ASSUME NEW u \in Task PROVE Sound(u)' /\ Settles(u)
    BY <2>4, KnowledgeStays DEF KInv
  <2> QED
    BY <2>7, <2>8, <2>9 DEF KInv, Settled
<1>4. ASSUME NEW o \in Operators, RetryUnclaim(o) \/ RetryApply(o) PROVE KInv' /\ Settled
  <2>1. PICK t \in Task : t = otask[o]
    OBVIOUS
  <2>2. /\ opc[o] # "idle" /\ UNCHANGED <<runs, prs, reason, otask, otarget>>
        /\ \A p \in Operators : opc'[p] # "idle" => opc[p] # "idle"
    BY <1>4 DEF RetryUnclaim, RetryApply
  <2>3. \A s \in Session : pc[s] = "idle" \/ task[s] # t
    BY <2>1, <2>2 DEF OInv, Apart
  <2>4. OpKnows(o, t)
    BY <2>1, <2>2 DEF KInv
  <2>5. CASE UNCHANGED status
    BY <1>2, <2>2, <2>3, <2>5 DEF KInv, Sound, Settles
  <2>6. CASE ApplyTransition(t, "CLAIMED", "BLOCKED")
    <3>1. status'[t] = "BLOCKED" /\ \A u \in Task \ {t} : status'[u] = status[u]
      BY <2>6 DEF ApplyTransition, Record
    <3> QED
      BY <1>2, <2>2, <2>3, <3>1, AsksNothing DEF Settles
  <2>7. CASE ApplyTransition(t, "BLOCKED", otarget[o])
    <3>1. status'[t] = otarget[o] /\ \A u \in Task \ {t} : status'[u] = status[u]
      BY <2>7 DEF ApplyTransition, Record
    <3>2. otarget[o] \in {"READY", "VALIDATING"}
      OBVIOUS
    <3>3. Asks(t, otarget[o])
      BY <2>4, <3>2 DEF Asks, OpKnows
    <3>4. Settles(t)
      BY <2>4, <3>1, <3>2, Outcomes DEF Settles, OpKnows
    <3> QED
      BY <1>2, <2>2, <2>3, <3>1, <3>3, <3>4
  <2> QED
    BY <1>4, <2>1, <2>5, <2>6, <2>7 DEF RetryUnclaim, RetryApply
<1>5. ASSUME NEW t \in Task, Commanded(t), RequestRework(t) PROVE KInv' /\ Settled
  <2>1. /\ UNCHANGED <<runs, prs, reason, opc, otask, otarget>> /\ Commands # {}
        /\ status[t] = "WAITING_HUMAN" /\ Record(t, "CHANGES_REQUESTED")
    BY <1>5 DEF RequestRework, operator
  <2>2. status'[t] = "CHANGES_REQUESTED" /\ \A u \in Task \ {t} : status'[u] = status[u]
    BY <2>1 DEF Record
  <2>3. Reviewed(t)
    BY <2>1 DEF KInv, Sound, Asks
  <2>4. PrForRun(t, LatestRun(t).id)
    <3>1. [ws |-> LatestRun(t).ws, run |-> LatestRun(t).id].run = LatestRun(t).id
      OBVIOUS
    <3> QED
      BY <2>3, <3>1 DEF Reviewed, PrForRun
  <2>5. Asks(t, "CHANGES_REQUESTED") /\ Settles(t)
    BY <2>1, <2>2, <2>4 DEF Asks, Delivered, Settles
  <2> QED
    BY <1>1, <1>2, <1>5, <2>1, <2>2, <2>5
<1>6. ASSUME NEW t \in Task, Commanded(t), OverrideSecurity(t) PROVE KInv' /\ Settled
  <2>1. /\ UNCHANGED <<runs, prs, reason, opc, otask, otarget>> /\ Commands # {}
        /\ HasRun(t) /\ Publishable(LatestRun(t)) /\ Transition(t, "VALIDATING")
    BY <1>6 DEF OverrideSecurity, operator
  <2>2. status'[t] = "VALIDATING" /\ \A u \in Task \ {t} : status'[u] = status[u]
    BY <2>1 DEF Transition, Record
  <2>3. Settles(t)
    BY <2>1, <2>2, Outcomes DEF Settles
  <2> QED
    BY <1>1, <1>2, <1>6, <2>1, <2>2, <2>3, AsksNothing
<1>7. ASSUME NEW t \in Task, \A s \in Session : pc[s] = "idle" \/ task[s] # t,
             status[t] \in {"FAILED", "RUNNING"}, Record(t, "BLOCKED"),
             UNCHANGED <<prs, operator>>, \A u \in Task \ {t} : runs'[u] = runs[u],
             NEW why, reason' = [reason EXCEPT ![t] = why], why.kind # "publication",
             \/ UNCHANGED runs
             \/ \A o \in Operators : opc[o] = "idle" \/ otask[o] # t
      PROVE  KInv' /\ Settled
  <2>1. status'[t] = "BLOCKED" /\ \A u \in Task \ {t} : status'[u] = status[u]
    BY <1>7 DEF Record
  <2>2. reason'[t] = why /\ \A u \in Task \ {t} : reason'[u] = reason[u]
    BY <1>7
  <2>3. \A u \in Task \ {t} : TablesStay(u)
    BY <1>7, <2>1, <2>2 DEF TablesStay
  <2>4. Sound(t)'
    BY <1>7, <2>1, <2>2 DEF Sound, Asks, Validated
  <2>5. Settles(t)
    BY <1>7, <2>1 DEF Settles
  <2>6. Delivered(t)'
    BY <1>7, <2>2 DEF Delivered, Named
  <2>7. ASSUME NEW o \in Operators, opc[o] # "idle", otask[o] = t PROVE OpKnows(o, t)'
    BY <1>7, <2>6, <2>7 DEF operator, OpKnows, KInv, HasRun, LatestRun
  <2> QED
    BY <1>0, <1>7, <2>3, <2>4, <2>5, <2>7, CommandKnows DEF operator
<1>8. ASSUME NEW t \in Task, NEW kind \in {"timeout", "worker"}, Commanded(t),
             AuthorizeTerminal(t, kind)
      PROVE  KInv' /\ Settled
  <2>1. /\ UNCHANGED <<runs, prs, operator>> /\ Commands # {} /\ status[t] = "FAILED"
        /\ Record(t, "BLOCKED")
        /\ reason' = [reason EXCEPT ![t] = [kind |-> kind, run |-> LatestRun(t).id]]
    BY <1>8 DEF AuthorizeTerminal
  <2>2. [kind |-> kind, run |-> LatestRun(t).id].kind # "publication"
    OBVIOUS
  <2> QED
    BY <1>1, <1>7, <1>8, <2>1, <2>2
<1>9. ASSUME NEW t \in Task, Commanded(t), AuthorizeOrphan(t) PROVE KInv' /\ Settled
  <2>1. /\ UNCHANGED <<prs, operator>> /\ Commands # {} /\ status[t] = "RUNNING"
        /\ Record(t, "BLOCKED") /\ HasRun(t) /\ LatestRun(t).status = "RUNNING"
        /\ reason' = [reason EXCEPT ![t] = [kind |-> "orphan", run |-> LatestRun(t).id]]
        /\ \A u \in Task \ {t} : runs'[u] = runs[u]
    BY <1>9 DEF AuthorizeOrphan
  <2>2. [kind |-> "orphan", run |-> LatestRun(t).id].kind # "publication"
    OBVIOUS
  <2>3. ActiveRuns(t) # {}
    BY <2>1 DEF HasRun, LatestRun, ActiveRuns, IsTerminal
  <2>4. \A o \in Operators : opc[o] = "idle" \/ otask[o] # t
    BY <2>3 DEF OInv, HoldsAll
  <2> QED
    BY <1>1, <1>7, <1>9, <2>1, <2>2, <2>4
<1> QED
  BY <1>3, <1>4, <1>5, <1>6, <1>8, <1>9
     DEF OperatorNext, RetryStep, RecoverTimeout, RecoverWorkerFailure, RecoverOrphan

(* Every step keeps what is known true, and validated work.                *)
LEMMA KnownStep ==
    ASSUME IInv, IdentInv, Owned, OInv, KInv, [Next]_vars
    PROVE  KInv' /\ Settled
<1> USE DEF TypeOK, WorkerTypeOK
<1>0. TypeOK /\ RunsTracked /\ ActiveRunsIsolated /\ IdsUnique /\ WorkspacesKnown
  BY DEF IInv, IdentInv
<1>1. ASSUME NEW s \in Session, NEW t \in Task, Selectable(t), Select(s, t), UNCHANGED operator
      PROVE  KInv' /\ Settled
  <2>1. Free(t)
    BY <1>1 DEF Select, Begin, CancelIneligible, RejectRouting, Resume, Reconcile,
                ReviewMerged, ReviewClosed, Reviewable, Take
  <2>2. Alone(s, t)
    BY <1>1, <2>1 DEF Free, Selectable, Owned, Alone, OInv, HoldsAll
  <2>3. Good(t) /\ Sound(t)
    BY DEF OInv, KInv
  <2> QED
    BY <1>0, <1>1, <2>2, <2>3, SelectOwn, SelectKnows, KnowStepKeeps
<1>2. ASSUME NEW s \in Session, pc[s] # "idle" PROVE Alone(s, task[s])
  BY <1>2 DEF OInv, Apart, Alone
<1>3. ASSUME NEW s \in Session, SessionStep(s), UNCHANGED operator PROVE KInv' /\ Settled
  <2>1. PICK t \in Task : t = task[s]
    BY <1>0
  <2>2. Good(t) /\ Holds(s, t) /\ Alone(s, t) /\ Knows(s, t) /\ Sound(t)
    BY <1>2, <1>3, <2>1, StepsAreBusy DEF OInv, HoldsAll, KInv
  <2>3. OwnStep(s, t)
    BY <1>0, <1>3, <2>1, <2>2, DispatchOwn, TrackingOwn, PublicationOwn DEF SessionStep
  <2>4. KnowStep(s, t)
    BY <1>0, <1>3, <2>1, <2>2, DispatchKnows, TrackingKnows, PublicationKnows DEF SessionStep
  <2> QED
    BY <1>0, <1>3, <2>2, <2>3, <2>4, KnowStepKeeps
<1>4. ASSUME NEW s \in Session, Crash(s), UNCHANGED operator PROVE KInv' /\ Settled
  <2>1. PICK t \in Task : t = task[s]
    BY <1>0
  <2>2. Good(t) /\ Alone(s, t) /\ Sound(t)
    BY <1>2, <1>4, <2>1 DEF OInv, Crash, KInv
  <2>3. Leave(s) /\ UNCHANGED <<status, hist, runs, prs, reason, task>>
    BY <1>4 DEF Crash, store
  <2>4. OwnStep(s, t)
    BY <1>0, <2>2, <2>3, LeaveOwn DEF StatusMoves
  <2>5. KnowStep(s, t)
    BY <1>0, <2>2, <2>3, LeaveKnows, SoundMoves DEF KnowStep, Enters, Sound
  <2> QED
    BY <1>0, <1>4, <2>2, <2>4, <2>5, KnowStepKeeps
<1>5. ASSUME NEW a \in Attempt, AgentStep(a), UNCHANGED operator PROVE KInv' /\ Settled
  BY <1>0, <1>5, KnowFrame DEF AgentStep, AgentEnds, AgentExpires, store
<1>6. CASE UNCHANGED vars
  BY <1>0, <1>6, KnowFrame DEF vars, store, worker
<1> QED
  BY <1>0, <1>1, <1>3, <1>4, <1>5, <1>6, OperatorKnows DEF Next, WorkerNext

(* At the start nothing is under way and nothing was validated.            *)
LEMMA InitKInv == Init => KInv
BY DEF Init, StoreInit, WorkerInit, OperatorInit, KInv, Sound, Asks, Delivered, Named,
       Validated, Knows, Saving, HasRun

(* The invariant behind publication.                                       *)
LEMMA KnownInvariance == ASSUME Owned PROVE Spec => []KInv
<1>1. Init => KInv
  BY InitKInv
<1>2. IInv /\ IdentInv /\ OInv /\ KInv /\ [Next]_vars => KInv'
  BY KnownStep
<1> QED
  BY <1>1, <1>2, Invariance, IdentInvariance, OwnedInvariance, PTL DEF Spec

(* ReviewedRunIsGreen for every instance with one writer per task: a human *)
(* is only asked to review the latest run of a task, which succeeded with  *)
(* green gates and is the one on record for its branch - whatever crashes, *)
(* fails to publish or is retried on the way (publication.py).             *)
THEOREM ReviewedProved == ASSUME Owned PROVE Spec => []ReviewedRunIsGreen
<1>1. KInv => ReviewedRunIsGreen
  BY DEF KInv, Sound, Asks, Reviewed, ReviewedRunIsGreen
<1> QED
  BY <1>1, KnownInvariance, PTL

(* ValidatedRunIsKept for every instance with one writer per task: no step *)
(* validates anything but a successful latest run, and none sends a task   *)
(* whose publication failed to a new agent (tracking.py, retry.py).        *)
THEOREM ValidatedProved == ASSUME Owned PROVE Spec => ValidatedRunIsKept
<1>1. Settled => ValidatesLatestRun /\ PublicationRetryKeepsRun
  BY DEF Settled, Settles, ValidatesLatestRun, PublicationRetryKeepsRun,
         IsPublicationRetry, Delivered, Named
<1>2. IInv /\ IdentInv /\ OInv /\ KInv /\ [Next]_vars
        => [ValidatesLatestRun /\ PublicationRetryKeepsRun]_vars
  BY <1>1, KnownStep
<1> QED
  BY <1>2, Invariance, IdentInvariance, OwnedInvariance, KnownInvariance, PTL
     DEF Spec, ValidatedRunIsKept

-----------------------------------------------------------------------------
(* The budget of attempts.  A task that may be given to an agent has room  *)
(* for one more failed run and one more correction; the correction limit   *)
(* only binds if an operator's retries cannot pass it.                     *)

Limited == "retry" \in Commands => RunRetryLimit <= CorrectionLimit + 1

(* The gate failures in a row up to the latest run, and up to the run      *)
(* before it.                                                              *)
Streak(t) == {i \in DOMAIN runs[t] : \A j \in i..Len(runs[t]) : GatesFailed(runs[t][j])}
Before(t) == {i \in DOMAIN runs[t] : /\ i < Len(runs[t])
                                     /\ \A j \in i..(Len(runs[t]) - 1) : GatesFailed(runs[t][j])}

Fresh(t) == /\ Cardinality(FailedRuns(t)) < RunRetryLimit
            /\ Cardinality(Streak(t)) <= CorrectionLimit

OpenStatus == {"DISCOVERED", "READY", "CHANGES_REQUESTED"}
Pending == {"claim", "launch"} \union Saving

Counts(t) ==
    /\ Cardinality(FailedRuns(t)) <= RunRetryLimit
    /\ HasRun(t) /\ LatestRun(t).status # "FAILED" => Cardinality(FailedRuns(t)) < RunRetryLimit
    /\ Cardinality(Streak(t)) <= CorrectionLimit + 1
    /\ ActiveRuns(t) # {} => Cardinality(Before(t)) <= CorrectionLimit
    /\ status[t] \in OpenStatus => Fresh(t)

CInv == /\ \A t \in Task : Counts(t)
        /\ \A s \in Session, t \in Task : task[s] = t /\ pc[s] \in Pending => Fresh(t)
        /\ \A o \in Operators, t \in Task : otask[o] = t /\ opc[o] # "idle" => Fresh(t)

(* A step of session s on task t keeps the budget. *)
CountStep(s, t) == Counts(t)' /\ (pc'[s] \in Pending => Fresh(t)')

(* A history of runs is finite, and so is every part of it.                *)
LEMMA RowsFinite ==
    ASSUME TypeOK, NEW t \in Task, NEW S \in SUBSET DOMAIN runs[t]
    PROVE  IsFiniteSet(S) /\ Cardinality(S) \in Nat
<1>1. DOMAIN runs[t] = 1..Len(runs[t]) /\ Len(runs[t]) \in Nat
  BY DEF TypeOK, StoreTypeOK
<1>2. IsFiniteSet(1..Len(runs[t]))
  BY <1>1, FS_Interval
<1>3. S \in SUBSET (1..Len(runs[t]))
  BY <1>1
<1>4. IsFiniteSet(S)
  BY <1>2, <1>3, FS_Subset
<1> QED
  BY <1>4, FS_CardinalityType

(* A part of one more element.                                             *)
LEMMA OneMore ==
    ASSUME NEW S, NEW T, NEW x, IsFiniteSet(S), T \subseteq S \union {x}
    PROVE  /\ IsFiniteSet(T) /\ Cardinality(T) <= Cardinality(S) + 1
           /\ Cardinality(T) \in Nat /\ Cardinality(S) \in Nat
<1>1. /\ IsFiniteSet(S \union {x})
      /\ Cardinality(S \union {x}) = IF x \in S THEN Cardinality(S) ELSE Cardinality(S) + 1
  BY FS_AddElement
<1>2. Cardinality(S) \in Nat
  BY FS_CardinalityType
<1>3. T \in SUBSET (S \union {x})
  OBVIOUS
<1>4. IsFiniteSet(T) /\ Cardinality(T) <= Cardinality(S \union {x})
  BY <1>1, <1>3, FS_Subset
<1>5. Cardinality(T) \in Nat
  BY <1>4, FS_CardinalityType
<1> QED
  BY <1>1, <1>2, <1>4, <1>5

(* The history of a task is all its counts depend on.                      *)
LEMMA CountsSame ==
    ASSUME NEW t \in Task, runs'[t] = runs[t]
    PROVE  /\ FailedRuns(t)' = FailedRuns(t) /\ Streak(t)' = Streak(t)
           /\ Before(t)' = Before(t) /\ (Fresh(t)' <=> Fresh(t))
           /\ HasRun(t)' = HasRun(t) /\ LatestRun(t)' = LatestRun(t)
           /\ ActiveRuns(t)' = ActiveRuns(t)
BY DEF FailedRuns, Streak, Before, Fresh, HasRun, LatestRun, ActiveRuns

(* A step that writes no run needs room where it opens the task again.     *)
LEMMA CountsMove ==
    ASSUME NEW t \in Task, runs'[t] = runs[t], Counts(t), status'[t] \in OpenStatus => Fresh(t)
    PROVE  Counts(t)'
BY CountsSame DEF Counts

(* The end of the active run uses up the room that its start found.        *)
LEMMA CountsEnd ==
    ASSUME TypeOK, TypeOK', NEW t \in Task, NEW k \in ActiveRuns(t), k = Len(runs[t]),
           DOMAIN runs'[t] = DOMAIN runs[t], Len(runs'[t]) = Len(runs[t]),
           \A j \in DOMAIN runs[t] : j # k => runs'[t][j] = runs[t][j],
           Counts(t), status'[t] \notin OpenStatus
    PROVE  Counts(t)'
<1>0. /\ k \in DOMAIN runs[t] /\ runs[t][k].status = "RUNNING" /\ HasRun(t)
      /\ LatestRun(t) = runs[t][k] /\ LatestRun(t)' = runs'[t][k]
      /\ DOMAIN runs[t] = 1..k /\ k \in Nat
  BY DEF ActiveRuns, IsTerminal, HasRun, LatestRun, TypeOK, StoreTypeOK
<1>1. /\ Cardinality(FailedRuns(t)) < RunRetryLimit
      /\ Cardinality(Before(t)) <= CorrectionLimit
  BY <1>0 DEF Counts
<1>2. Before(t)' = Before(t) /\ Streak(t)' \subseteq Before(t) \union {k}
  <2>1. ASSUME NEW i \in DOMAIN runs[t], i < k, NEW j \in i..(k - 1)
        PROVE  GatesFailed(runs'[t][j]) <=> GatesFailed(runs[t][j])
    <3>1. j \in DOMAIN runs[t] /\ j # k
      BY <1>0, <2>1
    <3> QED
      BY <3>1
  <2>2. Before(t) = {i \in DOMAIN runs[t] : i < k /\ \A j \in i..(k - 1) : GatesFailed(runs[t][j])}
    BY DEF Before
  <2>3. Before(t)' = {i \in DOMAIN runs[t] : i < k /\ \A j \in i..(k - 1) : GatesFailed(runs'[t][j])}
    BY DEF Before
  <2>4. Streak(t)' = {i \in DOMAIN runs[t] : \A j \in i..k : GatesFailed(runs'[t][j])}
    BY DEF Streak
  <2>5. Before(t)' = Before(t)
    BY <2>1, <2>2, <2>3
  <2>6. ASSUME NEW i \in Streak(t)', i # k PROVE i \in Before(t)'
    <3>1. i \in DOMAIN runs[t] /\ i < k /\ i..(k - 1) \subseteq i..k
      BY <1>0, <2>4, <2>6
    <3> QED
      BY <2>3, <2>4, <2>6, <3>1
  <2> QED
    BY <2>5, <2>6
<1>4. FailedRuns(t)' \subseteq FailedRuns(t) \union {k}
  BY <1>0 DEF FailedRuns
<1>5. runs'[t][k].status # "FAILED" => FailedRuns(t)' = FailedRuns(t)
  BY <1>0 DEF FailedRuns
<1>6. IsFiniteSet(FailedRuns(t)) /\ IsFiniteSet(Before(t))
  BY RowsFinite DEF FailedRuns, Before
<1>7. Cardinality(Streak(t)') <= CorrectionLimit + 1
  <2>1. /\ Cardinality(Streak(t)') <= Cardinality(Before(t)) + 1
        /\ Cardinality(Streak(t)') \in Nat /\ Cardinality(Before(t)) \in Nat
    BY <1>2, <1>6, OneMore
  <2> QED
    BY <1>1, <2>1, StoreAssumption
<1>8. Cardinality(FailedRuns(t)') <= RunRetryLimit
  <2>1. /\ Cardinality(FailedRuns(t)') <= Cardinality(FailedRuns(t)) + 1
        /\ Cardinality(FailedRuns(t)') \in Nat /\ Cardinality(FailedRuns(t)) \in Nat
    BY <1>4, <1>6, OneMore
  <2> QED
    BY <1>1, <2>1, StoreAssumption
<1> QED
  BY <1>0, <1>1, <1>2, <1>5, <1>7, <1>8 DEF Counts

(* A run row is written where there is room for it (dispatch.py).          *)
LEMMA CountsSave ==
    ASSUME TypeOK, NEW s \in Session, NEW t \in Task, t = task[s], PersistRun(s),
           Fresh(t), status[t] = "CLAIMED", job[s].status # "SUCCEEDED"
    PROVE  Counts(t)'
<1> DEFINE n == Len(runs[t]) + 1
<1>1. /\ UNCHANGED status
      /\ DOMAIN runs'[t] = DOMAIN runs[t] \union {n} /\ n \notin DOMAIN runs[t]
      /\ runs'[t][n] = job[s]
      /\ \A i \in DOMAIN runs[t] : runs'[t][i] = runs[t][i]
  BY SavedRow
<1> USE DEF TypeOK, StoreTypeOK, WorkerTypeOK
<1>2. Len(runs'[t]) = n
  BY DEF PersistRun, SaveRun
<1>3. DOMAIN runs[t] = 1..(n - 1) /\ n \in Nat \ {0} /\ Len(runs[t]) = n - 1
  OBVIOUS
<1> HIDE DEF n
<1>4. LatestRun(t)' = job[s]
  BY <1>1, <1>2 DEF LatestRun
<1>5. ~ GatesFailed(job[s])
  BY Outcomes
<1>6. Streak(t)' = {}
  <2>1. \A i \in DOMAIN runs'[t] : n \in i..n
    BY <1>1, <1>3
  <2> QED
    BY <1>1, <1>2, <1>5, <2>1 DEF Streak
<1>7. Before(t)' = Streak(t)
  <2>1. \A i \in DOMAIN runs[t] : i < n /\ i..(n - 1) \subseteq DOMAIN runs[t]
    BY <1>3
  <2>2. \A i \in DOMAIN runs[t] : \A j \in i..(n - 1) : runs'[t][j] = runs[t][j]
    BY <1>1, <2>1
  <2>3. Before(t)' = {i \in DOMAIN runs[t] : \A j \in i..(n - 1) : GatesFailed(runs'[t][j])}
    BY <1>1, <1>2, <1>3, <2>1 DEF Before
  <2>4. Streak(t) = {i \in DOMAIN runs[t] : \A j \in i..(n - 1) : GatesFailed(runs[t][j])}
    BY <1>3 DEF Streak
  <2>5. ASSUME NEW i \in DOMAIN runs[t]
        PROVE  (\A j \in i..(n - 1) : GatesFailed(runs'[t][j]))
                 <=> (\A j \in i..(n - 1) : GatesFailed(runs[t][j]))
    <3>1. ASSUME NEW j \in i..(n - 1) PROVE GatesFailed(runs'[t][j]) <=> GatesFailed(runs[t][j])
      BY <2>2
    <3> QED
      BY <3>1
  <2> QED
    BY <2>3, <2>4, <2>5
<1>8. FailedRuns(t)' \subseteq FailedRuns(t) \union {n}
  BY <1>1 DEF FailedRuns
<1>9. job[s].status # "FAILED" => FailedRuns(t)' = FailedRuns(t)
  BY <1>1 DEF FailedRuns
<1>10. IsFiniteSet(FailedRuns(t)) /\ Cardinality(FailedRuns(t)) \in Nat
  BY RowsFinite DEF FailedRuns
<1>11. Cardinality(FailedRuns(t)') <= RunRetryLimit
  <2>1. /\ Cardinality(FailedRuns(t)') <= Cardinality(FailedRuns(t)) + 1
        /\ Cardinality(FailedRuns(t)') \in Nat
    BY <1>8, <1>10, OneMore
  <2> QED
    BY <1>10, <2>1, StoreAssumption DEF Fresh
<1>12. Cardinality(Streak(t)') <= CorrectionLimit + 1
  BY <1>6, FS_EmptySet, StoreAssumption
<1>13. status'[t] \notin OpenStatus
  BY <1>1 DEF OpenStatus
<1> QED
  BY <1>4, <1>7, <1>9, <1>11, <1>12, <1>13 DEF Counts, Fresh

Planning == {"claim", "launch"}

(* Where the plan, the attempt to be saved and the result to be stored of  *)
(* session s come from.                                                    *)
PlanAt(s) ==
    /\ pc'[s] \in Planning => BuildContext(s) \/ Claim(s)
    /\ pc'[s] \in Saving => \E a \in Attempt : Launches(s, a)
    /\ pc'[s] = "store" => Collect(s)

(* Plans are made by dispatch, attempts by a start and results by collect  *)
(* alone (dispatch.py, tracking.py).                                       *)
LEMMA OwnPlans ==
    ASSUME TypeOK, NEW s \in Session,
           (\E t \in Task : Select(s, t)) \/ SessionStep(s) \/ Crash(s)
    PROVE  PlanAt(s)
<1> USE DEF TypeOK, WorkerTypeOK
<1> DEFINE Plain == {"idle", "dispatch", "advance", "unclaim", "poll", "drive", "act", "publish",
                     "persist", "open", "await", "pubfail", "block", "note"}
<1>0. ASSUME pc'[s] \in Plain PROVE PlanAt(s)
  BY <1>0 DEF PlanAt, Planning, Saving
<1>1. ASSUME NEW t \in Task, Select(s, t) PROVE pc'[s] \in Plain
  BY <1>1 DEF Select, Begin, CancelIneligible, RejectRouting, Resume, Reconcile,
              ReviewMerged, ReviewClosed, Reviewable, Take, BlockLater, Goto, At
<1>2. CASE Crash(s)
  BY <1>0, <1>2 DEF Crash, Leave, Goto
<1>3. CASE DispatchStep(s)
  <2>1. CASE BuildContext(s)
    BY <2>1 DEF PlanAt, BuildContext, Goto, Planning, Saving
  <2>2. CASE Claim(s)
    BY <2>2 DEF PlanAt, Claim, Goto, At, Planning, Saving
  <2>3. CASE \E a \in Attempt : Launches(s, a)
    BY <2>3, LaunchedRun DEF PlanAt, Planning, Saving
  <2>4. CASE \/ ContextFails(s) \/ DispatchRefused(s) \/ ClaimRefused(s)
             \/ ProvisionFails(s) \/ PersistRun(s) \/ PersistRefused(s)
             \/ AdvanceToRunning(s) \/ AdvanceRefused(s) \/ Unclaim(s)
    BY <1>0, <2>4
       DEF ContextFails, DispatchRefused, ClaimRefused, ProvisionFails, PersistRun,
           PersistRefused, AdvanceToRunning, AdvanceRefused, Unclaim, Leave, Goto
  <2> QED
    BY <1>3, <2>1, <2>2, <2>3, <2>4 DEF DispatchStep, Launches
<1>4. CASE TrackingStep(s)
  <2>1. CASE Collect(s)
    BY <2>1 DEF PlanAt, Collect, Goto, Planning, Saving
  <2>2. CASE TrackingStep(s) /\ ~ Collect(s)
    BY <1>0, <2>2
       DEF TrackingStep, CollectFails, ObserveTerminal, StoreRun, StoreRefused,
           Drive, PollTimeout, ActNotSuccessful, ActRequeue, ActBlock, ActNothing,
           ActDone, ActPublish, Concerns, Block, BlockRefused, WriteNote, BlockLater,
           Leave, Goto
  <2> QED
    BY <1>4, <2>1, <2>2
<1>5. CASE PublicationStep(s)
  BY <1>0, <1>5
     DEF PublicationStep, PublishRefused, SecurityBlocks, PublishFails, PublishExisting,
         PublishRevision, PublishNew, PersistPr, OpenPr, AwaitHuman,
         BlockFailedPublication, InPublish, BlockLater, Leave, Goto
<1> QED
  BY <1>0, <1>1, <1>2, <1>3, <1>4, <1>5 DEF SessionStep

(* The task is not opened to a new agent in this step. *)
Shut(t) == status'[t] = status[t] \/ status'[t] \notin OpenStatus

(* A transition ends where it says, or nothing happens.                    *)
LEMMA ShutTransition ==
    ASSUME TypeOK, NEW t \in Task, NEW target, target \notin OpenStatus,
           \/ Transition(t, target) \/ \E source : ApplyTransition(t, source, target)
    PROVE  Shut(t)
BY TransitionEnds DEF Shut

(* _drive_task opens nothing (tracking.py).                                *)
LEMMA ShutDrive ==
    ASSUME TypeOK, NEW t \in Task, NEW row, DriveTask(t, row)
    PROVE  Shut(t)
<1>1. DriveTarget(t, row) \notin OpenStatus
  BY DEF DriveTarget, OpenStatus
<1>2. CASE UNCHANGED status
  BY <1>2 DEF Shut
<1>3. CASE Transition(t, DriveTarget(t, row))
  BY <1>1, <1>3, ShutTransition
<1> QED
  BY <1>2, <1>3 DEF DriveTask

(* Only a correction opens a task that was not open (runtime.py).          *)
LEMMA OwnShuts ==
    ASSUME TypeOK, NEW s \in Session, NEW t \in Task,
           Select(s, t) \/ (t = task[s] /\ SessionStep(s) /\ Holds(s, t))
    PROVE  Shut(t) \/ status[t] \in OpenStatus \/ ActRequeue(s)
<1> USE DEF TypeOK, StoreTypeOK, WorkerTypeOK
<1>0. {"CANCELLED", "DONE", "CLAIMED", "BLOCKED", "RUNNING", "PR_OPEN", "WAITING_HUMAN"}
        \intersect OpenStatus = {}
  BY DEF OpenStatus
<1>1. ASSUME UNCHANGED status PROVE Shut(t)
  BY <1>1 DEF Shut
<1>2. ASSUME Select(s, t) PROVE Shut(t) \/ status[t] \in OpenStatus
  <2>1. CASE Begin(s, t)
    BY <2>1 DEF Begin, OpenStatus
  <2>2. CASE CancelIneligible(s, t) \/ ReviewMerged(s, t) \/ ReviewClosed(s, t)
    BY <1>0, <2>2, ShutTransition DEF CancelIneligible, ReviewMerged, ReviewClosed
  <2>3. CASE RejectRouting(s, t) \/ Resume(s, t)
    BY <1>1, <2>3 DEF RejectRouting, Resume, store
  <2>4. CASE Reconcile(s, t)
    BY <2>4, ShutDrive DEF Reconcile
  <2> QED
    BY <1>2, <2>1, <2>2, <2>3, <2>4 DEF Select
<1>3. ASSUME t = task[s], DispatchStep(s) PROVE Shut(t)
  <2>1. CASE ContextFails(s) \/ Claim(s) \/ AdvanceToRunning(s)
    BY <1>0, <1>3, <2>1, ShutTransition DEF ContextFails, Claim, AdvanceToRunning
  <2>2. CASE Unclaim(s)
    BY <1>0, <1>1, <1>3, <2>2, ShutTransition DEF Unclaim
  <2>3. CASE \E a \in Attempt : Launches(s, a)
    BY <1>1, <2>3, LaunchedRun DEF store
  <2>4. CASE \/ BuildContext(s) \/ DispatchRefused(s) \/ ClaimRefused(s)
             \/ ProvisionFails(s) \/ PersistRun(s) \/ PersistRefused(s) \/ AdvanceRefused(s)
    BY <1>1, <2>4
       DEF BuildContext, DispatchRefused, ClaimRefused, ProvisionFails, PersistRun,
           PersistRefused, AdvanceRefused, store
  <2> QED
    BY <1>3, <2>1, <2>2, <2>3, <2>4 DEF DispatchStep, Launches
<1>4. ASSUME t = task[s], Holds(s, t), TrackingStep(s), ~ ActRequeue(s) PROVE Shut(t)
  <2>1. CASE Drive(s)
    BY <1>4, <2>1, ShutDrive DEF Drive
  <2>2. CASE ActDone(s) \/ Block(s)
    BY <1>0, <1>1, <1>4, <2>2, ShutTransition DEF ActDone, Block
  <2>3. CASE WriteNote(s)
    BY <1>4, <2>3 DEF WriteNote, UpdateRow, At, Holds, Shut
  <2>4. CASE ~ (Drive(s) \/ ActDone(s) \/ Block(s) \/ WriteNote(s))
    BY <1>1, <1>4, <2>4
       DEF TrackingStep, Collect, CollectFails, ObserveTerminal, StoreRun, StoreRefused,
           PollTimeout, ActNotSuccessful, ActBlock, ActNothing, ActPublish, Concerns,
           BlockRefused, store
  <2> QED
    BY <2>1, <2>2, <2>3, <2>4
<1>5. ASSUME t = task[s], PublicationStep(s) PROVE Shut(t)
  <2>1. CASE OpenPr(s) \/ AwaitHuman(s)
    BY <1>0, <1>1, <1>5, <2>1, ShutTransition DEF OpenPr, AwaitHuman
  <2>2. CASE ~ (OpenPr(s) \/ AwaitHuman(s))
    BY <1>1, <1>5, <2>2
       DEF PublicationStep, PublishRefused, PublishFails, SecurityBlocks,
           PublishExisting, PublishRevision, PublishNew, PersistPr,
           BlockFailedPublication, InPublish, store
  <2> QED
    BY <2>1, <2>2
<1> QED
  BY <1>2, <1>3, <1>4, <1>5 DEF SessionStep

(* A session that takes up a task has none.                                *)
LEMMA SelectIdle ==
    ASSUME NEW s \in Session, NEW t \in Task, Select(s, t)
    PROVE  pc[s] = "idle"
BY DEF Select, Begin, CancelIneligible, RejectRouting, Resume, Reconcile, ReviewMerged,
       ReviewClosed, Reviewable, Take, At

(* An agent is only planned for a READY task (dispatch.py).                *)
LEMMA PendingFrom ==
    ASSUME TypeOK, NEW s \in Session, NEW t \in Task,
           Select(s, t) \/ (t = task[s] /\ SessionStep(s)), pc'[s] \in Pending
    PROVE  t = task[s] /\ (pc[s] \in Pending \/ status[t] = "READY")
<1>1. PlanAt(s)
  BY OwnPlans
<1>2. BuildContext(s) \/ Claim(s) \/ \E a \in Attempt : Launches(s, a)
  BY <1>1 DEF PlanAt, Pending, Planning
<1>3. \/ pc[s] \in Pending
      \/ pc[s] = "dispatch" /\ status[task[s]] = "READY"
  BY <1>2, LaunchedRun DEF BuildContext, Claim, At, Dispatchable, Pending
<1>4. pc[s] # "idle"
  BY <1>3 DEF Pending, Saving
<1> QED
  BY <1>3, <1>4, SelectIdle

(* A session spends an attempt only where there is room for its failure,   *)
(* and asks for a correction only below the limit (dispatch.py,            *)
(* runtime.py).                                                            *)
LEMMA OwnCounts ==
    ASSUME TypeOK, TypeOK', NEW s \in Session, NEW t \in Task, Good(t), Counts(t),
           \/ Select(s, t)
           \/ /\ t = task[s] /\ SessionStep(s) /\ Holds(s, t) /\ Knows(s, t)
              /\ pc[s] \in Pending => Fresh(t)
    PROVE  CountStep(s, t)
<1>0. ASSUME pc[s] # "idle"
      PROVE  /\ t = task[s] /\ SessionStep(s) /\ Holds(s, t) /\ Knows(s, t)
             /\ pc[s] \in Pending => Fresh(t)
  BY <1>0, SelectIdle
<1>1. CASE PersistRun(s)
  <2>1. pc[s] \in Saving /\ pc'[s] \in {"advance", "unclaim"}
    BY <1>1, SavedRow
  <2>2. t = task[s] /\ status[t] = "CLAIMED" /\ job[s].status # "SUCCEEDED" /\ Fresh(t)
    BY <1>0, <2>1 DEF Holds, Knows, Saving, Pending
  <2>3. pc'[s] \notin Pending
    BY <2>1 DEF Pending, Saving
  <2> QED
    BY <1>1, <2>2, <2>3, CountsSave DEF CountStep
<1>2. CASE StoreRun(s)
  <2>1. pc'[s] = "drive" /\ pc[s] = "store" /\ UNCHANGED status
    BY <1>2 DEF StoreRun, Goto, At, TypeOK, WorkerTypeOK
  <2>2. t = task[s] /\ Holds(s, t)
    BY <1>0, <2>1
  <2>3. PICK k \in RowOf(t, job[s].id) : UpdateRun(t, k, job[s])
    BY <1>2, <2>2 DEF StoreRun
  <2>4. status[t] \in BusyStatus /\ k \in ActiveRuns(t) /\ k = Len(runs[t])
    BY <2>1, <2>2, <2>3 DEF Holds, Good, OnlyLatest
  <2>5. /\ DOMAIN runs'[t] = DOMAIN runs[t] /\ Len(runs'[t]) = Len(runs[t])
        /\ \A j \in DOMAIN runs[t] : j # k => runs'[t][j] = runs[t][j]
    BY <2>3, <2>4 DEF UpdateRun, TypeOK, StoreTypeOK, ActiveRuns
  <2>6. BusyStatus \intersect OpenStatus = {} /\ pc'[s] \notin Pending
    BY <2>1 DEF OpenStatus, BusyStatus, Pending, Saving
  <2>7. Counts(t)'
    BY <2>1, <2>4, <2>5, <2>6, CountsEnd
  <2> QED
    BY <2>6, <2>7 DEF CountStep
<1>3. CASE UNCHANGED runs
  <2>1. ASSUME status'[t] \in OpenStatus PROVE Fresh(t)
    <3>1. CASE ActRequeue(s)
      <4>1. pc[s] = "act" /\ Cardinality(Streak(task[s])) <= CorrectionLimit /\ GatesFailed(job[s])
        BY <3>1 DEF ActRequeue, Concerns, At, GateFailureStreak, Streak
      <4>2. t = task[s] /\ Mirrors(s, t)
        BY <1>0, <4>1 DEF Knows
      <4>3. HasRun(t) /\ LatestRun(t).status # "FAILED"
        BY <4>1, <4>2, Outcomes DEF Mirrors
      <4> QED
        BY <4>1, <4>2, <4>3 DEF Counts, Fresh
    <3> QED
      BY <2>1, <3>1, OwnShuts DEF Shut, Counts
  <2>2. ASSUME pc'[s] \in Pending PROVE Fresh(t)
    <3>1. t = task[s] /\ (pc[s] \in Pending \/ status[t] = "READY")
      BY <2>2, PendingFrom
    <3>2. pc[s] \in Pending => pc[s] # "idle"
      BY DEF Pending, Saving
    <3> QED
      BY <1>0, <3>1, <3>2 DEF Counts, OpenStatus
  <2> QED
    BY <1>3, <2>1, <2>2, CountsMove, CountsSame DEF CountStep
<1> QED
  BY <1>1, <1>2, <1>3, OwnWrites

(* A session alone on its task spends nobody else's budget.                *)
LEMMA CountStepKeeps ==
    ASSUME TypeOK, CInv, NEW s \in Session, NEW t \in Task, OwnStep(s, t),
           CountStep(s, t), Alone(s, t), UNCHANGED operator
    PROVE  CInv'
<1> USE DEF TypeOK, WorkerTypeOK, OperatorTypeOK
<1>1. /\ Stay(s) /\ TaskStays(t) /\ (pc'[s] # "idle" => task'[s] = t)
      /\ Counts(t)' /\ (pc'[s] \in Pending => Fresh(t)') /\ UNCHANGED <<opc, otask>>
  BY DEF OwnStep, CountStep, operator
<1>2. ASSUME NEW u \in Task PROVE Counts(u)'
  <2>1. CASE u # t
    <3>1. runs'[u] = runs[u] /\ status'[u] = status[u] /\ Counts(u)
      BY <1>1, <2>1 DEF TaskStays, CInv
    <3> QED
      BY <3>1, CountsMove DEF Counts
  <2> QED
    BY <1>1, <2>1
<1>3. ASSUME NEW r \in Session, NEW u \in Task, task'[r] = u, pc'[r] \in Pending
      PROVE  Fresh(u)'
  <2>0. pc'[r] # "idle"
    BY <1>3 DEF Pending, Saving
  <2>1. CASE r = s
    BY <1>1, <1>3, <2>0, <2>1
  <2>2. CASE r # s
    <3>1. pc'[r] = pc[r] /\ task[r] = u /\ u # t
      BY <1>1, <1>3, <2>0, <2>2 DEF Stay, Alone
    <3>2. Fresh(u) /\ runs'[u] = runs[u]
      BY <1>1, <1>3, <3>1 DEF CInv, TaskStays
    <3> QED
      BY <3>2, CountsSame
  <2> QED
    BY <2>1, <2>2
<1>4. ASSUME NEW o \in Operators, NEW u \in Task, otask'[o] = u, opc'[o] # "idle"
      PROVE  Fresh(u)'
  <2>1. u # t /\ Fresh(u) /\ runs'[u] = runs[u]
    BY <1>1, <1>4 DEF Alone, CInv, TaskStays
  <2> QED
    BY <2>1, CountsSame
<1> QED
  BY <1>2, <1>3, <1>4 DEF CInv

(* A step that leaves the tables, the sessions and the retries alone.      *)
LEMMA CountFrame ==
    ASSUME CInv, UNCHANGED <<status, runs, pc, task, operator>>
    PROVE  CInv'
<1>1. ASSUME NEW t \in Task PROVE Counts(t)' /\ (Fresh(t)' <=> Fresh(t))
  BY CountsMove, CountsSame DEF CInv, Counts
<1>2. UNCHANGED <<opc, otask>>
  BY DEF operator
<1> QED
  BY <1>1, <1>2 DEF CInv

(* An operator's write to a task that no session holds.                    *)
LEMMA CommandCounts ==
    ASSUME TypeOK, CInv, NEW t \in Task, UNCHANGED worker,
           \A s \in Session : pc[s] = "idle" \/ task[s] # t,
           TaskStays(t), Counts(t)', UNCHANGED otask,
           \A o \in Operators : opc'[o] # "idle" => opc[o] # "idle",
           \A o \in Operators : opc[o] # "idle" /\ otask[o] = t => Fresh(t)'
    PROVE  CInv'
<1> USE DEF TypeOK, WorkerTypeOK, OperatorTypeOK
<1>0. UNCHANGED <<pc, task>>
  BY DEF worker
<1>1. ASSUME NEW u \in Task, u # t PROVE Counts(u)' /\ (Fresh(u)' <=> Fresh(u))
  <2>1. runs'[u] = runs[u] /\ status'[u] = status[u] /\ Counts(u)
    BY <1>1 DEF TaskStays, CInv
  <2> QED
    BY <2>1, CountsMove, CountsSame DEF Counts
<1>2. ASSUME NEW s \in Session, NEW u \in Task, task'[s] = u, pc'[s] \in Pending
      PROVE  Fresh(u)'
  <2>1. u # t /\ Fresh(u)
    BY <1>0, <1>2 DEF CInv, Pending, Saving
  <2> QED
    BY <1>1, <2>1
<1>3. ASSUME NEW o \in Operators, NEW u \in Task, otask'[o] = u, opc'[o] # "idle"
      PROVE  Fresh(u)'
  <2>1. otask[o] = u /\ opc[o] # "idle"
    BY <1>3
  <2>2. CASE u = t
    BY <2>1, <2>2
  <2>3. CASE u # t
    BY <1>1, <2>1, <2>3 DEF CInv
  <2> QED
    BY <2>2, <2>3
<1> QED
  BY <1>1, <1>2, <1>3 DEF CInv

(* Retries and recoveries are bounded by the runs on record (retry.py,     *)
(* terminal_recovery.py).                                                  *)
LEMMA OperatorCounts ==
    ASSUME TypeOK, TypeOK', Owned, Limited, OInv, KInv, CInv, OperatorNext
    PROVE  CInv'
<1> USE DEF TypeOK, StoreTypeOK, WorkerTypeOK, OperatorTypeOK
<1>0. UNCHANGED worker
  BY DEF OperatorNext
<1>1. ASSUME NEW t \in Task, Commanded(t), Commands # {}
      PROVE  \A s \in Session : pc[s] = "idle" \/ task[s] # t
  BY <1>1 DEF Commanded, Quiet, Owned
<1>2. ASSUME NEW t \in Task, \A s \in Session : pc[s] = "idle" \/ task[s] # t,
             TaskStays(t), UNCHANGED <<runs, otask>>,
             \A o \in Operators : opc'[o] # "idle" => opc[o] # "idle",
             status'[t] \in OpenStatus => Fresh(t)
      PROVE  CInv'
  <2>1. Counts(t)' /\ (Fresh(t)' <=> Fresh(t))
    BY <1>2, CountsMove, CountsSame DEF CInv
  <2>2. \A o \in Operators : opc[o] # "idle" /\ otask[o] = t => Fresh(t)'
    BY <2>1 DEF CInv
  <2> QED
    BY <1>0, <1>2, <2>1, <2>2, CommandCounts
<1>3. ASSUME NEW o \in Operators, NEW t \in Task, RetryDecide(o, t) PROVE CInv'
  <2>1. /\ UNCHANGED <<status, runs, pc, task>> /\ "retry" \in Commands
        /\ Cardinality(RetryableRuns(t)) < RunRetryLimit
    BY <1>0, <1>3 DEF RetryDecide, store, worker
  <2>2. \A p \in Operators \ {o} : opc'[p] = opc[p] /\ otask'[p] = otask[p]
    BY <1>3 DEF RetryDecide
  <2>3. otask'[o] = t
    BY <1>3 DEF RetryDecide
  <2>4. Fresh(t)
    <3>1. FailedRuns(t) \in SUBSET RetryableRuns(t)
      BY DEF RetryableRuns
    <3>2. Streak(t) \in SUBSET RetryableRuns(t)
      <4>1. \A i \in DOMAIN runs[t] : i \in i..Len(runs[t])
        OBVIOUS
      <4> QED
        BY <4>1 DEF Streak, RetryableRuns
    <3>3. IsFiniteSet(RetryableRuns(t)) /\ Cardinality(RetryableRuns(t)) \in Nat
      BY RowsFinite DEF RetryableRuns, FailedRuns
    <3>4. /\ Cardinality(FailedRuns(t)) <= Cardinality(RetryableRuns(t))
          /\ Cardinality(Streak(t)) <= Cardinality(RetryableRuns(t))
      BY <3>1, <3>2, <3>3, FS_Subset
    <3>5. Cardinality(FailedRuns(t)) \in Nat /\ Cardinality(Streak(t)) \in Nat
      BY RowsFinite DEF FailedRuns, Streak
    <3> QED
      BY <2>1, <3>3, <3>4, <3>5, StoreAssumption DEF Fresh, Limited
  <2>5. ASSUME NEW u \in Task PROVE Counts(u)' /\ (Fresh(u)' <=> Fresh(u))
    BY <2>1, CountsMove, CountsSame DEF CInv, Counts
  <2>6. ASSUME NEW p \in Operators, NEW u \in Task, otask'[p] = u, opc'[p] # "idle"
        PROVE  Fresh(u)'
    <3>1. CASE p = o
      BY <2>3, <2>4, <2>5, <2>6, <3>1
    <3>2. CASE p # o
      BY <2>2, <2>5, <2>6, <3>2 DEF CInv
    <3> QED
      BY <3>1, <3>2
  <2> QED
    BY <2>1, <2>5, <2>6 DEF CInv
<1>4. ASSUME NEW o \in Operators, RetryUnclaim(o) \/ RetryApply(o) PROVE CInv'
  <2>1. PICK t \in Task : t = otask[o]
    OBVIOUS
  <2>2. /\ opc[o] # "idle" /\ UNCHANGED <<runs, otask>>
        /\ \A p \in Operators : opc'[p] # "idle" => opc[p] # "idle"
    BY <1>4 DEF RetryUnclaim, RetryApply
  <2>3. \A s \in Session : pc[s] = "idle" \/ task[s] # t
    BY <2>1, <2>2 DEF OInv, Apart
  <2>4. Fresh(t)
    BY <2>1, <2>2 DEF CInv
  <2>5. TaskStays(t)
    BY <1>4, <2>1, <2>2
       DEF RetryUnclaim, RetryApply, ApplyTransition, Record, TaskStays
  <2> QED
    BY <1>2, <2>2, <2>3, <2>4, <2>5
<1>5. ASSUME NEW t \in Task, Commanded(t), RequestRework(t) PROVE CInv'
  <2>1. /\ UNCHANGED <<runs, opc, otask>> /\ Commands # {}
        /\ status[t] = "WAITING_HUMAN" /\ Record(t, "CHANGES_REQUESTED")
    BY <1>5 DEF RequestRework, operator
  <2>2. TaskStays(t)
    BY <2>1 DEF Record, TaskStays
  <2>3. HasRun(t) /\ Publishable(LatestRun(t))
    BY <2>1 DEF KInv, Sound, Asks, Reviewed
  <2>4. Cardinality(FailedRuns(t)) < RunRetryLimit
    BY <2>3, Outcomes DEF CInv, Counts
  <2>5. Streak(t) = {}
    <3>0. ~ GatesFailed(LatestRun(t)) /\ runs[t] # << >> /\ runs[t] \in Seq(Row)
      BY <2>3, Outcomes DEF HasRun
    <3>1. Len(runs[t]) \in DOMAIN runs[t] /\ ~ GatesFailed(runs[t][Len(runs[t])])
      BY <3>0 DEF LatestRun
    <3>2. \A i \in DOMAIN runs[t] : Len(runs[t]) \in i..Len(runs[t])
      OBVIOUS
    <3> QED
      BY <3>1, <3>2 DEF Streak
  <2>6. Fresh(t)
    BY <2>4, <2>5, FS_EmptySet, StoreAssumption DEF Fresh
  <2> QED
    BY <1>1, <1>2, <1>5, <2>1, <2>2, <2>6
<1>6. ASSUME NEW t \in Task, Commanded(t), OverrideSecurity(t) PROVE CInv'
  <2>1. /\ UNCHANGED <<runs, opc, otask>> /\ Commands # {} /\ Transition(t, "VALIDATING")
    BY <1>6 DEF OverrideSecurity, operator
  <2>2. TaskStays(t) /\ status'[t] = "VALIDATING"
    BY <2>1 DEF Transition, Record, TaskStays
  <2> QED
    BY <1>1, <1>2, <1>6, <2>1, <2>2 DEF OpenStatus
<1>7. ASSUME NEW t \in Task, NEW kind, Commanded(t), AuthorizeTerminal(t, kind) PROVE CInv'
  <2>1. /\ UNCHANGED <<runs, opc, otask>> /\ Commands # {} /\ Record(t, "BLOCKED")
    BY <1>7 DEF AuthorizeTerminal, operator
  <2>2. TaskStays(t) /\ status'[t] = "BLOCKED"
    BY <2>1 DEF Record, TaskStays
  <2> QED
    BY <1>1, <1>2, <1>7, <2>1, <2>2 DEF OpenStatus
<1>8. ASSUME NEW t \in Task, Commanded(t), AuthorizeOrphan(t) PROVE CInv'
  <2> DEFINE n == Len(runs[t])
  <2>1. /\ UNCHANGED <<opc, otask>> /\ Commands # {} /\ Record(t, "BLOCKED")
        /\ n \in DOMAIN runs[t] /\ runs[t][n].status = "RUNNING" /\ runs[t][n] \in Row
    BY <1>8 DEF AuthorizeOrphan, operator, HasRun, LatestRun
  <2>2. runs' = [runs EXCEPT ![t][n].status = "FAILED"]
    BY <1>8 DEF AuthorizeOrphan
  <2>3. /\ DOMAIN runs'[t] = DOMAIN runs[t] /\ Len(runs'[t]) = Len(runs[t])
        /\ \A j \in DOMAIN runs[t] : j # n => runs'[t][j] = runs[t][j]
        /\ \A u \in Task \ {t} : runs'[u] = runs[u]
    BY <2>1, <2>2
  <2>4. n \in ActiveRuns(t)
    BY <2>1 DEF ActiveRuns, IsTerminal
  <2>5. TaskStays(t) /\ status'[t] = "BLOCKED"
    BY <2>1, <2>3 DEF Record, TaskStays
  <2>6. Counts(t)'
    <3>1. status'[t] \notin OpenStatus /\ Counts(t)
      BY <2>5 DEF OpenStatus, CInv
    <3> QED
      BY <2>3, <2>4, <3>1, CountsEnd
  <2>7. \A o \in Operators : opc[o] = "idle" \/ otask[o] # t
    BY <2>4 DEF OInv, HoldsAll
  <2> QED
    BY <1>0, <1>1, <1>8, <2>1, <2>5, <2>6, <2>7, CommandCounts
<1> QED
  BY <1>3, <1>4, <1>5, <1>6, <1>7, <1>8
     DEF OperatorNext, RetryStep, RecoverTimeout, RecoverWorkerFailure, RecoverOrphan

(* Every step keeps the budget.                                            *)
LEMMA BudgetStep ==
    ASSUME IInv, IInv', IdentInv, Owned, Limited, OInv, KInv, CInv, [Next]_vars
    PROVE  CInv'
<1> USE DEF TypeOK, WorkerTypeOK
<1>0. TypeOK /\ RunsTracked /\ ActiveRunsIsolated /\ IdsUnique /\ TypeOK'
  BY DEF IInv, IdentInv
<1>1. ASSUME NEW s \in Session, NEW t \in Task, Selectable(t), Select(s, t), UNCHANGED operator
      PROVE  CInv'
  <2>1. Free(t)
    BY <1>1 DEF Select, Begin, CancelIneligible, RejectRouting, Resume, Reconcile,
                ReviewMerged, ReviewClosed, Reviewable, Take
  <2>2. Alone(s, t)
    BY <1>1, <2>1 DEF Free, Selectable, Owned, Alone, OInv, HoldsAll
  <2>3. Good(t) /\ Counts(t)
    BY DEF OInv, CInv
  <2> QED
    BY <1>0, <1>1, <2>2, <2>3, SelectOwn, OwnCounts, CountStepKeeps
<1>2. ASSUME NEW s \in Session, pc[s] # "idle" PROVE Alone(s, task[s])
  BY <1>2 DEF OInv, Apart, Alone
<1>3. ASSUME NEW s \in Session, SessionStep(s), UNCHANGED operator PROVE CInv'
  <2>1. PICK t \in Task : t = task[s]
    BY <1>0
  <2>2. /\ Good(t) /\ Holds(s, t) /\ Alone(s, t) /\ Knows(s, t) /\ Counts(t)
        /\ (pc[s] \in Pending => Fresh(t))
    BY <1>2, <1>3, <2>1, StepsAreBusy DEF OInv, HoldsAll, KInv, CInv
  <2>3. OwnStep(s, t)
    BY <1>0, <1>3, <2>1, <2>2, DispatchOwn, TrackingOwn, PublicationOwn DEF SessionStep
  <2>4. CountStep(s, t)
    BY <1>0, <1>3, <2>1, <2>2, OwnCounts
  <2> QED
    BY <1>0, <1>3, <2>2, <2>3, <2>4, CountStepKeeps
<1>4. ASSUME NEW s \in Session, Crash(s), UNCHANGED operator PROVE CInv'
  <2>1. PICK t \in Task : t = task[s]
    BY <1>0
  <2>2. Good(t) /\ Alone(s, t) /\ Counts(t)
    BY <1>2, <1>4, <2>1 DEF OInv, Crash, CInv
  <2>3. Leave(s) /\ UNCHANGED <<status, hist, runs, task>>
    BY <1>4 DEF Crash, store
  <2>4. OwnStep(s, t)
    BY <1>0, <2>2, <2>3, LeaveOwn DEF StatusMoves
  <2>5. CountStep(s, t)
    <3>1. pc'[s] \notin Pending
      BY <1>0, <2>3, LeaveLocal DEF Pending, Saving
    <3> QED
      BY <2>2, <2>3, <3>1, CountsMove DEF CountStep, Counts
  <2> QED
    BY <1>0, <1>4, <2>2, <2>4, <2>5, CountStepKeeps
<1>5. ASSUME NEW a \in Attempt, AgentStep(a), UNCHANGED operator PROVE CInv'
  BY <1>5, CountFrame DEF AgentStep, AgentEnds, AgentExpires, store
<1>6. CASE UNCHANGED vars
  BY <1>6, CountFrame DEF vars, store, worker
<1> QED
  BY <1>0, <1>1, <1>3, <1>4, <1>5, <1>6, OperatorCounts DEF Next, WorkerNext

(* At the start there is room for every attempt.                           *)
LEMMA InitCInv == Init => CInv
<1> SUFFICES ASSUME Init PROVE CInv
  OBVIOUS
<1>1. ASSUME NEW t \in Task PROVE Counts(t) /\ Fresh(t)
  <2>1. runs[t] = << >>
    BY DEF Init, StoreInit
  <2>2. DOMAIN runs[t] = {}
    BY <2>1
  <2>3. FailedRuns(t) = {} /\ Streak(t) = {} /\ ActiveRuns(t) = {} /\ ~ HasRun(t)
    BY <2>1, <2>2 DEF FailedRuns, Streak, ActiveRuns, HasRun
  <2> QED
    BY <2>3, FS_EmptySet, StoreAssumption DEF Counts, Fresh
<1> QED
  BY <1>1 DEF CInv

(* AttemptsBounded for every instance with one writer per task: no task    *)
(* passes run_retry_limit failed runs, nor correction_limit corrections in *)
(* a row - provided operator retries, which are only counted against       *)
(* run_retry_limit, cannot outnumber the corrections (retry.py,            *)
(* runtime.py).                                                            *)
THEOREM AttemptsProved == ASSUME Owned, Limited PROVE Spec => []AttemptsBounded
<1>1. Init => CInv
  BY InitCInv
<1>2. IInv /\ IInv' /\ IdentInv /\ OInv /\ KInv /\ CInv /\ [Next]_vars => CInv'
  BY BudgetStep
<1>3. CInv => AttemptsBounded
  BY DEF CInv, Counts, AttemptsBounded, FailedRunsBounded, CorrectionsBounded,
         GateFailureStreak, Streak
<1> QED
  BY <1>1, <1>2, <1>3, Invariance, IdentInvariance, OwnedInvariance, KnownInvariance, PTL
     DEF Spec

-----------------------------------------------------------------------------
(* The agents at work.  Every agent that lives has a task of its own: the  *)
(* task's active row names it, or the session that started it died or was  *)
(* refused before the row was written, and then the task stays where it is *)
(* for ever: no session may take it to an agent again.                     *)

(* A result or an attempt that is recorded as ended is one whose agent is  *)
(* not at work.                                                            *)
Ended(s) ==
    pc[s] \in Saving \union {"store"} /\ IsTerminal(job[s]) =>
        engine[job[s].id].st # "RUNNING"

(* The workspace planned for task t: none yet, or one of its own. *)
Proper(t, ws) == \E i \in DOMAIN runs[t] : runs[t][i].ws = ws
Plans(s, t) ==
    /\ pc[s] \in Planning => job[s].ws = 0 \/ Proper(t, job[s].ws)
    /\ pc[s] \in Saving => job[s].ws = job[s].id \/ Proper(t, job[s].ws)

(* A checkout belongs to one task, and was first made for a run of it. *)
Checkouts ==
    /\ \A t, u \in Task : \A i \in DOMAIN runs[t], j \in DOMAIN runs[u] :
          runs[t][i].ws = runs[u][j].ws => t = u
    /\ \A t \in Task : \A i \in DOMAIN runs[t] :
          \E j \in DOMAIN runs[t] : runs[t][j].id = runs[t][i].ws

WInv == /\ Checkouts
        /\ \A s \in Session : Ended(s)
        /\ \A s \in Session, t \in Task : task[s] = t => Plans(s, t)

(* Rows keep their place, id and workspace. *)
RootsKept ==
    \A t \in Task : \A i \in DOMAIN runs[t] :
        i \in DOMAIN runs'[t] /\ SameRun(runs'[t][i], runs[t][i])

(* So they do in every step (run_sqlite.py).                               *)
LEMMA NextRoots == ASSUME TypeOK, [Next]_vars PROVE RootsKept
<1>1. RunsStep
  BY NextRunsStep
<1>2. ASSUME NEW s \in Session, PersistRun(s) PROVE RootsKept
  <2>1. task[s] \in Task
    BY DEF TypeOK, WorkerTypeOK
  <2> QED
    BY <1>2, <2>1, SavedRow DEF RootsKept, SameRun
<1>3. CASE ~ \E s \in Session : PersistRun(s)
  BY <1>1, <1>3, RunsStepSame DEF RootsKept, RowsSame
<1> QED
  BY <1>2, <1>3

(* What a start leaves in hand: an attempt at work, or a failed one.       *)
LEMMA LaunchedPlan ==
    ASSUME TypeOK, NEW s \in Session, NEW a \in Attempt, Launches(s, a)
    PROVE  /\ job'[s].ws = (IF job[s].ws = 0 THEN a ELSE job[s].ws)
           /\ \/ /\ engine'[a].st = "RUNNING" /\ job'[s].status = "RUNNING" /\ pc'[s] = "save"
              \/ engine'[a].st = "ABSENT"
<1> DEFINE ws == IF job[s].ws = 0 THEN a ELSE job[s].ws
<1>1. ASSUME NEW st, NEW row, NEW step, Start(s, a, st, row, step)
      PROVE  /\ job'[s] = [id |-> a, ws |-> ws, status |-> row, gates |-> "none"]
             /\ engine'[a] = [st |-> st, ws |-> ws] /\ pc'[s] = step
  BY <1>1 DEF Start, Goto, TypeOK, WorkerTypeOK
<1> HIDE DEF ws
<1>2. CASE Launch(s, a)
  <2>1. /\ job'[s] = [id |-> a, ws |-> ws, status |-> "RUNNING", gates |-> "none"]
        /\ engine'[a] = [st |-> "RUNNING", ws |-> ws] /\ pc'[s] = "save"
    BY <1>1, <1>2 DEF Launch
  <2> QED
    BY <2>1 DEF ws
<1>3. CASE LaunchStillborn(s, a) \/ LaunchRaises(s, a)
  <2>1. /\ job'[s] = [id |-> a, ws |-> ws, status |-> "FAILED", gates |-> "none"]
        /\ engine'[a] = [st |-> "ABSENT", ws |-> ws]
    BY <1>1, <1>3 DEF LaunchStillborn, LaunchRaises
  <2> QED
    BY <2>1 DEF ws
<1> QED
  BY <1>2, <1>3 DEF Launches

(* An agent that ended does not come back to work. *)
AgentsEnd ==
    \A a \in Attempt : engine[a].st \notin {"none", "RUNNING"} => engine'[a].st # "RUNNING"

(* Attempts are started once (dispatch.py), and agents end once.           *)
LEMMA NextAgents == ASSUME TypeOK, [Next]_vars PROVE AgentsEnd
<1> USE DEF TypeOK, WorkerTypeOK
<1>1. CASE UNCHANGED engine
  BY <1>1 DEF AgentsEnd
<1>2. ASSUME NEW s \in Session, NEW a \in Attempt, Launches(s, a) PROVE AgentsEnd
  BY <1>2, LaunchedRun DEF AgentsEnd
<1>3. ASSUME NEW a \in Attempt, AgentStep(a) PROVE AgentsEnd
  <2>1. PICK st \in EngineState \ {"none", "RUNNING"} : engine' = [engine EXCEPT ![a].st = st]
    BY <1>3 DEF AgentStep, AgentEnds, AgentExpires, EngineState
  <2>2. engine'[a].st = st /\ \A b \in Attempt \ {a} : engine'[b] = engine[b]
    BY <2>1
  <2> QED
    BY <2>2 DEF AgentsEnd
<1> QED
  BY <1>1, <1>2, <1>3, EngineFrame DEF Next, WorkerNext, OperatorNext, vars, worker

(* At most session s moves in a step, and makes its plans as it may. *)
OnePlans ==
    \/ UNCHANGED <<pc, task, job>>
    \/ \E s \in Session : Stay(s) /\ PlanAt(s)

(* What is recorded as ended has ended (tracking.py, dispatch.py).         *)
LEMMA EndedStep ==
    ASSUME TypeOK, RunsTracked, WorkspacesKnown, WInv, [Next]_vars, OnePlans, NEW s \in Session
    PROVE  Ended(s)'
<1>1. ASSUME pc[s] \in Saving \union {"store"}, job'[s] = job[s] PROVE Ended(s)'
  <2> SUFFICES ASSUME IsTerminal(job[s]) PROVE engine'[job[s].id].st # "RUNNING"
    BY <1>1 DEF Ended, IsTerminal
  <2>1. engine[job[s].id].st # "RUNNING"
    BY <1>1 DEF WInv, Ended
  <2>2. Started(job[s])
    BY <1>1 DEF WorkspacesKnown, InHand
  <2> QED
    BY <2>1, <2>2, NextAgents DEF Started, AgentsEnd
<1>2. ASSUME NEW a \in Attempt, Launches(s, a) PROVE Ended(s)'
  <2>1. job'[s].id = a
    BY <1>2, LaunchedRun
  <2>2. \/ job'[s].status = "RUNNING"
        \/ engine'[a].st = "ABSENT"
    BY <1>2, LaunchedPlan
  <2> QED
    BY <2>1, <2>2 DEF Ended, IsTerminal
<1>3. CASE Collect(s)
  <2>1. StoredRow(s) \in Row /\ At(s, "poll") /\ UNCHANGED engine
    BY <1>3, StoredRowType DEF Collect
  <2>2. PICK verdict \in Gates : job' = [job EXCEPT ![s] =
           [StoredRow(s) EXCEPT !.status = Collected(StoredRow(s).id), !.gates = verdict]]
    BY <1>3, <2>1 DEF Collect, Gates, Row
  <2>3. job'[s] = [StoredRow(s) EXCEPT !.status = Collected(StoredRow(s).id), !.gates = verdict]
    BY <2>2 DEF TypeOK, WorkerTypeOK
  <2>4. job'[s].id = StoredRow(s).id /\ job'[s].status = Collected(StoredRow(s).id)
    BY <2>1, <2>3 DEF Row
  <2>5. Collected(job'[s].id) # "RUNNING" => engine[job'[s].id].st # "RUNNING"
    BY DEF Collected
  <2> QED
    BY <2>1, <2>4, <2>5 DEF Ended, IsTerminal
<1>4. CASE PlanAt(s)
  BY <1>1, <1>2, <1>3, <1>4 DEF PlanAt, Ended
<1>5. CASE pc'[s] = pc[s] /\ job'[s] = job[s]
  BY <1>1, <1>5 DEF Ended
<1> QED
  BY <1>4, <1>5 DEF OnePlans, Stay

(* A workspace is planned from the task's own runs (dispatch.py            *)
(* dispatch_rework).                                                       *)
LEMMA PlansStep ==
    ASSUME TypeOK, WInv, [Next]_vars, OnePlans, NEW s \in Session, NEW t \in Task,
           task'[s] = t
    PROVE  Plans(s, t)'
<1>0. ASSUME NEW u \in Task, NEW ws, Proper(u, ws) PROVE \E i \in DOMAIN runs'[u] : runs'[u][i].ws = ws
  BY <1>0, NextRoots DEF Proper, RootsKept, SameRun
<1>1. ASSUME pc'[s] \in Planning => pc[s] \in Planning,
             pc'[s] \in Saving => pc[s] \in Saving,
             job'[s] = job[s], task[s] = t
      PROVE  Plans(s, t)'
  <2>1. Plans(s, t)
    BY <1>1 DEF WInv
  <2> QED
    BY <1>0, <1>1, <2>1 DEF Plans, Proper
<1>2. ASSUME NEW a \in Attempt, Launches(s, a) PROVE Plans(s, t)'
  <2>1. task[s] = t /\ pc[s] = "launch" /\ pc'[s] \in Saving /\ job'[s].id = a
    BY <1>2, LaunchedRun
  <2>2. Plans(s, t)
    BY <2>1 DEF WInv
  <2>3. job'[s].ws = a \/ Proper(t, job'[s].ws)
    BY <1>2, <2>1, <2>2, LaunchedPlan DEF Plans, Planning
  <2>4. pc'[s] \notin Planning
    BY <2>1 DEF Saving, Planning
  <2> QED
    BY <1>0, <2>1, <2>3, <2>4 DEF Plans, Proper
<1>3. CASE BuildContext(s)
  <2>1. /\ task[s] = t /\ pc'[s] = "claim" /\ UNCHANGED runs
        /\ job'[s] = [NoRow EXCEPT !.ws = IF ReusesWorkspace(t) THEN LatestRun(t).ws ELSE 0]
    BY <1>3 DEF BuildContext, Goto, store, TypeOK, WorkerTypeOK
  <2>2. job'[s].ws = 0 \/ (HasRun(t) /\ job'[s].ws = LatestRun(t).ws)
    BY <2>1 DEF NoRow, ReusesWorkspace
  <2>3. HasRun(t) => Len(runs[t]) \in DOMAIN runs[t]
    BY DEF HasRun, TypeOK, StoreTypeOK
  <2>4. job'[s].ws = 0 \/ Proper(t, job'[s].ws)
    BY <2>2, <2>3 DEF Proper, LatestRun
  <2> QED
    BY <1>0, <2>1, <2>4 DEF Plans, Proper, Planning, Saving
<1>4. CASE PlanAt(s)
  <2>1. Planning \intersect Saving = {}
    BY DEF Planning, Saving
  <2>2. CASE pc'[s] \notin Planning \union Saving
    BY <2>2 DEF Plans
  <2>3. CASE Claim(s)
    <3>1. pc[s] \in Planning /\ pc'[s] \in Planning /\ UNCHANGED <<job, task>>
      BY <2>3 DEF Claim, At, Goto, Planning, TypeOK, WorkerTypeOK
    <3> QED
      BY <1>1, <2>1, <3>1
  <2> QED
    BY <1>2, <1>3, <1>4, <2>2, <2>3 DEF PlanAt
<1> QED
  BY <1>1, <1>4 DEF OnePlans, Stay

(* A new run works in a checkout of its own task (run_sqlite.py save_run). *)
LEMMA CheckoutsStep ==
    ASSUME TypeOK, WInv, [Next]_vars
    PROVE  Checkouts'
<1>1. CASE ~ \E s \in Session : PersistRun(s)
  <2>1. RowsSame
    BY <1>1, NextRunsStep, RunsStepSame
  <2> QED
    BY <2>1 DEF WInv, Checkouts, RowsSame, SameRun
<1>2. ASSUME NEW s \in Session, PersistRun(s) PROVE Checkouts'
  <2>1. PICK t \in Task : t = task[s]
    BY DEF TypeOK, WorkerTypeOK
  <2> DEFINE n == Len(runs[t]) + 1
  <2>2. /\ pc[s] \in Saving /\ DOMAIN runs'[t] = DOMAIN runs[t] \union {n}
        /\ runs'[t][n] = job[s] /\ \A i \in DOMAIN runs[t] : runs'[t][i] = runs[t][i]
        /\ \A u \in Task \ {t} : runs'[u] = runs[u]
    BY <1>2, <2>1, SavedRow
  <2>3. \A u \in Task \ {t} : \A j \in DOMAIN runs[u] : runs[u][j].ws # job[s].ws
    BY <1>2, <2>1 DEF PersistRun, CanSaveRun, OwnsWorkspace
  <2>4. Checkouts /\ Plans(s, t)
    BY <2>1 DEF WInv
  <2> HIDE DEF n
  <2>5. \A u, v \in Task : \A i \in DOMAIN runs'[u], j \in DOMAIN runs'[v] :
           runs'[u][i].ws = runs'[v][j].ws => u = v
    BY <2>2, <2>3, <2>4 DEF Checkouts
  <2>6. \E j \in DOMAIN runs'[t] : runs'[t][j].id = job[s].ws
    <3>1. CASE job[s].ws = job[s].id
      BY <2>2, <3>1
    <3>2. CASE Proper(t, job[s].ws)
      BY <2>2, <2>4, <3>2 DEF Proper, Checkouts
    <3> QED
      BY <2>2, <2>4, <3>1, <3>2 DEF Plans
  <2>7. \A u \in Task : \A i \in DOMAIN runs'[u] :
           \E j \in DOMAIN runs'[u] : runs'[u][j].id = runs'[u][i].ws
    <3> TAKE u \in Task
    <3> TAKE i \in DOMAIN runs'[u]
    <3>1. CASE u # t
      BY <2>2, <2>4, <3>1 DEF Checkouts
    <3>2. CASE u = t /\ i = n
      BY <2>2, <2>6, <3>2
    <3>3. CASE u = t /\ i # n
      <4>1. i \in DOMAIN runs[t] /\ runs'[t][i] = runs[t][i]
        BY <2>2, <3>3
      <4>2. PICK j \in DOMAIN runs[t] : runs[t][j].id = runs[t][i].ws
        BY <2>4, <4>1 DEF Checkouts
      <4> QED
        BY <2>2, <3>3, <4>1, <4>2
    <3> QED
      BY <3>1, <3>2, <3>3
  <2> QED
    BY <2>5, <2>7 DEF Checkouts
<1> QED
  BY <1>1, <1>2

(* The task t has no run, or its latest one asks for another: it failed    *)
(* its gates, or people asked for changes to it.                           *)
Held(t) == HasRun(t) => \/ GatesFailed(LatestRun(t))
                        \/ HasReworkFeedback(t) /\ LatestRun(t).status = "SUCCEEDED"

GInv == ~ Backed =>
    /\ \A t \in Task : status[t] \in OpenStatus => Held(t)
    /\ \A s \in Session, t \in Task : task[s] = t /\ pc[s] \in Pending => Held(t)

(* What is asked for depends on the runs and the requests only.            *)
LEMMA HeldSame ==
    ASSUME NEW t \in Task, runs'[t] = runs[t], rework'[t] = rework[t], Held(t)
    PROVE  Held(t)'
BY DEF Held, HasRun, LatestRun, HasReworkFeedback, GatesFailed, ValidationOutcome

(* The task of a session asks for an agent where it is opened or planned   *)
(* for one (dispatch.py, runtime.py).                                      *)
LEMMA OwnHeld ==
    ASSUME TypeOK, NEW s \in Session, NEW t \in Task,
           \/ Select(s, t)
           \/ /\ t = task[s] /\ SessionStep(s) /\ Holds(s, t) /\ Knows(s, t)
              /\ pc[s] \in Pending => Held(t),
           status[t] \in OpenStatus => Held(t)
    PROVE  (status'[t] \in OpenStatus => Held(t)') /\ (pc'[s] \in Pending => Held(t)')
<1>0. ASSUME pc[s] # "idle"
      PROVE  /\ t = task[s] /\ SessionStep(s) /\ Holds(s, t) /\ Knows(s, t)
             /\ pc[s] \in Pending => Held(t)
  BY <1>0, SelectIdle
<1>1. CASE PersistRun(s) \/ StoreRun(s)
  <2>1. /\ UNCHANGED status
        /\ \/ pc[s] \in Saving /\ pc'[s] \in {"advance", "unclaim"}
           \/ pc[s] = "store" /\ pc'[s] = "drive"
    BY <1>1, SavedRow DEF StoreRun, Goto, At, TypeOK, WorkerTypeOK
  <2>2. status[t] \in BusyStatus
    BY <1>0, <2>1 DEF Holds, Saving, BusyStatus
  <2> QED
    BY <2>1, <2>2 DEF BusyStatus, OpenStatus, Pending, Saving
<1>2. CASE UNCHANGED runs
  <2>1. ASSUME Held(t) PROVE Held(t)'
    BY <1>2, <2>1, OwnWrites, HeldSame
  <2>2. ASSUME status'[t] \in OpenStatus PROVE Held(t)
    <3>1. CASE ActRequeue(s)
      <4>1. pc[s] = "act" /\ GatesFailed(job[s])
        BY <3>1 DEF ActRequeue, Concerns, At
      <4>2. Mirrors(s, t)
        BY <1>0, <4>1 DEF Knows
      <4> QED
        BY <4>1, <4>2, Outcomes DEF Mirrors, Held
    <3> QED
      BY <2>2, <3>1, OwnShuts DEF Shut
  <2>3. ASSUME pc'[s] \in Pending PROVE Held(t)
    <3>1. t = task[s] /\ (pc[s] \in Pending \/ status[t] = "READY")
      BY <2>3, PendingFrom
    <3>2. pc[s] \in Pending => pc[s] # "idle"
      BY DEF Pending, Saving
    <3> QED
      BY <1>0, <3>1, <3>2 DEF OpenStatus
  <2> QED
    BY <2>1, <2>2, <2>3
<1> QED
  BY <1>1, <1>2, OwnWrites

(* A session alone on its task keeps the others' plans founded.            *)
LEMMA OwnHeldKeeps ==
    ASSUME TypeOK, GInv, NEW s \in Session, NEW t \in Task, OwnStep(s, t), Alone(s, t),
           UNCHANGED rework,
           ~ Backed => (status'[t] \in OpenStatus => Held(t)') /\ (pc'[s] \in Pending => Held(t)')
    PROVE  GInv'
<1> SUFFICES ASSUME ~ Backed
             PROVE  /\ \A u \in Task : status'[u] \in OpenStatus => Held(u)'
                    /\ \A r \in Session, u \in Task : task'[r] = u /\ pc'[r] \in Pending => Held(u)'
  BY DEF GInv
<1>1. Stay(s) /\ TaskStays(t) /\ (pc'[s] # "idle" => task'[s] = t)
  BY DEF OwnStep
<1>2. \A u \in Task \ {t} : Held(u) => Held(u)'
  BY <1>1, HeldSame DEF TaskStays
<1>3. ASSUME NEW u \in Task, status'[u] \in OpenStatus PROVE Held(u)'
  BY <1>1, <1>2, <1>3 DEF TaskStays, GInv
<1>4. ASSUME NEW r \in Session, NEW u \in Task, task'[r] = u, pc'[r] \in Pending
      PROVE  Held(u)'
  <2>0. pc'[r] # "idle"
    BY <1>4 DEF Pending, Saving
  <2>1. CASE r = s
    BY <1>1, <1>4, <2>0, <2>1
  <2>2. CASE r # s
    BY <1>1, <1>2, <1>4, <2>0, <2>2 DEF Stay, Alone, GInv
  <2> QED
    BY <2>1, <2>2
<1> QED
  BY <1>3, <1>4

(* Without retries and overrides an operator opens a task only by a        *)
(* request for changes to the run under review (rework.py).                *)
LEMMA OperatorHeld ==
    ASSUME TypeOK, Owned, OInv, GInv, OperatorNext
    PROVE  GInv'
<1> SUFFICES ASSUME ~ Backed
             PROVE  /\ \A u \in Task : status'[u] \in OpenStatus => Held(u)'
                    /\ \A r \in Session, u \in Task : task'[r] = u /\ pc'[r] \in Pending => Held(u)'
  BY DEF GInv
<1> USE DEF TypeOK, StoreTypeOK
<1>1. UNCHANGED <<pc, task>>
  BY DEF OperatorNext, worker
<1>2. ASSUME NEW o \in Operators PROVE ~ RetryStep(o)
  BY DEF RetryStep, RetryDecide, RetryUnclaim, RetryApply, OInv, HoldsAll, Backed
<1>3. ASSUME NEW t \in Task, RequestRework(t)
      PROVE  /\ \A u \in Task : status'[u] \in OpenStatus => Held(u)'
             /\ \A u \in Task : Held(u) => Held(u)'
  <2>1. /\ UNCHANGED runs /\ LatestRun(t).status = "SUCCEEDED"
        /\ \A u \in Task \ {t} : status'[u] = status[u] /\ rework'[u] = rework[u]
        /\ rework'[t] # {}
    BY <1>3 DEF RequestRework, Record
  <2>2. Held(t)'
    BY <2>1 DEF Held, HasReworkFeedback, LatestRun
  <2>3. \A u \in Task \ {t} : Held(u) => Held(u)'
    BY <2>1, HeldSame
  <2> QED
    BY <2>1, <2>2, <2>3 DEF GInv
<1>4. ASSUME NEW t \in Task, RecoverTimeout(t) \/ RecoverWorkerFailure(t)
      PROVE  /\ \A u \in Task : status'[u] \in OpenStatus => Held(u)'
             /\ \A u \in Task : Held(u) => Held(u)'
  <2>1. /\ UNCHANGED <<runs, rework>> /\ status' = [status EXCEPT ![t] = "BLOCKED"]
    BY <1>4 DEF RecoverTimeout, RecoverWorkerFailure, AuthorizeTerminal, Record
  <2> QED
    BY <2>1, HeldSame DEF GInv, OpenStatus
<1>5. ASSUME NEW t \in Task, RecoverOrphan(t), \A s \in Session : pc[s] = "idle" \/ task[s] # t
      PROVE  /\ \A u \in Task : status'[u] \in OpenStatus => Held(u)'
             /\ \A u \in Task \ {t} : Held(u) => Held(u)'
  <2>1. /\ UNCHANGED rework /\ status' = [status EXCEPT ![t] = "BLOCKED"]
        /\ \A u \in Task \ {t} : runs'[u] = runs[u]
    BY <1>5 DEF RecoverOrphan, AuthorizeOrphan, Record
  <2> QED
    BY <2>1, HeldSame DEF GInv, OpenStatus
<1>6. ASSUME NEW t \in Task, Commanded(t), RecoverOrphan(t)
      PROVE  \A s \in Session : pc[s] = "idle" \/ task[s] # t
  BY <1>6 DEF RecoverOrphan, AuthorizeOrphan, Owned, Commanded, Quiet
<1>7. ASSUME NEW t \in Task PROVE ~ OverrideSecurity(t)
  BY DEF OverrideSecurity, Backed
<1>8. ASSUME NEW t \in Task,
             \/ RequestRework(t) \/ RecoverTimeout(t) \/ RecoverWorkerFailure(t)
             \/ Commanded(t) /\ RecoverOrphan(t)
      PROVE  /\ \A u \in Task : status'[u] \in OpenStatus => Held(u)'
             /\ \A r \in Session, u \in Task : task'[r] = u /\ pc'[r] \in Pending => Held(u)'
  <2>1. \A r \in Session, u \in Task : task'[r] = u /\ pc'[r] \in Pending =>
           Held(u) /\ pc[r] # "idle" /\ task[r] = u
    BY <1>1 DEF GInv, Pending, Saving
  <2> QED
    BY <1>3, <1>4, <1>5, <1>6, <1>8, <2>1
<1>9. \/ \E o \in Operators : RetryStep(o)
      \/ \E t \in Task : OverrideSecurity(t)
      \/ \E t \in Task : \/ RequestRework(t) \/ RecoverTimeout(t) \/ RecoverWorkerFailure(t)
                         \/ Commanded(t) /\ RecoverOrphan(t)
  BY DEF OperatorNext
<1> QED
  BY <1>2, <1>7, <1>8, <1>9

(* An agent at work that no row tracks keeps its task from every other     *)
(* agent: the task is where no session takes it to an agent, and the       *)
(* sessions that have it are past that.                                    *)
Live == {a \in Attempt : engine[a].st = "RUNNING"}
OnRow(a, t) == \E i \in ActiveRuns(t) : runs[t][i].id = a

Later == {"idle", "poll", "drive", "act", "publish", "persist", "open", "await",
          "pubfail", "block", "note"}

Drifts(t) == status[t] \in {"CLAIMED", "BLOCKED", "CANCELLED"} /\ ActiveRuns(t) = {}
Rowless(a) == \A u \in Task : RowOf(u, a) = {}

Adrift(a, t) ==
    /\ Drifts(t) /\ Rowless(a)
    /\ \A o \in Operators : opc[o] = "idle" \/ otask[o] # t
    /\ \A s \in Session : task[s] = t =>
          pc[s] \in Later \/ (pc[s] = "save" /\ job[s].id = a)

(* A claim that nobody takes away: only a run that failed its gates can be *)
(* observed for it.                                                        *)
KeptAt(s, t) ==
    \/ pc[s] \in {"idle", "save"}
    \/ pc[s] \in {"poll", "drive", "act"} /\ HasRun(t) /\ GatesFailed(LatestRun(t))

Kept(t) == /\ status[t] = "CLAIMED" /\ Held(t)
           /\ \A s \in Session : task[s] = t => KeptAt(s, t)

(* A claim leads to RUNNING, BLOCKED and CANCELLED only (enums.py).        *)
LEMMA ClaimedEdges ==
    ASSUME NEW target, CanTransition("CLAIMED", target)
    PROVE  target \in {"RUNNING", "BLOCKED", "CANCELLED"}
BY DEF CanTransition, Transitions

(* _drive_task of a run that ended takes a claim nowhere else, and leaves  *)
(* it if the run succeeded (tracking.py).                                  *)
LEMMA DriftDrive ==
    ASSUME TypeOK, NEW t \in Task, NEW row, DriveTask(t, row), status[t] = "CLAIMED"
    PROVE  /\ status'[t] \in {"CLAIMED", "BLOCKED", "CANCELLED"}
           /\ row.status = "SUCCEEDED" => status'[t] = "CLAIMED"
<1> USE DEF TypeOK, StoreTypeOK
<1> DEFINE target == DriveTarget(t, row)
<1>1. target # "RUNNING" /\ target # "CLAIMED" /\ (row.status = "SUCCEEDED" => target = "VALIDATING")
  BY DEF DriveTarget
<1>2. CASE UNCHANGED status
  BY <1>2
<1>3. CASE Transition(t, target)
  <2>1. CanTransition("CLAIMED", target) /\ status' = [status EXCEPT ![t] = target]
    BY <1>1, <1>3 DEF Transition, Permitted, Record
  <2> QED
    BY <1>1, <2>1, ClaimedEdges
<1> QED
  BY <1>2, <1>3 DEF DriveTask

(* A session leaves such a task where it is, or blocks it (runtime.py,     *)
(* tracking.py, publication.py).                                           *)
LEMMA DriftStays ==
    ASSUME TypeOK, RunsTracked, NEW s \in Session, NEW t \in Task, Drifts(t),
           pc[s] \in Later \union {"save"}, ~ PersistRun(s),
           Select(s, t) \/ (t = task[s] /\ SessionStep(s) /\ Holds(s, t))
    PROVE  Drifts(t)' /\ pc'[s] \in Later /\ runs'[t] = runs[t]
<1> USE DEF TypeOK, StoreTypeOK, WorkerTypeOK
<1> DEFINE Still == status'[t] = status[t]
           To == status'[t] \in {"CLAIMED", "BLOCKED", "CANCELLED"}
<1>0. status[t] \in {"CLAIMED", "BLOCKED", "CANCELLED"} /\ ActiveRuns(t) = {}
  BY DEF Drifts
<1>1. UNCHANGED runs
  BY OwnWrites DEF StoreRun, At, Later
<1>2. ASSUME Select(s, t) PROVE To /\ pc'[s] \in Later
  <2>1. ~ Begin(s, t) /\ ~ CancelIneligible(s, t) /\ ~ ReviewMerged(s, t) /\ ~ ReviewClosed(s, t)
    BY <1>0 DEF Begin, CancelIneligible, Unstarted, ReviewMerged, ReviewClosed, Reviewable
  <2>2. CASE RejectRouting(s, t) \/ Resume(s, t)
    BY <1>0, <2>2 DEF RejectRouting, BlockLater, Resume, Take, Goto, store, Later
  <2>3. CASE Reconcile(s, t)
    BY <1>0, <2>3, DriftDrive DEF Reconcile, At, Later, BusyStatus
  <2> QED
    BY <1>2, <2>1, <2>2, <2>3 DEF Select
<1>3. ASSUME t = task[s], DispatchStep(s) PROVE To /\ pc'[s] \in Later
  <2>1. pc[s] \notin {"dispatch", "claim", "launch", "advance", "fail", "unclaim"}
    BY DEF Later
  <2>2. PersistRefused(s)
    BY <1>3, <2>1
       DEF DispatchStep, BuildContext, ContextFails, DispatchRefused, Claim, ClaimRefused,
           ProvisionFails, Launch, LaunchStillborn, LaunchRaises, Start, AdvanceToRunning,
           AdvanceRefused, Unclaim, At
  <2> QED
    BY <1>0, <2>2 DEF PersistRefused, Leave, Goto, store, Later
<1>4. ASSUME t = task[s], Holds(s, t), TrackingStep(s) PROVE To /\ pc'[s] \in Later
  <2>1. ~ Collect(s) /\ ~ StoreRun(s) /\ ~ StoreRefused(s)
    <3>1. ASSUME Collect(s) PROVE FALSE
      <4>1. At(s, "poll") /\ ~ IsTerminal(StoredRow(s))
        BY <3>1 DEF Collect
      <4>2. PICK i \in DOMAIN runs[t] : runs[t][i] = StoredRow(s)
        BY <1>4, <4>1, StoredRowIs
      <4>3. i \in ActiveRuns(t)
        BY <4>1, <4>2 DEF ActiveRuns
      <4> QED
        BY <1>0, <4>3
    <3> QED
      BY <3>1 DEF StoreRun, StoreRefused, At, Later
  <2>2. ~ ActRequeue(s) /\ ~ ActBlock(s)
    BY <1>0, <1>4 DEF ActRequeue, ActBlock
  <2>3. CASE Drive(s)
    <3>1. status[t] = "CLAIMED"
      BY <1>0, <1>4, <2>3 DEF Drive, At, Holds, BusyStatus
    <3> QED
      BY <1>4, <2>3, <3>1, DriftDrive DEF Drive, Goto, Later
  <2>4. CASE Block(s)
    BY <1>4, <2>4, TransitionEnds DEF Block, Goto, Later
  <2>5. CASE WriteNote(s)
    BY <1>0, <1>4, <2>5 DEF WriteNote, UpdateRow, At, Holds, Leave, Goto, Later
  <2>6. CASE \/ CollectFails(s) \/ ObserveTerminal(s) \/ PollTimeout(s) \/ ActNotSuccessful(s)
             \/ ActNothing(s) \/ ActPublish(s) \/ BlockRefused(s)
    BY <1>0, <1>4, <2>6
       DEF CollectFails, ObserveTerminal, PollTimeout, ActNotSuccessful, ActNothing,
           ActPublish, Concerns, BlockRefused, store, Leave, Goto, Later
  <2>7. CASE ActDone(s)
    BY <1>0, <1>4, <2>7 DEF ActDone, Concerns, Leave, Goto, Later
  <2> QED
    BY <1>4, <2>1, <2>2, <2>3, <2>4, <2>5, <2>6, <2>7 DEF TrackingStep
<1>5. ASSUME t = task[s], PublicationStep(s) PROVE To /\ pc'[s] \in Later
  BY <1>0, <1>5
     DEF PublicationStep, PublishRefused, SecurityBlocks, PublishFails, PublishExisting,
         PublishRevision, PublishNew, PersistPr, OpenPr, AwaitHuman,
         BlockFailedPublication, InPublish, BlockLater, Leave, Goto, store, Later
<1>6. To /\ pc'[s] \in Later
  BY <1>2, <1>3, <1>4, <1>5 DEF SessionStep
<1> QED
  BY <1>0, <1>1, <1>6 DEF Drifts, ActiveRuns

(* Where a session stands in saving, observing or acting says what it does *)
(* next.                                                                   *)
LEMMA StepsAt ==
    ASSUME NEW s \in Session, SessionStep(s)
    PROVE  /\ pc[s] = "save" => PersistRun(s) \/ PersistRefused(s)
           /\ pc[s] = "poll" => Collect(s) \/ CollectFails(s) \/ ObserveTerminal(s)
           /\ pc[s] = "drive" => Drive(s) \/ PollTimeout(s)
           /\ pc[s] = "act" =>
                 \/ ActNotSuccessful(s) \/ ActRequeue(s) \/ ActBlock(s) \/ ActNothing(s)
                 \/ ActDone(s) \/ ActPublish(s)
<1>1. CASE DispatchStep(s)
  BY <1>1
     DEF DispatchStep, BuildContext, ContextFails, DispatchRefused, Claim, ClaimRefused,
         ProvisionFails, Launch, LaunchStillborn, LaunchRaises, Start, PersistRun,
         PersistRefused, AdvanceToRunning, AdvanceRefused, Unclaim, At
<1>2. CASE TrackingStep(s)
  BY <1>2
     DEF TrackingStep, Collect, CollectFails, ObserveTerminal, StoreRun, StoreRefused,
         Drive, PollTimeout, ActNotSuccessful, ActRequeue, ActBlock, ActNothing, ActDone,
         ActPublish, Concerns, Block, BlockRefused, WriteNote, At
<1>3. CASE PublicationStep(s)
  BY <1>3
     DEF PublicationStep, PublishRefused, SecurityBlocks, PublishFails, PublishExisting,
         PublishRevision, PublishNew, PersistPr, OpenPr, AwaitHuman,
         BlockFailedPublication, InPublish, At
<1> QED
  BY <1>1, <1>2, <1>3 DEF SessionStep

(* As long as the registry routes it, a claim like this is kept: what can  *)
(* be observed for it succeeded, and that leads nowhere from CLAIMED.      *)
LEMMA KeptStays ==
    ASSUME TypeOK, ~ Routed, NEW s \in Session, NEW t \in Task, Drifts(t), status[t] = "CLAIMED",
           Held(t), KeptAt(s, t), ~ PersistRun(s), runs'[t] = runs[t], pc'[s] \in Later,
           Select(s, t) \/ (t = task[s] /\ SessionStep(s) /\ Holds(s, t) /\ Knows(s, t))
    PROVE  status'[t] = "CLAIMED" /\ KeptAt(s, t)'
<1> USE DEF TypeOK, StoreTypeOK, WorkerTypeOK
<1>0. /\ HasRun(t)' = HasRun(t) /\ LatestRun(t)' = LatestRun(t)
      /\ (HasRun(t) => LatestRun(t).status = "SUCCEEDED")
  BY Outcomes DEF HasRun, LatestRun, Held
<1>1. ASSUME Select(s, t) PROVE status'[t] = "CLAIMED" /\ KeptAt(s, t)'
  <2>1. ~ Begin(s, t) /\ ~ CancelIneligible(s, t) /\ ~ ReviewMerged(s, t) /\ ~ ReviewClosed(s, t)
        /\ ~ RejectRouting(s, t)
    BY DEF Begin, CancelIneligible, Unstarted, ReviewMerged, ReviewClosed, Reviewable,
           RejectRouting, Fault, Routed
  <2>2. CASE Resume(s, t)
    <3>1. HasRun(t) /\ ~ HasReworkFeedback(t) /\ pc'[s] = "poll" /\ UNCHANGED status
      BY <2>2 DEF Resume, Take, Goto, store, Drifts
    <3> QED
      BY <1>0, <3>1 DEF Held, KeptAt, GatesFailed, ValidationOutcome
  <2>3. CASE Reconcile(s, t)
    <3>1. HasRun(t) /\ DriveTask(t, LatestRun(t)) /\ pc'[s] = "idle"
      BY <2>3 DEF Reconcile, At
    <3> QED
      BY <1>0, <3>1, DriftDrive DEF KeptAt
  <2> QED
    BY <1>1, <2>1, <2>2, <2>3 DEF Select
<1>2. ASSUME t = task[s], SessionStep(s), Knows(s, t) PROVE status'[t] = "CLAIMED" /\ KeptAt(s, t)'
  <2>0. pc[s] # "idle"
    BY <1>2, StepsAreBusy
  <2>1. CASE pc[s] = "save"
    <3>1. PersistRefused(s)
      BY <1>2, <2>1, StepsAt
    <3> QED
      BY <3>1 DEF PersistRefused, Leave, Goto, store, KeptAt
  <2>2. CASE pc[s] = "poll"
    <3>1. Collect(s) \/ CollectFails(s) \/ ObserveTerminal(s)
      BY <1>2, <2>2, StepsAt
    <3>2. pc'[s] \in {"idle", "drive", "act"} /\ UNCHANGED status
      BY <3>1 DEF Collect, CollectFails, ObserveTerminal, Leave, Goto, store, Later
    <3> QED
      BY <1>0, <2>2, <3>2 DEF KeptAt, GatesFailed, ValidationOutcome
  <2>3. CASE pc[s] = "drive"
    <3>1. Drive(s) \/ PollTimeout(s)
      BY <1>2, <2>3, StepsAt
    <3>2. job[s].status = "SUCCEEDED"
      BY <1>0, <1>2, <2>3 DEF Knows, Mirrors
    <3>3. pc'[s] \in {"idle", "poll", "act"}
      BY <3>1 DEF Drive, PollTimeout, Leave, Goto
    <3>4. status'[t] = "CLAIMED"
      BY <1>2, <3>1, <3>2, DriftDrive DEF Drive, PollTimeout, store
    <3> QED
      BY <1>0, <2>3, <3>3, <3>4 DEF KeptAt, GatesFailed, ValidationOutcome
  <2>4. CASE pc[s] = "act"
    <3>1. /\ job[s].status = "SUCCEEDED" /\ GatesFailed(job[s]) /\ ~ Publishable(job[s])
      BY <1>2, <2>4, Outcomes DEF Knows, Mirrors, KeptAt
    <3>2. ActNothing(s)
      BY <1>2, <2>4, <3>1, StepsAt DEF ActNotSuccessful, ActRequeue, ActBlock, ActDone, ActPublish
    <3> QED
      BY <3>2 DEF ActNothing, Leave, Goto, KeptAt
  <2> QED
    BY <2>0, <2>1, <2>2, <2>3, <2>4 DEF KeptAt
<1> QED
  BY <1>1, <1>2

(* The checkout of an agent is its own, or an earlier one of the task. *)
Rooted(a, t) == engine[a].ws = a \/ Proper(t, engine[a].ws)

(* The task t answers for agent a. *)
Docked(a, t) == OnRow(a, t) \/ (Adrift(a, t) /\ (Backed \/ Routed \/ Kept(t)))

(* f gives every agent at work a task of its own that answers for it. *)
Homes(f) ==
    /\ \A a \in Live : Docked(a, f[a]) /\ Rooted(a, f[a])
    /\ \A a, b \in Live : f[a] = f[b] => a = b
    /\ \A s \in Session : pc[s] = "save" /\ job[s].id \in Live => f[job[s].id] = task[s]

HInv == Live # {} => \E f \in [Attempt -> Task] : Homes(f)

(* Where there are tasks, there are homes: with no agent at work, any.     *)
LEMMA Housed ==
    ASSUME HInv, NEW t \in Task
    PROVE  \E f \in [Attempt -> Task] : Homes(f)
<1>1. CASE Live = {}
  <2> DEFINE f == [a \in Attempt |-> t]
  <2>1. f \in [Attempt -> Task] /\ Homes(f)
    BY <1>1 DEF Homes
  <2> QED
    BY <2>1
<1> QED
  BY <1>1 DEF HInv

(* The row of an agent at work stays active: only what ended is recorded   *)
(* as ended (tracking.py refresh, terminal_recovery.py).                   *)
LEMMA OnRowStays ==
    ASSUME TypeOK, WInv, [Next]_vars, NEW t \in Task, NEW a \in Live, OnRow(a, t)
    PROVE  OnRow(a, t)'
<1> USE DEF TypeOK, StoreTypeOK
<1>1. PICK i \in ActiveRuns(t) : runs[t][i].id = a
  BY DEF OnRow
<1>2. i \in DOMAIN runs[t] /\ ~ IsTerminal(runs[t][i]) /\ runs[t][i] \in Row
      /\ engine[a].st = "RUNNING"
  BY DEF ActiveRuns, Live
<1>3. ASSUME i \in DOMAIN runs'[t], runs'[t][i] = runs[t][i] PROVE OnRow(a, t)'
  BY <1>1, <1>2, <1>3 DEF OnRow, ActiveRuns
<1>4. CASE UNCHANGED runs
  BY <1>2, <1>3, <1>4
<1>5. ASSUME NEW s \in Session, PersistRun(s) PROVE OnRow(a, t)'
  <2>1. task[s] \in Task
    BY DEF WorkerTypeOK
  <2> QED
    BY <1>2, <1>3, <1>5, <2>1, SavedRow
<1>6. ASSUME NEW s \in Session, StoreRun(s) PROVE OnRow(a, t)'
  <2>1. PICK u \in Task : u = task[s]
    BY DEF WorkerTypeOK
  <2>2. PICK k \in RowOf(u, job[s].id) : UpdateRun(u, k, job[s])
    BY <1>6, <2>1 DEF StoreRun
  <2>3. k \in DOMAIN runs[u] /\ runs[u][k].id = job[s].id
        /\ runs' = [runs EXCEPT ![u][k] = Updated(u, k, job[s])]
    BY <2>2 DEF RowOf, UpdateRun
  <2>4. CASE u # t \/ k # i
    BY <1>2, <1>3, <2>3, <2>4
  <2>5. CASE u = t /\ k = i
    <3>1. ~ IsTerminal(job[s])
      BY <1>1, <1>2, <1>6, <2>3, <2>5 DEF WInv, Ended, StoreRun, At
    <3>2. runs'[t][i] = [runs[t][i] EXCEPT !.status = job[s].status, !.gates = job[s].gates]
          /\ i \in DOMAIN runs'[t]
      BY <1>2, <2>3, <2>5 DEF Updated
    <3>3. runs'[t][i].id = a /\ runs'[t][i].status = job[s].status
      BY <1>1, <1>2, <3>2 DEF Row
    <3> QED
      BY <3>1, <3>2, <3>3 DEF OnRow, ActiveRuns, IsTerminal
  <2> QED
    BY <2>4, <2>5
<1>7. ASSUME NEW u \in Task, RecoverOrphan(u) PROVE OnRow(a, t)'
  <2>1. runs' = [runs EXCEPT ![u][Len(runs[u])].status = "FAILED"]
        /\ engine[runs[u][Len(runs[u])].id].st \in {"LOST", "EXPIRED"}
    BY <1>7 DEF RecoverOrphan, AuthorizeOrphan, Evidence, LatestRun
  <2>2. u # t \/ Len(runs[u]) # i
    BY <1>1, <1>2, <2>1
  <2> QED
    BY <1>2, <1>3, <2>1, <2>2
<1> QED
  BY <1>4, <1>5, <1>6, <1>7, NextWrites DEF RunsWritten

(* The checkout of an agent stays the task's.                              *)
LEMMA RootedStays ==
    ASSUME TypeOK, [Next]_vars, NEW t \in Task, NEW a \in Live, Rooted(a, t)
    PROVE  Rooted(a, t)'
<1>1. engine'[a].ws = engine[a].ws
  BY NextEngines DEF EnginesKept, Live
<1> QED
  BY <1>1, NextRoots DEF Rooted, Proper, RootsKept, SameRun

(* An agent without a row gets one only from the session that holds it.    *)
LEMMA RowlessStays ==
    ASSUME TypeOK, [Next]_vars, NEW a, Rowless(a),
           \A s \in Session : PersistRun(s) => job[s].id # a
    PROVE  Rowless(a)'
<1>1. CASE ~ \E s \in Session : PersistRun(s)
  <2>1. RowsSame
    BY <1>1, NextRunsStep, RunsStepSame
  <2> QED
    BY <2>1 DEF RowsSame, SameRun, Rowless, RowOf
<1>2. ASSUME NEW s \in Session, PersistRun(s) PROVE Rowless(a)'
  <2>1. PICK t \in Task : t = task[s]
    BY DEF TypeOK, WorkerTypeOK
  <2>2. \A i \in DOMAIN runs'[t] : runs'[t][i].id # a
    BY <1>2, <2>1, SavedRow DEF Rowless, RowOf
  <2>3. \A u \in Task \ {t} : runs'[u] = runs[u]
    BY <1>2, <2>1, SavedRow
  <2> QED
    BY <2>2, <2>3 DEF Rowless, RowOf
<1> QED
  BY <1>1, <1>2

(* A step that neither starts an agent nor touches tables and sessions.    *)
LEMMA HomesFrame ==
    ASSUME TypeOK, [Next]_vars, UNCHANGED <<status, runs, rework, pc, task, job, operator>>,
           Live' \subseteq Live, NEW f \in [Attempt -> Task], Homes(f)
    PROVE  Homes(f)'
<1>0. Live \subseteq Attempt
  BY DEF Live
<1>1. ASSUME NEW a \in Live', NEW t \in Task, Docked(a, t) PROVE Docked(a, t)'
  <2>1. UNCHANGED <<opc, otask>>
    BY DEF operator
  <2> QED
    BY <1>1, <2>1
       DEF Docked, OnRow, ActiveRuns, Adrift, Drifts, Rowless, RowOf, Kept, Held, KeptAt,
           HasRun, LatestRun, HasReworkFeedback, GatesFailed, ValidationOutcome
<1>2. \A a \in Live' : Docked(a, f[a])' /\ Rooted(a, f[a])'
  BY <1>0, <1>1, RootedStays DEF Homes
<1> QED
  BY <1>2 DEF Homes

(* What session s does to a task that answers for an agent without a row:  *)
(* it leaves it there.                                                     *)
DriftStep(s, t) ==
    Drifts(t) /\ pc[s] \in Later \union {"save"} /\ ~ PersistRun(s) =>
        /\ Drifts(t)' /\ pc'[s] \in Later
        /\ ~ Routed /\ status[t] = "CLAIMED" /\ Held(t) /\ KeptAt(s, t) =>
              status'[t] = "CLAIMED" /\ Held(t)' /\ KeptAt(s, t)'

(* A session alone on its task, which starts no agent, leaves every agent  *)
(* its home; saving the run of an agent puts it on record there.           *)
LEMMA HomesOwn ==
    ASSUME TypeOK, WInv, [Next]_vars, NEW s \in Session, NEW t \in Task, OwnStep(s, t),
           Alone(s, t), UNCHANGED <<engine, operator, rework>>, DriftStep(s, t),
           pc[s] = "idle" \/ (task[s] = t /\ Holds(s, t)), pc'[s] # "save",
           NEW f \in [Attempt -> Task], Homes(f)
    PROVE  Homes(f)'
<1> USE DEF TypeOK, StoreTypeOK, WorkerTypeOK, OperatorTypeOK
<1>0. /\ Stay(s) /\ TaskStays(t) /\ (pc'[s] # "idle" => task'[s] = t)
      /\ UNCHANGED <<opc, otask>> /\ Live' = Live /\ Live \subseteq Attempt
  BY DEF OwnStep, operator, Live
<1>1. ASSUME NEW a \in Live, PersistRun(s), job[s].id = a
      PROVE  pc[s] = "save" /\ ~ IsTerminal(job[s]) /\ task[s] = t
  <2>1. pc[s] \in Saving /\ ~ IsTerminal(job[s])
    BY <1>1, SavedRow DEF WInv, Ended, Live
  <2>2. pc[s] # "fail"
    BY <2>1 DEF Holds, IsTerminal
  <2> QED
    BY <2>1, <2>2 DEF Saving
<1>2. ASSUME NEW a \in Live, NEW u \in Task, u # t, f[a] = u, Adrift(a, u)
      PROVE  Adrift(a, u)' /\ (Kept(u) => Kept(u)')
  <2>1. Drifts(u)' /\ status'[u] = status[u]
    BY <1>0, <1>2 DEF Adrift, Drifts, TaskStays, ActiveRuns
  <2>2. Rowless(a)'
    <3>1. ASSUME NEW r \in Session, PersistRun(r), job[r].id = a PROVE FALSE
      <4>1. r = s
        BY <1>0, <3>1, SavedRow DEF Stay, Saving
      <4>2. pc[s] = "save" /\ task[s] = t
        BY <1>1, <3>1, <4>1
      <4> QED
        BY <1>2, <3>1, <4>1, <4>2 DEF Homes
    <3> QED
      BY <1>2, <3>1, RowlessStays DEF Adrift
  <2>3. ASSUME NEW r \in Session, task'[r] = u
        PROVE  pc'[r] = "idle" \/ (task[r] = u /\ pc'[r] = pc[r] /\ job'[r] = job[r])
    BY <1>0, <1>2, <2>3 DEF Stay
  <2>4. Adrift(a, u)'
    BY <1>0, <1>2, <2>1, <2>2, <2>3 DEF Adrift, Later
  <2>5. ASSUME Kept(u) PROVE Kept(u)'
    <3>1. runs'[u] = runs[u] /\ Held(u)'
      BY <1>0, <1>2, <2>5, HeldSame DEF TaskStays, Kept
    <3>2. ASSUME NEW r \in Session, task'[r] = u PROVE KeptAt(r, u)'
      BY <2>3, <2>5, <3>1, <3>2 DEF Kept, KeptAt, HasRun, LatestRun, GatesFailed, ValidationOutcome
    <3> QED
      BY <2>1, <2>5, <3>1, <3>2 DEF Kept
  <2> QED
    BY <2>4, <2>5
<1>3. ASSUME NEW a \in Live, Adrift(a, t), ~ PersistRun(s)
      PROVE  Adrift(a, t)' /\ (~ Routed /\ Kept(t) => Kept(t)')
  <2>1. pc[s] \in Later \union {"save"}
    BY <1>3 DEF Adrift, Later
  <2>2. Drifts(t)' /\ pc'[s] \in Later
    BY <1>3, <2>1 DEF Adrift, DriftStep
  <2>3. Rowless(a)'
    <3>1. ASSUME NEW r \in Session, PersistRun(r) PROVE FALSE
      BY <1>0, <1>3, <3>1, SavedRow DEF Stay, Saving
    <3> QED
      BY <1>3, <3>1, RowlessStays DEF Adrift
  <2>4. ASSUME NEW r \in Session \ {s}, task'[r] = t PROVE pc'[r] = "idle"
    BY <1>0, <2>4 DEF Stay, Alone
  <2>5. Adrift(a, t)'
    BY <1>0, <1>3, <2>2, <2>3, <2>4 DEF Adrift, Later
  <2>6. ASSUME ~ Routed, Kept(t) PROVE Kept(t)'
    <3>1. KeptAt(s, t) /\ status[t] = "CLAIMED" /\ Held(t)
      BY <2>6 DEF Kept, KeptAt
    <3>2. status'[t] = "CLAIMED" /\ Held(t)' /\ KeptAt(s, t)'
      BY <1>3, <2>1, <2>6, <3>1 DEF DriftStep, Adrift
    <3> QED
      BY <2>4, <3>2 DEF Kept, KeptAt
  <2> QED
    BY <2>5, <2>6
<1>4. ASSUME NEW a \in Live PROVE Docked(a, f[a])'
  <2>1. f[a] \in Task /\ Docked(a, f[a])
    BY <1>0 DEF Homes
  <2>2. CASE OnRow(a, f[a])
    BY <2>1, <2>2, OnRowStays DEF Docked
  <2>3. CASE Adrift(a, f[a]) /\ f[a] # t /\ ~ OnRow(a, f[a])
    <3>1. Adrift(a, f[a])' /\ (Kept(f[a]) => Kept(f[a])')
      BY <1>2, <2>1, <2>3
    <3>2. Backed \/ Routed \/ Kept(f[a])
      BY <2>1, <2>3 DEF Docked
    <3> QED
      BY <3>1, <3>2 DEF Docked
  <2>4. CASE Adrift(a, t) /\ f[a] = t /\ ~ PersistRun(s)
    BY <1>3, <2>1, <2>4 DEF Docked, Adrift, OnRow, Drifts
  <2>5. CASE Adrift(a, t) /\ f[a] = t /\ PersistRun(s)
    <3>1. pc[s] \in Saving
      BY <2>5, SavedRow
    <3>2. task[s] = t /\ job[s].id = a
      BY <2>5, <3>1 DEF Adrift, Later, Saving
    <3>3. ~ IsTerminal(job[s])
      BY <1>1, <2>5, <3>2
    <3> DEFINE n == Len(runs[t]) + 1
    <3>4. n \in DOMAIN runs'[t] /\ runs'[t][n] = job[s]
      BY <2>5, <3>2, SavedRow
    <3> HIDE DEF n
    <3> QED
      BY <2>5, <3>2, <3>3, <3>4 DEF Docked, OnRow, ActiveRuns, IsTerminal
  <2> QED
    BY <2>1, <2>2, <2>3, <2>4, <2>5 DEF Docked
<1>5. \A a \in Live : Rooted(a, f[a])'
  BY <1>0, RootedStays DEF Homes
<1>6. \A r \in Session : pc'[r] = "save" /\ job'[r].id \in Live => f[job'[r].id] = task'[r]
  BY <1>0 DEF Stay, Homes
<1> QED
  BY <1>0, <1>4, <1>5, <1>6 DEF Homes

(* A new agent gets the task it was started for, which is nobody's home:   *)
(* no run of it is active and its session was not past the start.          *)
LEMMA HomesLaunch ==
    ASSUME TypeOK, WInv, WorkspacesKnown, GInv, [Next]_vars, NEW s \in Session, NEW t \in Task,
           t = task[s], NEW a \in Attempt, Launches(s, a), Holds(s, t), Alone(s, t),
           UNCHANGED operator, NEW f \in [Attempt -> Task], Homes(f)
    PROVE  Homes([f EXCEPT ![a] = t])'
<1> USE DEF TypeOK, StoreTypeOK, WorkerTypeOK, OperatorTypeOK
<1> DEFINE g == [f EXCEPT ![a] = t]
<1>0. /\ Stay(s) /\ UNCHANGED <<status, runs, rework, task, opc, otask>> /\ pc[s] = "launch"
      /\ engine[a].st = "none" /\ pc'[s] \in Saving /\ job'[s].id = a /\ engine'[a].ws = job'[s].ws
      /\ \A b \in Attempt \ {a} : engine'[b] = engine[b]
  BY LaunchedRun DEF store, operator
<1>1. /\ Live \subseteq Attempt /\ a \notin Live /\ Live' \subseteq Live \union {a}
      /\ g \in [Attempt -> Task] /\ g[a] = t /\ \A b \in Live : g[b] = f[b] /\ b # a
  BY <1>0 DEF Live
<1> HIDE DEF g
<1>2. status[t] = "CLAIMED" /\ ActiveRuns(t) = {}
  BY <1>0 DEF Holds
<1>3. ASSUME NEW b \in Live PROVE f[b] \in Task \ {t} /\ Docked(b, f[b])'
  <2>1. f[b] \in Task /\ Docked(b, f[b])
    BY <1>1 DEF Homes
  <2>2. ~ OnRow(b, t) /\ ~ Adrift(b, t)
    BY <1>0, <1>2 DEF OnRow, Adrift, Later
  <2>3. CASE OnRow(b, f[b])
    BY <2>1, <2>2, <2>3, OnRowStays DEF Docked
  <2>4. CASE Adrift(b, f[b])
    <3>1. f[b] # t
      BY <2>2, <2>4
    <3>2. \A r \in Session : task[r] = f[b] => pc'[r] = pc[r] /\ job'[r] = job[r]
      BY <1>0, <3>1 DEF Stay
    <3>3. Adrift(b, f[b])'
      BY <1>0, <2>4, <3>2 DEF Adrift, Drifts, ActiveRuns, Rowless, RowOf
    <3>4. Kept(f[b]) => Kept(f[b])'
      BY <1>0, <2>1, <3>2, HeldSame
         DEF Kept, KeptAt, HasRun, LatestRun, GatesFailed, ValidationOutcome
    <3> QED
      BY <2>1, <2>2, <2>4, <3>1, <3>3, <3>4 DEF Docked, OnRow, Adrift, Drifts
  <2> QED
    BY <2>1, <2>3, <2>4 DEF Docked
<1>4. ASSUME a \in Live' PROVE Docked(a, t)' /\ Rooted(a, t)'
  <2>1. pc'[s] = "save"
    BY <1>4, LaunchedPlan DEF Live
  <2>2. Rowless(a)
    BY <1>0 DEF Rowless, RowOf, WorkspacesKnown, Started
  <2>3. \A r \in Session \ {s} : task[r] = t => pc'[r] = "idle"
    BY <1>0 DEF Stay, Alone
  <2>4. Adrift(a, t)'
    BY <1>0, <1>2, <2>1, <2>2, <2>3 DEF Adrift, Drifts, ActiveRuns, Rowless, RowOf, Later, Alone
  <2>5. ASSUME ~ Backed PROVE Kept(t)'
    <3>1. Held(t)
      BY <1>0, <2>5 DEF GInv, Pending
    <3>2. Held(t)'
      BY <1>0, <3>1, HeldSame
    <3> QED
      BY <1>0, <1>2, <2>1, <2>3, <3>2 DEF Kept, KeptAt
  <2>6. Rooted(a, t)'
    <3>1. job[s].ws = 0 \/ Proper(t, job[s].ws)
      BY <1>0 DEF WInv, Plans, Planning
    <3>2. engine'[a].ws = a \/ Proper(t, engine'[a].ws)
      BY <1>0, <3>1, LaunchedPlan
    <3> QED
      BY <1>0, <3>2 DEF Rooted, Proper
  <2> QED
    BY <2>4, <2>5, <2>6 DEF Docked
<1>5. \A b \in Live' : Docked(b, g[b])' /\ Rooted(b, g[b])'
  <2>1. \A b \in Live : Docked(b, g[b])' /\ Rooted(b, g[b])'
    BY <1>1, <1>3, RootedStays DEF Homes
  <2> QED
    BY <1>1, <1>4, <2>1
<1>6. \A b, c \in Live' : g[b] = g[c] => b = c
  BY <1>1, <1>3 DEF Homes
<1>7. ASSUME NEW r \in Session, pc'[r] = "save", job'[r].id \in Live'
      PROVE  g[job'[r].id] = task'[r]
  <2>1. CASE r = s
    BY <1>0, <1>1, <2>1
  <2>2. CASE r # s
    <3>1. pc[r] = "save" /\ job'[r] = job[r] /\ task'[r] = task[r]
      BY <1>0, <1>7, <2>2 DEF Stay
    <3>2. job[r].id # a
      BY <1>0, <3>1 DEF WorkspacesKnown, Started, InHand, Saving
    <3>3. job[r].id \in Live
      BY <1>1, <1>7, <3>1, <3>2
    <3> QED
      BY <1>1, <3>1, <3>3 DEF Homes
  <2> QED
    BY <2>1, <2>2
<1> QED
  BY <1>5, <1>6, <1>7 DEF Homes, g

(* Operators leave every agent its home: their commands are given when no  *)
(* agent runs without a row, and a retry under way has a task of its own   *)
(* (retry.py, rework.py, terminal_recovery.py).                            *)
LEMMA HomesOperator ==
    ASSUME TypeOK, WInv, Owned, OInv, OperatorNext, NEW f \in [Attempt -> Task], Homes(f)
    PROVE  Homes(f)'
<1> USE DEF TypeOK, StoreTypeOK, OperatorTypeOK
<1>0. /\ UNCHANGED <<pc, task, job, engine>> /\ [Next]_vars
      /\ Live' = Live /\ Live \subseteq Attempt
  BY DEF OperatorNext, worker, Live, Next
<1>1. ASSUME NEW a \in Live, ~ Rowless(a) PROVE Docked(a, f[a])'
  <2>1. f[a] \in Task /\ OnRow(a, f[a])
    BY <1>0, <1>1 DEF Homes, Docked, Adrift
  <2> QED
    BY <1>0, <2>1, OnRowStays DEF Docked
<1>2. ASSUME NEW t \in Task, Commanded(t), Commands # {}, NEW a \in Live PROVE ~ Rowless(a)
  BY <1>2 DEF Commanded, Quiet, Untracked, Owned, Live, Rowless
<1>3. ASSUME NEW o \in Operators, RetryUnclaim(o) \/ RetryApply(o), NEW a \in Live
      PROVE  Docked(a, f[a])'
  <2>1. PICK t \in Task : t = otask[o]
    OBVIOUS
  <2>2. /\ opc[o] # "idle" /\ UNCHANGED <<runs, otask>>
        /\ \A p \in Operators \ {o} : opc'[p] = opc[p]
    BY <1>3 DEF RetryUnclaim, RetryApply
  <2>3. \A u \in Task \ {t} : status'[u] = status[u]
    BY <1>3, <2>1 DEF RetryUnclaim, RetryApply, ApplyTransition, Record
  <2>4. f[a] \in Task /\ Docked(a, f[a])
    BY <1>0 DEF Homes
  <2>5. CASE OnRow(a, f[a])
    BY <1>0, <2>4, <2>5, OnRowStays DEF Docked
  <2>6. CASE Adrift(a, f[a])
    <3>1. f[a] # t /\ Backed
      BY <2>1, <2>2, <2>6 DEF Adrift, OInv, HoldsAll, Backed
    <3>2. \A p \in Operators : opc'[p] = "idle" \/ otask'[p] # f[a]
      BY <2>1, <2>2, <2>6, <3>1 DEF Adrift
    <3>3. Adrift(a, f[a])'
      BY <1>0, <2>2, <2>3, <2>4, <2>6, <3>1, <3>2 DEF Adrift, Drifts, ActiveRuns, Rowless, RowOf
    <3> QED
      BY <3>1, <3>3 DEF Docked, Backed
  <2> QED
    BY <2>4, <2>5, <2>6 DEF Docked
<1>4. ASSUME NEW a \in Live PROVE Docked(a, f[a])'
  <2>1. \/ \E o \in Operators : RetryUnclaim(o) \/ RetryApply(o)
        \/ \E t \in Task : Commanded(t) /\ Commands # {}
    BY DEF OperatorNext, RetryStep, RetryDecide, RequestRework, OverrideSecurity,
           RecoverTimeout, RecoverWorkerFailure, RecoverOrphan, AuthorizeTerminal,
           AuthorizeOrphan
  <2> QED
    BY <1>1, <1>2, <1>3, <1>4, <2>1
<1>5. \A a \in Live' : Docked(a, f[a])' /\ Rooted(a, f[a])'
  BY <1>0, <1>4, RootedStays DEF Homes
<1> QED
  BY <1>0, <1>5 DEF Homes

(* A session alone on a task has what the task answers for in its hand.    *)
LEMMA OwnDrifts ==
    ASSUME TypeOK, RunsTracked, NEW s \in Session, NEW t \in Task,
           Select(s, t) \/ (t = task[s] /\ SessionStep(s) /\ Holds(s, t) /\ Knows(s, t))
    PROVE  DriftStep(s, t)
<1>0. SUFFICES ASSUME Drifts(t), pc[s] \in Later \union {"save"}, ~ PersistRun(s)
               PROVE  /\ Drifts(t)' /\ pc'[s] \in Later
                      /\ ~ Routed /\ status[t] = "CLAIMED" /\ Held(t) /\ KeptAt(s, t) =>
                            status'[t] = "CLAIMED" /\ Held(t)' /\ KeptAt(s, t)'
  BY DEF DriftStep
<1>1. Drifts(t)' /\ pc'[s] \in Later /\ runs'[t] = runs[t]
  BY <1>0, DriftStays
<1>2. rework'[t] = rework[t]
  BY OwnWrites
<1>3. ASSUME ~ Routed, status[t] = "CLAIMED", Held(t), KeptAt(s, t)
      PROVE  status'[t] = "CLAIMED" /\ Held(t)' /\ KeptAt(s, t)'
  <2>1. status'[t] = "CLAIMED" /\ KeptAt(s, t)'
    BY <1>0, <1>1, <1>3, KeptStays
  <2> QED
    BY <1>1, <1>2, <1>3, <2>1, HeldSame
<1> QED
  BY <1>1, <1>3

AInv == WInv /\ GInv /\ HInv

(* Plans, results and checkouts stay sound, if at most one session moves.  *)
LEMMA PlansKept ==
    ASSUME TypeOK, TypeOK', RunsTracked, WorkspacesKnown, WInv, [Next]_vars, OnePlans
    PROVE  WInv'
<1>1. \A s \in Session : Ended(s)'
  BY EndedStep
<1>2. \A s \in Session, t \in Task : task'[s] = t => Plans(s, t)'
  BY PlansStep
<1>3. Checkouts'
  BY CheckoutsStep
<1> QED
  BY <1>1, <1>2, <1>3 DEF WInv

(* A session alone on its task leaves every agent a home of its own.       *)
LEMMA OwnHomes ==
    ASSUME TypeOK, TypeOK', RunsTracked, WorkspacesKnown, AInv, [Next]_vars,
           NEW s \in Session, NEW t \in Task, OwnStep(s, t), Alone(s, t), UNCHANGED operator,
           Select(s, t) \/ (t = task[s] /\ SessionStep(s) /\ Holds(s, t) /\ Knows(s, t))
    PROVE  AInv'
<1> USE DEF TypeOK, WorkerTypeOK
<1>0. Stay(s) /\ (pc[s] # "idle" => t = task[s] /\ SessionStep(s) /\ Holds(s, t))
  BY SelectIdle DEF OwnStep
<1>1. PlanAt(s)
  BY OwnPlans
<1>2. WInv'
  BY <1>0, <1>1, PlansKept DEF OnePlans, AInv
<1>3. UNCHANGED rework
  BY OwnWrites
<1>4. GInv'
  <2>1. ASSUME ~ Backed
        PROVE  (status'[t] \in OpenStatus => Held(t)') /\ (pc'[s] \in Pending => Held(t)')
    <3>1. status[t] \in OpenStatus => Held(t)
      BY <2>1 DEF AInv, GInv
    <3>2. t = task[s] /\ pc[s] \in Pending => Held(t)
      BY <2>1 DEF AInv, GInv
    <3> QED
      BY <3>1, <3>2, OwnHeld
  <2> QED
    BY <1>3, <2>1, OwnHeldKeeps DEF AInv
<1>5. HInv'
  <2>1. PICK f \in [Attempt -> Task] : Homes(f)
    BY Housed DEF AInv
  <2>2. CASE \E a \in Attempt : Launches(s, a)
    <3>1. PICK a \in Attempt : Launches(s, a)
      BY <2>2
    <3>2. pc[s] = "launch"
      BY <3>1, LaunchedRun
    <3>3. t = task[s] /\ Holds(s, t)
      BY <1>0, <3>2
    <3>4. Homes([f EXCEPT ![a] = t])'
      BY <2>1, <3>1, <3>3, HomesLaunch DEF AInv
    <3>5. [f EXCEPT ![a] = t] \in [Attempt -> Task]
      BY <2>1
    <3> QED
      BY <3>4, <3>5 DEF HInv
  <2>3. CASE ~ \E a \in Attempt : Launches(s, a)
    <3>1. UNCHANGED engine
      BY <2>3, EngineFrame
    <3>2. pc'[s] # "save"
      BY <1>1, <2>3 DEF PlanAt, Saving
    <3>3. DriftStep(s, t)
      BY OwnDrifts
    <3>4. Homes(f)'
      BY <1>0, <1>3, <2>1, <3>1, <3>2, <3>3, HomesOwn DEF AInv
    <3> QED
      BY <2>1, <3>4 DEF HInv
  <2> QED
    BY <2>2, <2>3
<1> QED
  BY <1>2, <1>4, <1>5 DEF AInv

(* So does one that dies: what it leaves behind stays where it is.         *)
LEMMA CrashHomes ==
    ASSUME TypeOK, TypeOK', RunsTracked, WorkspacesKnown, AInv, [Next]_vars,
           NEW s \in Session, NEW t \in Task, t = task[s], Crash(s), Holds(s, t), Alone(s, t),
           OwnStep(s, t), UNCHANGED operator
    PROVE  AInv'
<1>0. Stay(s) /\ pc'[s] = "idle" /\ UNCHANGED <<status, runs, rework, engine, task>>
  BY LeaveLocal DEF Crash, store
<1>1. WInv'
  BY <1>0, OwnPlans, PlansKept DEF OnePlans, AInv
<1>2. Held(t) => Held(t)'
  BY <1>0, HeldSame
<1>3. GInv'
  <2>1. pc'[s] \notin Pending
    BY <1>0 DEF Pending, Saving
  <2>2. ~ Backed => (status'[t] \in OpenStatus => Held(t)')
    BY <1>0, <1>2 DEF AInv, GInv
  <2> QED
    BY <1>0, <2>1, <2>2, OwnHeldKeeps DEF AInv
<1>4. DriftStep(s, t)
  <2>1. Drifts(t)' = Drifts(t) /\ pc'[s] \in Later /\ KeptAt(s, t)' /\ status'[t] = status[t]
    BY <1>0 DEF Drifts, ActiveRuns, Later, KeptAt
  <2> QED
    BY <1>2, <2>1 DEF DriftStep
<1>5. PICK f \in [Attempt -> Task] : Homes(f)
  BY Housed DEF AInv
<1>6. Homes(f)'
  BY <1>0, <1>4, <1>5, HomesOwn DEF AInv
<1> QED
  BY <1>1, <1>3, <1>5, <1>6 DEF AInv, HInv

(* So does an agent that ends, and a step of nobody.                       *)
LEMMA FrameHomes ==
    ASSUME TypeOK, TypeOK', RunsTracked, WorkspacesKnown, AInv, [Next]_vars,
           UNCHANGED <<status, runs, rework, pc, task, job, operator>>, Live' \subseteq Live
    PROVE  AInv'
<1>1. WInv'
  BY PlansKept DEF OnePlans, AInv
<1>2. GInv'
  <2>1. \A t \in Task : Held(t) => Held(t)'
    BY HeldSame
  <2> QED
    BY <2>1 DEF AInv, GInv
<1>3. ASSUME NEW f \in [Attempt -> Task], Homes(f) PROVE Homes(f)'
  BY <1>3, HomesFrame
<1> QED
  BY <1>1, <1>2, <1>3 DEF AInv, HInv

(* Every step leaves every agent at work a task of its own.                *)
LEMMA HomesStep ==
    ASSUME IInv, IInv', IdentInv, Owned, OInv, KInv, AInv, [Next]_vars
    PROVE  AInv'
<1> USE DEF TypeOK, WorkerTypeOK
<1>0. TypeOK /\ RunsTracked /\ ActiveRunsIsolated /\ IdsUnique /\ WorkspacesKnown /\ TypeOK'
  BY DEF IInv, IdentInv
<1>1. ASSUME NEW s \in Session, NEW t \in Task, Selectable(t), Select(s, t), UNCHANGED operator
      PROVE  AInv'
  <2>1. Free(t)
    BY <1>1 DEF Select, Begin, CancelIneligible, RejectRouting, Resume, Reconcile,
                ReviewMerged, ReviewClosed, Reviewable, Take
  <2>2. Alone(s, t)
    BY <1>1, <2>1 DEF Free, Selectable, Owned, Alone, OInv, HoldsAll
  <2>3. OwnStep(s, t)
    BY <1>0, <1>1, SelectOwn DEF OInv
  <2> QED
    BY <1>0, <1>1, <2>2, <2>3, OwnHomes
<1>2. ASSUME NEW s \in Session, pc[s] # "idle" PROVE Alone(s, task[s])
  BY <1>2 DEF OInv, Apart, Alone
<1>3. ASSUME NEW s \in Session, SessionStep(s), UNCHANGED operator PROVE AInv'
  <2>1. PICK t \in Task : t = task[s]
    BY <1>0
  <2>2. Good(t) /\ Holds(s, t) /\ Alone(s, t) /\ Knows(s, t)
    BY <1>2, <1>3, <2>1, StepsAreBusy DEF OInv, HoldsAll, KInv
  <2>3. OwnStep(s, t)
    BY <1>0, <1>3, <2>1, <2>2, DispatchOwn, TrackingOwn, PublicationOwn DEF SessionStep
  <2> QED
    BY <1>0, <1>3, <2>1, <2>2, <2>3, OwnHomes
<1>4. ASSUME NEW s \in Session, Crash(s), UNCHANGED operator PROVE AInv'
  <2>1. PICK t \in Task : t = task[s]
    BY <1>0
  <2>2. Good(t) /\ Holds(s, t) /\ Alone(s, t)
    BY <1>2, <1>4, <2>1 DEF OInv, HoldsAll, Crash
  <2>3. Leave(s) /\ UNCHANGED <<status, hist, runs, task>>
    BY <1>4 DEF Crash, store
  <2>4. OwnStep(s, t)
    BY <1>0, <2>2, <2>3, LeaveOwn DEF StatusMoves
  <2> QED
    BY <1>0, <1>4, <2>1, <2>2, <2>4, CrashHomes
<1>5. ASSUME NEW a \in Attempt, AgentStep(a), UNCHANGED operator PROVE AInv'
  <2>1. UNCHANGED <<status, runs, rework, pc, task, job>>
    BY <1>5 DEF AgentStep, AgentEnds, AgentExpires, store
  <2>2. PICK st \in EngineState \ {"none", "RUNNING"} : engine' = [engine EXCEPT ![a].st = st]
    BY <1>5 DEF AgentStep, AgentEnds, AgentExpires, EngineState
  <2>3. Live' \subseteq Live
    <3>1. engine'[a].st = st /\ \A b \in Attempt \ {a} : engine'[b] = engine[b]
      BY <1>0, <2>2
    <3> QED
      BY <2>2, <3>1 DEF Live
  <2> QED
    BY <1>0, <1>5, <2>1, <2>3, FrameHomes
<1>6. CASE UNCHANGED vars
  BY <1>0, <1>6, FrameHomes DEF vars, store, worker, Live
<1>7. CASE OperatorNext
  <2>1. UNCHANGED <<pc, task, job>> /\ Live' = Live
    BY <1>7 DEF OperatorNext, worker, Live
  <2>2. WInv'
    BY <1>0, <2>1, PlansKept DEF OnePlans, AInv
  <2>3. GInv'
    BY <1>0, <1>7, OperatorHeld DEF AInv
  <2>4. ASSUME NEW f \in [Attempt -> Task], Homes(f) PROVE Homes(f)'
    BY <1>0, <1>7, <2>4, HomesOperator DEF AInv
  <2> QED
    BY <2>1, <2>2, <2>3, <2>4 DEF AInv, HInv
<1> QED
  BY <1>1, <1>3, <1>4, <1>5, <1>6, <1>7 DEF Next, WorkerNext

(* At the start no agent is at work and nothing is planned.                *)
LEMMA InitAInv == Init => AInv
<1> SUFFICES ASSUME Init PROVE AInv
  OBVIOUS
<1>1. Live = {}
  BY DEF Init, WorkerInit, Live
<1>2. ASSUME NEW t \in Task PROVE runs[t] = << >> /\ DOMAIN runs[t] = {} /\ ~ HasRun(t)
  <2>1. runs[t] = << >>
    BY DEF Init, StoreInit
  <2> QED
    BY <2>1 DEF HasRun
<1>3. WInv
  BY <1>2 DEF Init, WorkerInit, WInv, Checkouts, Ended, Plans, Planning, Saving
<1>4. GInv
  BY <1>2 DEF GInv, Held
<1> QED
  BY <1>1, <1>3, <1>4 DEF AInv, HInv

(* The invariant behind the agents at work.                                *)
LEMMA HomesInvariance == ASSUME Owned PROVE Spec => []AInv
<1>1. Init => AInv
  BY InitAInv
<1>2. IInv /\ IInv' /\ IdentInv /\ OInv /\ KInv /\ AInv /\ [Next]_vars => AInv'
  BY HomesStep
<1> QED
  BY <1>1, <1>2, Invariance, IdentInvariance, OwnedInvariance, KnownInvariance, PTL DEF Spec

(* An agent in its own checkout shares it with nobody: whoever works for a *)
(* task there follows a run of that task, and this agent has none there.   *)
LEMMA OwnCheckout ==
    ASSUME IdsUnique, WInv, NEW f \in [Attempt -> Task], Homes(f),
           NEW a \in Live, NEW b \in Live, a # b, engine[a].ws = a
    PROVE  engine[b].ws # a
<1> SUFFICES ASSUME engine[b].ws = a PROVE FALSE
  OBVIOUS
<1>1. /\ f[a] \in Task /\ f[b] \in Task /\ f[a] # f[b]
      /\ Docked(a, f[a]) /\ Rooted(b, f[b])
  BY DEF Homes, Live
<1>2. PICK i \in DOMAIN runs[f[b]] : runs[f[b]][i].ws = a
  BY <1>1 DEF Rooted, Proper
<1>3. PICK j \in DOMAIN runs[f[b]] : runs[f[b]][j].id = a
  BY <1>1, <1>2 DEF WInv, Checkouts
<1>4. ~ Rowless(a)
  BY <1>1, <1>3 DEF Rowless, RowOf
<1>5. PICK k \in DOMAIN runs[f[a]] : runs[f[a]][k].id = a
  BY <1>1, <1>4 DEF Docked, Adrift, OnRow, ActiveRuns
<1> QED
  BY <1>1, <1>3, <1>5 DEF IdsUnique

(* AgentsIsolated for every instance with one writer per task: two agents  *)
(* at work are never in one checkout, whatever rework reuses and whichever *)
(* session dies between starting an agent and writing its row (dispatch.py *)
(* dispatch_rework, _start_run).                                           *)
THEOREM AgentsIsolatedProved == ASSUME Owned PROVE Spec => []AgentsIsolated
<1>1. IdentInv /\ AInv => AgentsIsolated
  <2> SUFFICES ASSUME IdentInv, AInv, NEW a \in Attempt, NEW b \in Attempt, a # b,
                      engine[a].st = "RUNNING", engine[b].st = "RUNNING",
                      engine[a].ws = engine[b].ws
               PROVE  FALSE
    BY DEF AgentsIsolated
  <2>1. a \in Live /\ b \in Live /\ WInv /\ IdsUnique
    BY DEF Live, AInv, IdentInv
  <2>2. PICK f \in [Attempt -> Task] : Homes(f)
    BY <2>1 DEF AInv, HInv
  <2>3. engine[a].ws # a /\ engine[b].ws # b
    BY <2>1, <2>2, OwnCheckout
  <2>4. f[a] \in Task /\ f[b] \in Task /\ f[a] # f[b] /\ Rooted(a, f[a]) /\ Rooted(b, f[b])
    BY <2>1, <2>2 DEF Homes
  <2>5. PICK i \in DOMAIN runs[f[a]] : runs[f[a]][i].ws = engine[a].ws
    BY <2>3, <2>4 DEF Rooted, Proper
  <2>6. PICK j \in DOMAIN runs[f[b]] : runs[f[b]][j].ws = engine[b].ws
    BY <2>3, <2>4 DEF Rooted, Proper
  <2> QED
    BY <2>1, <2>4, <2>5, <2>6 DEF WInv, Checkouts
<1> QED
  BY <1>1, IdentInvariance, HomesInvariance, PTL

(* CapacityHolds for every instance with one writer per task, a registry   *)
(* that keeps routing the tasks under way and no command that sends a task *)
(* back to VALIDATING: neither the tasks that hold a claim nor the agents  *)
(* really at work outnumber max_active_claims, the agents of sessions that *)
(* died before they wrote the row included (sqlite.py _apply_transition,   *)
(* dispatch.py _start_run).                                                *)
THEOREM CapacityProved ==
    ASSUME Owned, ~ Backed, ~ Routed
    PROVE  Spec => []CapacityHolds
<1>1. Init => Room
  <2> SUFFICES ASSUME Init PROVE Room
    OBVIOUS
  <2>1. Holders = {}
    BY DEF Init, StoreInit, Holders, Occupies, ActiveRuns, BusyStatus
  <2> QED
    BY <2>1, FS_EmptySet, StoreAssumption DEF Room
<1>2. IInv /\ IdentInv /\ OInv /\ Room /\ [Next]_vars => Room'
  BY OwnedStep, RoomStep DEF IInv, IdentInv
<1>3. ASSUME Room, AInv PROVE CapacityHolds
  <2>0. IsFiniteSet(Holders) /\ Cardinality(Holders) <= MaxActiveClaims
        /\ Cardinality(Holders) \in Nat /\ MaxActiveClaims \in Nat
    BY <1>3, FS_CardinalityType, StoreAssumption DEF Room
  <2>1. ClaimBound
    BY <2>0 DEF Holders, ClaimBound
  <2>2. Cardinality(Live) <= MaxActiveClaims
    <3>1. CASE Live = {}
      BY <2>0, <3>1, FS_EmptySet
    <3>2. CASE Live # {}
      <4>1. PICK f \in [Attempt -> Task] : Homes(f)
        BY <1>3, <3>2 DEF AInv, HInv
      <4> DEFINE g == [a \in Live |-> f[a]]
      <4>2. ASSUME NEW a \in Live PROVE f[a] \in Holders
        <5>1. f[a] \in Task /\ (OnRow(a, f[a]) \/ Kept(f[a]))
          BY <4>1 DEF Homes, Docked, Live
        <5> QED
          BY <5>1 DEF Holders, Occupies, OnRow, Kept, BusyStatus
      <4>3. g \in Injection(Live, Holders)
        <5>1. \A a, b \in Live : f[a] = f[b] => a = b
          BY <4>1 DEF Homes
        <5>2. g \in [Live -> Holders]
          BY <4>2
        <5>3. \A a, b \in Live : g[a] = g[b] => a = b
          BY <5>1
        <5> QED
          BY <5>2, <5>3 DEF Injection, IsInjective
      <4>4. IsFiniteSet(Live) /\ Cardinality(Live) <= Cardinality(Holders)
        BY <2>0, <4>3, FS_Injection
      <4>5. Cardinality(Live) \in Nat
        BY <4>4, FS_CardinalityType
      <4> QED
        BY <2>0, <4>4, <4>5
    <3> QED
      BY <3>1, <3>2
  <2> QED
    BY <2>1, <2>2 DEF Live, AgentBound, CapacityHolds
<1> QED
  BY <1>1, <1>2, <1>3, Invariance, IdentInvariance, OwnedInvariance, HomesInvariance, PTL
     DEF Spec
=============================================================================
