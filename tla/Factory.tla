-------------------------------- MODULE Factory --------------------------------
(***************************************************************************)
(* The factory: worker sessions and operators over one store, and the      *)
(* properties of the whole.                                                *)
(***************************************************************************)
EXTENDS Dispatch, Tracking, Publication, Operator

CONSTANT CarefulOperators  \* whether operators keep out of running sessions

ASSUME FactoryAssumption == CarefulOperators \in BOOLEAN

vars == <<store, worker, operator>>

TypeOK == StoreTypeOK /\ WorkerTypeOK /\ OperatorTypeOK

Init == StoreInit /\ WorkerInit /\ OperatorInit

(* The process of a session dies, or an unexpected error ends it. *)
Crash(s) ==
    /\ pc[s] # "idle"
    /\ Fault("crash")
    /\ Leave(s)
    /\ UNCHANGED <<store, engine, task>>

Select(s, t) ==
    \/ Begin(s, t)
    \/ CancelIneligible(s, t)
    \/ RejectRouting(s, t)
    \/ Resume(s, t)
    \/ Reconcile(s, t)
    \/ ReviewMerged(s, t)
    \/ ReviewClosed(s, t)

DispatchStep(s) ==
    \/ BuildContext(s)
    \/ ContextFails(s)
    \/ DispatchRefused(s)
    \/ Claim(s)
    \/ ClaimRefused(s)
    \/ ProvisionFails(s)
    \/ \E a \in Attempt : Launch(s, a)
    \/ \E a \in Attempt : LaunchStillborn(s, a)
    \/ \E a \in Attempt : LaunchRaises(s, a)
    \/ PersistRun(s)
    \/ PersistRefused(s)
    \/ AdvanceToRunning(s)
    \/ AdvanceRefused(s)
    \/ Unclaim(s)

TrackingStep(s) ==
    \/ Collect(s)
    \/ CollectFails(s)
    \/ ObserveTerminal(s)
    \/ StoreRun(s)
    \/ StoreRefused(s)
    \/ Drive(s)
    \/ PollTimeout(s)
    \/ ActNotSuccessful(s)
    \/ ActRequeue(s)
    \/ ActBlock(s)
    \/ ActNothing(s)
    \/ ActDone(s)
    \/ ActPublish(s)
    \/ Block(s)
    \/ BlockRefused(s)
    \/ WriteNote(s)

PublicationStep(s) ==
    \/ PublishRefused(s)
    \/ SecurityBlocks(s)
    \/ PublishFails(s)
    \/ PublishExisting(s)
    \/ PublishRevision(s)
    \/ PublishNew(s)
    \/ PersistPr(s)
    \/ OpenPr(s)
    \/ AwaitHuman(s)
    \/ BlockFailedPublication(s)

AgentStep(a) == AgentEnds(a) \/ AgentExpires(a)

SessionStep(s) == DispatchStep(s) \/ TrackingStep(s) \/ PublicationStep(s)

(* A careful operator lets no session take a task during a command. *)
Selectable(t) ==
    CarefulOperators => \A o \in Operators : opc[o] = "idle" \/ otask[o] # t

WorkerNext ==
    /\ \/ \E s \in Session, t \in Task : Selectable(t) /\ Select(s, t)
       \/ \E s \in Session : SessionStep(s)
       \/ \E s \in Session : Crash(s)
       \/ \E a \in Attempt : AgentStep(a)
    /\ UNCHANGED operator

(* A careful operator leaves a task alone while a session holds it, and    *)
(* first verifies that no agent runs that no row tracks                    *)
(* (docs/development.md).  The code checks neither.                        *)
Untracked(a) == /\ engine[a].st = "RUNNING"
                /\ \A t \in Task : RowOf(t, a) = {}

Quiet(t) == /\ \A s \in Session : pc[s] = "idle" \/ task[s] # t
            /\ \A a \in Attempt : ~ Untracked(a)

Commanded(t) == CarefulOperators => Quiet(t)

(* The evidence an authorization reads is the result file of the latest    *)
(* run, or the proof that its agent is dead and left none.                 *)
Evidence(t) == engine[LatestRun(t).id].st

RetryStep(o) ==
    \/ \E t \in Task : Commanded(t) /\ RetryDecide(o, t)
    \/ RetryUnclaim(o)
    \/ RetryApply(o)

RecoverTimeout(t) ==
    AuthorizeTerminal(t, "timeout") /\ Evidence(t) = "TIMEOUT"

RecoverWorkerFailure(t) ==
    AuthorizeTerminal(t, "worker") /\ Evidence(t) = "FAILED"

(* Wrong variant: nobody looks whether the agent is alive. *)
RecoverOrphanUnchecked(t) ==
    AuthorizeOrphan(t) /\ Evidence(t) \in {"RUNNING", "LOST", "EXPIRED"}

RecoverOrphan(t) ==
    AuthorizeOrphan(t) /\ Evidence(t) \in {"LOST", "EXPIRED"}

OperatorNext ==
    /\ \/ \E o \in Operators : RetryStep(o)
       \/ \E t \in Task : Commanded(t) /\ RequestRework(t)
       \/ \E t \in Task : Commanded(t) /\ OverrideSecurity(t)
       \/ \E t \in Task : Commanded(t) /\ RecoverTimeout(t)
       \/ \E t \in Task : Commanded(t) /\ RecoverWorkerFailure(t)
       \/ \E t \in Task : Commanded(t) /\ RecoverOrphan(t)
    /\ UNCHANGED worker

Next == WorkerNext \/ OperatorNext

Spec == Init /\ [][Next]_vars

(* A session that has a next step takes it, an agent ends or passes its    *)
(* deadline, and a resumable task is resumed again and again: every pass   *)
(* of the pool offers every candidate to a session (worker_pool.py         *)
(* run_pass), though between two passes all sessions may be taken.         *)
Fairness ==
    /\ \A s \in Session : WF_vars(SessionStep(s) /\ UNCHANGED operator)
    /\ \A a \in Attempt : WF_vars(AgentStep(a) /\ UNCHANGED operator)
    /\ \A t \in Task :
          SF_vars((\E s \in Session : Selectable(t) /\ Resume(s, t))
                    /\ UNCHANGED operator)

FairSpec == Spec /\ Fairness

-----------------------------------------------------------------------------
(* Safety *)

(* A task is never RUNNING without a durable run behind it: the run row is *)
(* written before CLAIMED -> RUNNING (dispatch.py _advance_to_running),    *)
(* and no recovery, retry or late row write puts RUNNING back without one. *)
RunningIsBacked ==
    \A t \in Task : status[t] = "RUNNING" => HasRun(t)

(* Whatever two dispatchers start for a task, and although only the first  *)
(* can write its run row: of the agents at work, those on record serve     *)
(* different tasks in different workspaces.  A refused dispatcher's agent  *)
(* gets no row beside the first one, and no collector or recovery ends the *)
(* row of an agent that still works, which would give its place in the     *)
(* unique indexes to another (dispatch.py _persist_run, tracking.py        *)
(* refresh, sqlite.py authorize_orphaned).                                 *)
RecordedAgentsIsolated ==
    \A t, u \in Task : \A a, b \in Attempt :
        (/\ a # b /\ engine[a].st = "RUNNING" /\ engine[b].st = "RUNNING"
         /\ RowOf(t, a) # {} /\ RowOf(u, b) # {})
            => t # u /\ engine[a].ws # engine[b].ws

(* The claim is a semaphore over the whole factory: tasks in a busy state  *)
(* and tasks with an active run never outnumber max_active_claims          *)
(* (the idle guard of _apply_transition), across crashes and lost agents.  *)
ClaimBound ==
    Cardinality({t \in Task : Occupies(t)}) <= MaxActiveClaims

(* The agents really alive are bounded too, those of sessions that crashed *)
(* between starting the agent and writing its run row included: the CLAIMED*)
(* task they leave behind keeps the claim (dispatch.py _start_run).        *)
AgentBound ==
    Cardinality({a \in Attempt : engine[a].st = "RUNNING"})
        <= MaxActiveClaims

(* The limit on parallel work holds for the tasks the store counts and for *)
(* the agents really at work, across crashes and lost agents (the idle     *)
(* guard of _apply_transition).                                            *)
CapacityHolds == ClaimBound /\ AgentBound

(* Two live agents never write to one checkout (dispatch_rework reuses the *)
(* workspace of the previous run).                                         *)
AgentsIsolated ==
    \A a, b \in Attempt :
        (a # b /\ engine[a].st = "RUNNING" /\ engine[b].st = "RUNNING")
            => engine[a].ws # engine[b].ws

(* A task with an active run is CLAIMED or RUNNING, so that the READY      *)
(* check of dispatch refuses it (dispatch.py, idempotency rule) and some   *)
(* pass observes the run again.                                            *)
ActiveRunIsObservable ==
    \A t \in Task : ActiveRuns(t) # {} => status[t] \in {"CLAIMED", "RUNNING"}

(* The history explains the status: the last recorded transition ends in   *)
(* the stored state (apply_transition writes both in one transaction, the  *)
(* blocked_reason updates that follow write no history).                   *)
HistoryMatchesStatus ==
    \A t \in Task : hist[t].last = status[t]

(* The stored status agrees with the other tables: the last row of its     *)
(* history ends in it, and a task with an active run is where passes       *)
(* observe the run (sqlite.py apply_transition, dispatch.py).              *)
StatusIsExplained == HistoryMatchesStatus /\ ActiveRunIsObservable

(* What a human is asked to review is the latest run of the task, it       *)
(* succeeded with green gates, and the pull request on record for its      *)
(* branch names it - also after review cycles, failed publications and     *)
(* crashes between the publication's writes (publication.py).              *)
ReviewedRunIsGreen ==
    \A t \in Task : status[t] \in {"PR_OPEN", "WAITING_HUMAN"} =>
        /\ HasRun(t)
        /\ Publishable(LatestRun(t))
        /\ [ws |-> LatestRun(t).ws, run |-> LatestRun(t).id] \in prs[t]

(* A branch has one pull request on record, whatever is retried. *)
OnePrPerBranch ==
    \A t \in Task : \A p, q \in prs[t] : p.ws = q.ws => p = q

(* Operator retries, terminal recoveries and human QA together never take  *)
(* a task past run_retry_limit failed runs (retry.py, terminal_recovery.py)*)
FailedRunsBounded ==
    \A t \in Task : Cardinality(FailedRuns(t)) <= RunRetryLimit

(* Automatic corrections stop: no more than correction_limit corrections   *)
(* follow a gate failure in a row (runtime.py _gate_failure_streak).       *)
CorrectionsBounded ==
    \A t \in Task : GateFailureStreak(t) <= CorrectionLimit + 1

(* Nobody burns attempts without end: neither people with retries and      *)
(* recoveries nor the runtime with corrections (retry.py, runtime.py).     *)
AttemptsBounded == FailedRunsBounded /\ CorrectionsBounded

-----------------------------------------------------------------------------
(* Refinement *)

Machine == INSTANCE TaskMachine

(* Every status write of every process, the blind row updates included, is *)
(* a step of the lifecycle graph or of an audited recovery                 *)
(* (sqlite.py _apply_transition, update, _authorize_terminal_recovery).    *)
LifecycleRefined == Machine!Spec

-----------------------------------------------------------------------------
(* Action properties *)

(* A run that ended keeps its status and its gates: no late collector      *)
(* re-opens or rewrites it (tracking.py refresh, update_run).              *)
TerminalRunsImmutable ==
    [][\A t \in Task : \A i \in DOMAIN runs[t] :
         IsTerminal(runs[t][i]) => runs'[t][i] = runs[t][i]]_vars

(* A task enters VALIDATING only on the evidence of its latest run, which  *)
(* succeeded: a superseded run never drives (tracking.py), and a retried   *)
(* publication resumes the run that was validated (retry.py).              *)
ValidatesLatestRun ==
    \A t \in Task :
        status[t] # "VALIDATING" /\ status'[t] = "VALIDATING" =>
            HasRun(t) /\ LatestRun(t).status = "SUCCEEDED"

(* A task blocked by a failed publication is never sent to a new agent     *)
(* before its pull request is on record: it leaves BLOCKED only to publish *)
(* the validated run again (retry.py, recovery.py is_publication_retry).   *)
PublicationRetryKeepsRun ==
    \A t \in Task :
        IsPublicationRetry(t) /\ ~ PrForRun(t, LatestRun(t).id) =>
            status'[t] \in {"BLOCKED", "VALIDATING"}

(* Validated work is kept: validation and publication stay with the latest *)
(* run, through overrides and retries (tracking.py, retry.py).             *)
ValidatedRunIsKept == [][ValidatesLatestRun /\ PublicationRetryKeepsRun]_vars

-----------------------------------------------------------------------------
(* Liveness *)

(* No run stays active for ever: whatever crashes, fails to be collected   *)
(* or is lost on the way, some later pass ends it (runtime.py _run_once,   *)
(* tracking.py refresh), as long as the task's routing stays valid.        *)
ActiveRunsEnd ==
    \A t \in Task : ActiveRuns(t) # {} ~> ActiveRuns(t) = {}

(* A task whose run ended is not left RUNNING, and a validated one reaches *)
(* a human, its next correction or a block: validation and publication are *)
(* resumed until they decide (runtime.py, publication.py _reconcile).      *)
WorkSettles ==
    \A t \in Task : status[t] \in {"RUNNING", "VALIDATING", "PR_OPEN"}
                     ~> status[t] \notin {"RUNNING", "VALIDATING", "PR_OPEN"}

=============================================================================
