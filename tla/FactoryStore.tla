----------------------------- MODULE FactoryStore -----------------------------
(***************************************************************************)
(* The durable tables every process of the factory shares: tasks, their    *)
(* transition history, agent runs, human-QA requests and pull requests     *)
(* (infrastructure/persistence).  An operator below that primes a variable *)
(* is one SQLite transaction; the tables survive every crash.              *)
(*                                                                         *)
(* A run row keeps what the control flow reads: the attempt that produced  *)
(* it, its workspace, its status and the verdict of its required gates.    *)
(* "RUNNING" also stands for PENDING: the code treats both as active.      *)
(* A workspace is named after the attempt it was first prepared for.       *)
(***************************************************************************)
EXTENDS TaskLifecycle, Naturals, Sequences, FiniteSets

CONSTANTS
    Task,             \* identities of the factory tasks
    Operational,      \* the tasks of kind OPERATIONAL; the others are CODE
    MaxAttempts,      \* bound: agent attempts started over a behaviour
    MaxActiveClaims,  \* max_active_claims of the task repository
    RunRetryLimit,    \* RecoveryPolicy.run_retry_limit
    CorrectionLimit   \* RecoveryPolicy.correction_limit

ASSUME StoreAssumption ==
    /\ Operational \subseteq Task
    /\ MaxAttempts \in Nat
    /\ MaxActiveClaims \in Nat \ {0}
    /\ RunRetryLimit \in Nat \ {0}
    /\ CorrectionLimit \in Nat

VARIABLES
    status,  \* tasks.status
    reason,  \* tasks.blocked_reason: its kind and the run it names (0: none)
    hist,    \* task_transitions: the last target, and whether all were READY
    runs,    \* agent_runs of each task, oldest first
    rework,  \* qa_rework: the reviewed runs of each task
    prs      \* pull_requests of each task: head branch (workspace) and run

store == <<status, reason, hist, runs, rework, prs>>

Attempt == 1..MaxAttempts
AttemptOrNone == 0..MaxAttempts

RunStatus == {"RUNNING", "SUCCEEDED", "FAILED", "CANCELLED"}

(* Verdict of the required gates; "green" also means a revision was bound. *)
Gates == {"none", "green", "red"}

Row == [id : AttemptOrNone, ws : AttemptOrNone, status : RunStatus,
        gates : Gates]

NoRow == [id |-> 0, ws |-> 0, status |-> "FAILED", gates |-> "none"]

ReasonKind == {"none", "context", "routing", "correction", "security",
               "publication", "closed", "operational",
               "timeout", "worker", "orphan"}

Reason == [kind : ReasonKind, run : AttemptOrNone]

StoreTypeOK ==
    /\ status \in [Task -> TaskStatus]
    /\ reason \in [Task -> Reason]
    /\ hist \in [Task -> [last : TaskStatus, onlyReady : BOOLEAN]]
    /\ runs \in [Task -> Seq(Row)]
    /\ rework \in [Task -> SUBSET AttemptOrNone]
    /\ prs \in [Task -> SUBSET [ws : AttemptOrNone, run : AttemptOrNone]]

StoreInit ==
    /\ status = [t \in Task |-> "DISCOVERED"]
    /\ reason = [t \in Task |-> [kind |-> "none", run |-> 0]]
    /\ hist = [t \in Task |-> [last |-> "DISCOVERED", onlyReady |-> TRUE]]
    /\ runs = [t \in Task |-> << >>]
    /\ rework = [t \in Task |-> {}]
    /\ prs = [t \in Task |-> {}]

-----------------------------------------------------------------------------
(* Queries *)

IsTerminal(row) == row.status # "RUNNING"

(* AgentRun.validation_outcome *)
ValidationOutcome(row) ==
    CASE row.status # "SUCCEEDED" -> "PENDING"
      [] row.status = "SUCCEEDED" /\ row.gates = "red" -> "GATES_FAILED"
      [] OTHER -> "READY_FOR_NEXT_PHASE"

GatesFailed(row) == ValidationOutcome(row) = "GATES_FAILED"
Publishable(row) == ValidationOutcome(row) = "READY_FOR_NEXT_PHASE"

ActiveRuns(t) == {i \in DOMAIN runs[t] : ~ IsTerminal(runs[t][i])}

HasRun(t) == runs[t] # << >>
LatestRun(t) == runs[t][Len(runs[t])]

(* The run before the latest one. *)
HasPrevious(t) == Len(runs[t]) > 1
PreviousRun(t) == runs[t][Len(runs[t]) - 1]

IsLatestRun(t, id) == HasRun(t) /\ LatestRun(t).id = id

HasReworkFeedback(t) == rework[t] # {}

PrForRun(t, id) == \E pr \in prs[t] : pr.run = id
PrForBranch(t, ws) == \E pr \in prs[t] : pr.ws = ws

(* Wrong variant: an open pull request is forgotten. *)
BusyStatusWithoutPrOpen == {"CLAIMED", "RUNNING", "VALIDATING"}

(* A task occupies a claim in these states ... *)
BusyStatus == {"CLAIMED", "RUNNING", "VALIDATING", "PR_OPEN"}

(* ... or while a run of it is active, whatever its own state. *)
Occupies(t) == status[t] \in BusyStatus \/ ActiveRuns(t) # {}

(* Wrong variant: off by one. *)
IdleGuardOffByOne(t) ==
    Cardinality({other \in Task \ {t} : Occupies(other)}) <= MaxActiveClaims

(* The predicate of the claiming UPDATE: room among the other tasks. *)
IdleGuard(t) ==
    Cardinality({other \in Task \ {t} : Occupies(other)}) < MaxActiveClaims

-----------------------------------------------------------------------------
(* Transactions on a task row *)

(* The status column and its history row change together. *)
Record(t, target) ==
    /\ status' = [status EXCEPT ![t] = target]
    /\ hist' = [hist EXCEPT ![t] =
                  [last |-> target,
                   onlyReady |-> @.onlyReady /\ target = "READY"]]

(* apply_transition, reached through TaskLifecycleService: CAS on source. *)
Permitted(t, target) ==
    /\ CanTransition(status[t], target)
    /\ target = "CLAIMED" => IdleGuard(t)

ApplyTransition(t, source, target) ==
    /\ status[t] = source
    /\ Permitted(t, target)
    /\ Record(t, target)

(* TaskLifecycleService.transition without expected_from: a task that is   *)
(* already at the target is returned as it is.                             *)
Transition(t, target) ==
    \/ /\ status[t] = target
       /\ UNCHANGED <<status, hist>>
    \/ /\ status[t] # target
       /\ Permitted(t, target)
       /\ Record(t, target)

(* The same call raises. *)
TransitionRefused(t, target) ==
    status[t] # target /\ ~ Permitted(t, target)

(* SqliteTaskRepository.update: the row as the caller holds it, status     *)
(* included, with no compare-and-swap and no history row.                  *)
UpdateRow(t, target, why) ==
    /\ status' = [status EXCEPT ![t] = target]
    /\ reason' = [reason EXCEPT ![t] = why]
    /\ UNCHANGED hist

-----------------------------------------------------------------------------
(* Transactions on a run row *)

(* The two partial unique indexes: one active run per task, one per        *)
(* workspace.  The row at position i of the task's history is exempt (0:   *)
(* none): it is the one being written.                                     *)
IndexesAllow(t, i, row) ==
    ~ IsTerminal(row) =>
        \A u \in Task : \A j \in ActiveRuns(u) :
            \/ u = t /\ j = i
            \/ u # t /\ runs[u][j].ws # row.ws

(* No run of another task ever used the workspace. *)
OwnsWorkspace(t, ws) ==
    \A u \in Task \ {t} : \A j \in DOMAIN runs[u] : runs[u][j].ws # ws

(* Wrong variant: no unique index over the active runs. *)
CanSaveRunUnindexed(t, row) == OwnsWorkspace(t, row.ws)

CanSaveRun(t, row) == IndexesAllow(t, 0, row) /\ OwnsWorkspace(t, row.ws)

SaveRun(t, row) == runs' = [runs EXCEPT ![t] = Append(@, row)]

(* The position of the row a run id names. *)
RowOf(t, id) == {i \in DOMAIN runs[t] : runs[t][i].id = id}

(* update_run overwrites status and gates, whatever the stored status is;  *)
(* the identity and the workspace of a row never change.                   *)
Updated(t, i, row) == [runs[t][i] EXCEPT !.status = row.status,
                                         !.gates = row.gates]

UpdateRun(t, i, row) == runs' = [runs EXCEPT ![t][i] = Updated(t, i, row)]

=============================================================================
