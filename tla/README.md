# TLA+ model of the AI factory

The factory turns tracked issues into pull requests. A pool of worker sessions
takes a task, claims it, starts a coding agent in an isolated checkout, observes
the agent until it ends, runs the required gates, and publishes green work for
a human to review. Merged work is reconciled with its Issue and its backlog card.
Operators authorize sprints, retry, send work back and recover what got stuck,
each command in a process of its own. All processes meet in one SQLite database.
This directory models the factory, checks it with TLC and proves the safety of
most of it with TLAPS.

Paths below are relative to `src/src/factory/` unless they start with `src/`.

## 1. Inventory

| Component | State it keeps | Operations | What makes it correct |
|---|---|---|---|
| Task lifecycle (`domain/task_lifecycle.py`, `orchestration/transitions.py`) | none | the transition graph, `transition` | every status write is an edge of the graph |
| Persistence (`infrastructure/persistence`) | tasks, transition history, agent runs, pull requests, QA requests | `apply_transition`, `update`, `save_run`, `update_run`, `record_revision`, authorizations | status and history agree; one active run per task and workspace; the claim guard is a semaphore |
| Dispatch (`orchestration/dispatch.py`) | the run in hand | context, claim, workspace, agent start, run row, RUNNING | no RUNNING without a run; failures leave a recoverable task |
| Tracking (`orchestration/tracking.py`, `reconciliation.py`), gates (`integrations/gates`) | the run in hand | collect, repair, fingerprints, gates, store, drive, reconcile | ended runs stay ended; only the latest run drives; only gated content is bound; crash windows close |
| Runtime (`orchestration/runtime.py`) | the session | selection, outcome branches, blocks, provider reviews, direct operational tasks | corrections are bounded; every run ends; validated work settles |
| Publication (`orchestration/publication.py`, `integrations/workspace`, `integrations/github/pull_requests.py`, `integrations/security`) | pull requests, review events, commits | review, git commands, push, provider PR, PR row, PR_OPEN, WAITING_HUMAN | one pull request per branch; what is pushed is the validated revision and was reviewed |
| Operator services (`retry.py`, `recovery.py`, `rework.py`, `terminal_recovery.py`, security override) | a decision between read and write | retry, request changes, recover timeout / worker failure / orphan, override | attempts bounded; a publication retry keeps its run; no second agent in a live checkout |
| Worker pool (`worker_pool.py`, `__main__.py`) | active sessions, stop flag, wake-up pipe | passes, submission, reports, shutdown | one session per task; every candidate is served; a stop is never slept through |
| Codex adapter and worker (`integrations/codex`) | prompt, result, liveness and cancel files | dispatch, collect, cancel, supervise, orphan evidence | a result means the child ended; a marker decides; a missing result fails at the deadline |
| OpenHands adapter (`integrations/openhands`) | conversations on a server | create, two reads per collection, interrupt | success means finished; one known conversation per checkout |
| Backlog and intake (`backlog.py`, `intake.py`) | link rows with their route, provenance | full passes and passes for one card: reserve, search, recheck, create, link; save | at most one Issue per card, at any crash, lost answer or re-routed card; an eligible card gets it |
| Sprint (`sprint.py`) | sprint rows, events | authorize, pause, resume, cancel, pass | one live sprint; steps in order; an accepted sprint completes |
| Feedback (`feedback.py`, `issue_completion.py`) | evidence, heads, resolution events | merge evidence, closure, card, resolution | DONE is decided on the exact revision; completion repeats safely |
| Status (`status.py`, `status_events.py`) | event outbox, stall rows | observe, flush, acknowledge, alert | what is acknowledged was shown; the queue drains |
| Operational tasks (`runtime.py`, `integrations/operational.py`) | runs of direct and scratch tasks | claim, observe, store, accept | an observation is made once; DONE has green gates |
| Context, routing, configuration, audit, metrics, owner reports | none | projections, wiring, lookups | verdicts of the model, or not modelled |

Interaction: sessions and operators never talk to each other. They share the
database; a transaction is atomic, anything between two transactions is not.
Agents outlive the process that started them and answer through a result file or
a server. GitHub and Trello are shared with people.

What is hard here: state read in one transaction and used in a later one; a row
written back whole (`update`, `update_run`) over somebody else's change; crashes
between starting an agent, saving its row and moving its task; agents that die
without a result; requests that were executed although their answer was lost;
files that change between two git commands; operators and people acting while a
session runs; limits counted over several kinds of attempt. `PROJECT.json` lists
the hazards at their lines.

## 2. Modules

| Module | Models |
|---|---|
| `TaskLifecycle` | states and edges |
| `FactoryStore` | the tables, their queries, and one operator per transaction |
| `Worker` | a session: step, task, run in hand, pending note; selection; faults |
| `Dispatch` | dispatch and rework dispatch |
| `Tracking` | the agents, refresh, drive, reconcile, and the runtime's reaction to an outcome |
| `Publication` | publication and provider reviews, between durable writes |
| `Operator` | retry, rework, recoveries, override |
| `TaskMachine` | abstract specification: what a task's status may do |
| `Factory` | composition of the above and its properties; refines `TaskMachine` |
| `Agent` | abstract specification: what the factory assumes of an agent |
| `CodexWorker` | one Codex run, file by file; refines `Agent` |
| `OpenHands` | the OpenHands engine, request by request; refines `Agent` |
| `Engines` | the choice of the adapter, both engines composed |
| `WorkerPool` | one pool process: main thread, sessions, signals, reports |
| `Validation` | refresh of a run: repair, fingerprints, each gate, store, drive |
| `GitPublish` | publication command by command, security review, PR row, failures |
| `Delivery` | `Validation` and `GitPublish` over one worktree and one task |
| `Backlog` | cards to Issues, Issues to tasks, provenance |
| `Sprint` | sprint commands, passes and `move` |
| `Feedback` | reconciliation of a reviewed task with pull request, Issue and card |
| `StatusOutbox` | status events, stalls, flush, the operator's card |
| `Operational` | direct observations and scratch runs |
| `MCFactory`, `MCDelivery`, `MCBacklog`, `MCSprint`, `MCFeedback`, `MCStatus`, `MCOperational` | finite instances; the other runs need no definitions of their own |
| `FactoryProofs`, `DeliveryProofs`, `EnginesProofs`, `BacklogProofs`, `SprintProofs`, `FeedbackProofs`, `OperationalProofs` | lemmas and theorems about the module of that name |
| `WatchProofs` | lemmas and theorems about the two loops of a watch process: `WorkerPool` and `StatusOutbox` (whose `OutboxInit`, `OutboxNext`, `OutboxSpec`, `OutboxTypeOK` have names of their own so that one module can extend both) |

`Factory` shows the whole of the core with coarse steps: one from each durable
write to the next. The other modules open what is one step there:

* `CodexWorker` and `OpenHands` implement `Agent`, whose steps are those of
  `engine[a]` in `Tracking`. A result there means that nothing works in the
  checkout any more, and an attempt given up (LOST, EXPIRED) is treated as dead
  by the recoveries; `OrphanProofIsSound` is what the orphan recovery rests on.
* `WorkerPool` shows `UnfinishedIsServed`, which is the strong fairness that
  `Factory` and `Operational` assume of selection.
* `Validation` details the gates, and `GitPublish` the review, push and provider
  call, of `Tracking` and `Publication`. `Delivery` joins them, because a late
  edit of the worktree matters to both.
* `Feedback` details the provider reviews, `Operational` the OPERATIONAL tasks
  that `Factory` takes through the same states.

### How state corresponds to the code

`Factory`:

* `status`, `reason` are columns of `tasks`. `reason` keeps the kind of the text
  and the run id that some texts name, because `is_publication_retry` and the
  timeout recovery compare it.
* `hist` is what the code reads from `task_transitions`: the last target, and
  whether nothing but READY was ever entered (`_is_unstarted`).
* `runs[t]` is `list_runs(t)`, oldest first. A row keeps id, workspace, status
  and gate verdict. PENDING and RUNNING are one status: every query treats both
  as active. A green verdict stands for green gates with a bound revision.
* `rework[t]` are the runs with a QA request, `prs[t]` the pull requests (branch
  and run). A workspace, and so a branch, is named after the attempt it was
  first prepared for.
* `engine[a]` is the agent of attempt `a` (external): alive, ended with a
  result, dead without one (LOST), dead and past its deadline (EXPIRED).
* `pc[s]`, `task[s]`, `job[s]`, `note[s]` are the local state of a session
  between two durable writes. A crash loses them and nothing else.
* `opc[o]`, `otask[o]`, `otarget[o]` are a retry between its reads and writes.

Every action is a whole step of the code from one durable write to the next,
including the refusals. `Transition` is `TaskLifecycleService.transition` without
`expected_from` (a task already at the target is returned), `ApplyTransition` is
the compare-and-swap with it. `UpdateRow` is `update`: it writes the status the
caller holds, without history.

In the other modules the head comment lists the steps of a process (`pc`). A
step is one file operation (`CodexWorker`), one request (`OpenHands`, `Backlog`,
`Feedback`, `StatusOutbox`), one statement (`Sprint`), one git command
(`GitPublish`), or one reading or writing of a shared flag or pipe
(`WorkerPool`). Servers, people, the CLI and git are external and do whatever the
code that uses them must expect.

`Feedback`, `StatusOutbox`, `Operational` and `Delivery` have a variable
`setting`: a record chosen once in `Init` that says which processes run, how the
installation is configured, what others may do, and how often; the budgets in it
are counted down. One run so covers several installations, each small where the
others are large, instead of one product of all of them.

### Abstractions

* `Factory` models the pool mode: `_block_failed_publication` applies and the
  claim guard in the store, not the WIP check in `_run_once`, bounds the work.
  No feedback service is configured there, so a merged pull request takes
  WAITING_HUMAN or VALIDATING to DONE; `Feedback` has the service.
* `TaskLifecycleService.transition` reads and writes in one step. The
  compare-and-swap inside makes a lost race a refusal, so what is left out is a
  refusal where the model makes a step.
* Backoff delays are left out: a retry that must wait is a retry taken later.
* File contents are a small set. `Passing` says which gate exits with 0 on which
  content, `flagged` which content has a critical finding.
* `Validation` covers the task's first run; a reworked run enters `GitPublish` by
  its result (`Rework`). A worktree is lost (`Lose`) only before its content is
  bound; afterwards publication reads it and fails like any git command.
* A work item is its place in the listing and the route of its card: the project
  it names, each with a repository of its own, or none if the card is not eligible
  or its route is rejected. An Issue is its marker and its repository; only the
  bridge writes markers. The listing of Issues may lag behind. The readings of one
  listing of cards are one step, each stale when its card is treated. Passes for
  one card, also those of a process that makes full passes, are another process.
  `routing_rejections` is a log nothing reads.
* `Feedback` summarizes a rework in five steps, from the request to the row of the
  new run; `Delivery` has the publication in detail, `Factory` the dispatch.
* `Tracking`: an agent passes its deadline (`AgentExpires`) only when it is dead. A
  Codex worker that started late, or hangs, may be alive when the collector stores
  FAILED (`codex/adapter.py:213`); `Engines` has that case, `Factory` does not.
* `StatusOutbox`: `for_task` reads the task, its runs and its history in one step.
  What commits in between is a later event than the rows the flush has read, so it
  is not acknowledged with them. Nothing deletes a task, so its `KeyError` branch
  (`status_events.py:60`), which acknowledges the rows unseen, is left out.
* `Operational`: a pass's reconciliation of other runs is left out, and the two
  writes of a block are one step.
* `OpenHands` begins with a run that failed its gates, so that the next one is a
  correction in the same checkout.
* Publishing a WAITING_HUMAN task again changes nothing and is not an action of
  `Factory`.

## 3. Runs

| Run | Instance | Properties |
|---|---|---|
| `pool` | two sessions, one claim, a CODE and an OPERATIONAL task, 3 attempts, 2 faults | `TypeOK`, `CapacityHolds`, `StatusIsExplained`, `TerminalRunsImmutable`, `ActiveRunsEnd`, `WorkSettles` |
| `operator` | one task, one careful operator, the production limits (3 failed runs, 2 corrections), 4 attempts, 3 faults | `AttemptsBounded`, `ReviewedRunIsGreen`, `AgentsIsolated`, `ValidatedRunIsKept`, and `LifecycleRefined`, the refinement of `TaskMachine` |
| `races` | two processes on one task, a careless operator, every command and fault | `OnePrPerBranch`, `RunningIsBacked`, `RecordedAgentsIsolated` |
| `engines` | either adapter; Codex with two cancellers and four kinds of fault; OpenHands with five | `EnginesImplementAgent`, the refinement of `Agent` by both; `EvidenceIsSound`, `CancelIsObeyed`, `OneConversationPerCheckout`, `EveryRunEnds` |
| `sessions` | two tasks, two slots, one event of each kind | `SessionsContained`, `StopIsHeeded`, `UnfinishedIsServed` |
| `delivery` | two gates, four contents, five settings | `PublishedIsExact`, `PublishedWasReviewed`, `BranchIsTrue`, `DeliveryEnds` |
| `backlog` | one card and two events, or two cards of different routes and one event; a process with full passes, one with passes for single cards; any number of intakes | `IssuesAreSound`, `RecordsAreFinal`, `MaterializationEnds` |
| `sprint` | sprints of two and one steps, two workers, an operator, with and without registry | `SprintIsOrdered`, `SprintCompletes` |
| `feedback` | five settings: all that people do, with a failure and the superseded marker, or with more decisions and neither; two processes and a moving branch; two processes and a failure after a merge; three failures of one process | `DeliveryIsExact`, `CompletionIsOrderly`, `DeliverySettles` |
| `status` | four settings: two flushers; two tasks; a task that stalls twice, an event at a time; a run replaced while a flusher looks on | `CardIsTrue`, `AlertNotLost`, `NewsArrives` |
| `operational` | four settings: a pool of two; a policy that refuses; a process that dies twice; two processes that are no pool | `ObservationIsSound`, `NoCapacityLeak`, `Settles` |
| `sprint_delivery` | one worker, with a registry | violates `DeliveredSprintResumes`, see below |

Several properties are conjunctions of parts, each stated and explained where it
is defined:

| Property | Parts |
|---|---|
| `CapacityHolds` | `ClaimBound`, `AgentBound` |
| `StatusIsExplained` | `HistoryMatchesStatus`, `ActiveRunIsObservable` |
| `AttemptsBounded` | `FailedRunsBounded`, `CorrectionsBounded` |
| `ValidatedRunIsKept` | `ValidatesLatestRun`, `PublicationRetryKeepsRun` |
| `SessionsContained` | `AtMostOneLateSession`, `NoSessionOutlivesPool`, `DistinctSessions` |
| `StopIsHeeded` | `StopWakesSleeper`, `StopEndsPool` |
| `EvidenceIsSound` | `ResultMeansChildEnded`, `OrphanProofIsSound`, `SuccessMeansFinished` |
| `CancelIsObeyed` | `NoStaleMarker`, `EarlyMarkerKeepsChildOut`, `MarkerDecides` |
| `PublishedIsExact` | `PublishedIsValidated`, `PushedPassesGates`, `PublishedStaysBound` |
| `BranchIsTrue` | `RowIsPublished`, `PersonsWorkKept`, `HumanSeesLatest` |
| `DeliveryEnds` | `ValidationEnds`, `PublicationSettles` |
| `IssuesAreSound` | `AtMostOneIssue`, `ProvenanceIsSound` |
| `SprintIsOrdered` | `OneLiveSprint`, `DeliveredInOrder` |
| `DeliveryIsExact` | `DoneIsDecided`, `MergedIsExact` |
| `CompletionIsOrderly` | `EventIsLast`, `OneClosureComment` |
| `CardIsTrue` | `DeliveredWasShown`, `CardIsCurrent` |
| `NewsArrives` | `EventsDrain`, `StallIsAlerted` |
| `ObservationIsSound` | `DoneIsGreen`, `ObservedOnce` |
| `NoCapacityLeak` | `CapacityKept`, `EndedHasNoRun` |

The mutants in `PROJECT.json` show of each property that a plausible slip in the
code breaks it: a definition is replaced by its "wrong variant", which stands
before it in the module. `TypeOK` of the modules beside `Factory` documents their
state and holds in the same instances; it is not among the listed properties.

### Bounds

* `MaxConcurrency` of the pool is 1 or 2, so two sessions are all that the code
  allows. `MaxAttempts` is enough for an original run, its corrections and one
  more than the limits permit; faults are enough for a fault during the recovery
  from another. Sessions are interchangeable: `races` uses symmetry, the runs
  with liveness do not.
* Two processes suffice for the races of the stores: every check-then-write of
  the code is between one reader and one other writer.
* `delivery`: a validation with one edit, a lost worktree and two faults, from a
  running engine and from a run stored by an earlier release without a revision;
  a bound worktree with all that others may do, two edits and two faults; two
  processes with commits of the agent and a rework; undisturbed publications in
  pool mode and in run and watch with three faults each, so that a retry of a
  retry fails too.
* `status`: `limit`, the rows one reading returns, is below the number of events
  except in the setting that replaces a run, where four transitions and the stall
  of the first run, observed late, are read together.
* `backlog`: an event is a crash, a failed request, an edited card, an Issue that a
  person opens or closes. Two are a lost answer followed by a crash, or a re-routed
  card followed by another edit; with two cards one is enough for the first card to
  fail, or to be re-routed, before the second. What is safe is proved for any number.
* `races` has one task, because the sessions of both processes and the operator
  meet there; that the agents of different tasks stay apart is proved
  (`RecordedIsolated`), and `pool` has two tasks.
* `sprint`: the second step depends on the first, and the second sprint competes
  for the same project.
* Deadlock is checked in `sessions`, `feedback` and `status`, whose systems go on
  for ever or stutter where they end; elsewhere the system may stop: tasks ended,
  people are waited for, or a bound is reached.

`SharedTasks` lets two processes drive one task at a time (two watchers on one
database); one pool never does. `CarefulOperators` makes operators leave a task
alone while a session holds it and check for untracked agents first, as
`src/docs/development.md` asks; the code checks neither.

### What the properties do not say

* `CorrectionsBounded` needs `run_retry_limit <= correction_limit + 1`, which
  holds for the defaults: beyond that a retry adds a gate failure to the streak.
* `PushedPassesGates` holds because the files change at most once before they
  are bound; a change that is undone between the two fingerprints is not noticed.
* `HumanSeesLatest`, `EventIsLast` and `CardIsCurrent` are about one process;
  `PublicationSettles` about settings where nobody disturbs the worktree or the
  pull request and no crash separates the two writes of a block.
* `OneConversationPerCheckout` counts the attempts the factory knows of, not a
  conversation whose creation was not answered.
* `RecordedAgentsIsolated` is about agents on record. Of two dispatchers of one
  task only the first can write its run row, yet the agent of the second has been
  started: with two processes neither `AgentBound` nor, for a rework, which reuses
  the checkout, `AgentsIsolated` holds.
* `CapacityHolds`, `AgentsIsolated` and `RecordedAgentsIsolated` do not cover a
  Codex worker that outlives the deadline its collector waits for.
* `MaterializationEnds` excepts a write whose outcome is unknown while no Issue of
  it is found (`docs/backlog.md` says so), and a card behind a re-routed one, or
  re-routed itself: no full pass reaches it any more.
* `MarkerDecides` excepts a worker that is killed, meets an OSError or could not
  start its child.
* `OneClosureComment` allows one comment per reconciling process.
* `AlertNotLost` is about what still calls a person: a stall of a run that was
  replaced or of a heartbeat that resumed is acknowledged in silence, also when it
  is observed only after the new run stalls too, with the same heartbeat count.
* `DoneIsGreen`, `EndedHasNoRun`, `ObservedOnce` and `CapacityKept` are about one
  process or the sessions of one pool.
* `DeliveredInOrder` is about sprints that share no item.
* `DistinctSessions` excepts a task another process moved during the queries.
* `SprintCompletes` is about installations without a project registry.

Each of these limits is a behaviour of the code, listed at the end of this
section where a document says otherwise.

### Fairness

* `Factory`: a session that has a next step takes it (a thread is not suspended
  for ever); an agent ends or passes its deadline (the worker enforces a
  timeout); a task that stays resumable again and again is resumed (strong: every
  pass offers every candidate, though in between all sessions may be taken). New
  work, reviews, faults and operators are not fair. `pool` has no routing fault:
  a rejection blocks a RUNNING task deliberately and its run is not observed any
  more.
* `CodexWorker`, `OpenHands`: the worker process runs unless it is killed, time
  passes, the factory keeps polling; the server works on what it accepted.
* `WorkerPool`: threads and the signal handler are scheduled, sessions return.
* `Backlog`: the process that makes full passes begins one again and again (strong,
  for the same process is busy in between) and the pass takes its steps; the
  provider's listing catches up. That a pass reaches a card is not assumed, nor is
  anything of the other processes.
* `Sprint`: passes go on, the factory works on what a sprint allows, and a person
  decides every review in the end, which is the premise of "accepted".
* `Feedback`, `StatusOutbox`: passes and flushes are repeated; CI ends; a task left
  PR_OPEN is selected again (`runtime.py` lists that status).
* `Operational`, `Delivery`: passes are repeated, engines end, and an operator
  retries what `retry` accepts or overrides what is waiting for a decision: a
  blocked task is the factory's request for that.

People's other decisions, edits, faults and crashes are never fair.

### Where the code and its documents disagree

`sprint_delivery` is kept as a run: with a project registry a sprint asks for an
event that nothing records, so it pauses at its first accepted step for good
(`PROJECT.json` quotes the lines).

The following were met with other bounds or with stronger forms of the
properties; the properties above state what holds.

| Where | What happens |
|---|---|
| `dispatch.py:190` | two dispatchers both pass the claim, because a task found CLAIMED is returned as success (`transitions.py:58`), although the comment there says that who lost "must not create a workspace or run"; the unique index later refuses the second run row, when its workspace and agent exist already, for a rework in the same checkout |
| `backlog_sqlite.py:34` | a card given another project after its reservation makes every full pass end with an error: it stays RESERVED, the cards behind it are not reached, and the GitHub intake that follows in the same pass of the runtime (`runtime.py:274`) does not run, although `docs/backlog.md` calls the periodic pass "the safety net" |
| `codex/adapter.py:213` | the collector gives up on a worker that is still alive; what follows the failed run may start another agent beside it |
| `run_sqlite.py:142` | a collector that read RUNNING re-opens a run that the orphan recovery recorded FAILED |
| `run_sqlite.py:183` | of two processes that refresh one run the slow one overwrites the revision of a run already published |
| `retry.py:72` | a retry takes back the claim of a dispatch that has not saved its run yet |
| `dispatch.py:176` | writing the reason of a context block undoes a retry in between, and the history does not show it |
| `recovery.py:64` | a block without a run is retried whatever caused it, against the comment there |
| `dispatch.py:215` | a workspace that cannot be prepared leaves a CLAIMED task without a run, which no service moves |
| `dispatch.py:229` | a creation whose answer is lost is a FAILED run; its conversation works on in the checkout the next attempt uses |
| `openhands/adapter.py:185` | an error of the second read is raised, although the docstring promises a terminal status |
| `codex/worker.py:111` | the process group is killed only while the CLI itself is alive; what it left behind survives a timeout |
| `runtime.py:301` | a task moved between two queries is a candidate twice, and gets two sessions |
| `worker_pool.py:110` | a session that was launching its agent when the stop came is never asked to cancel |
| `sqlite.py:115` | an intake between the creation of an Issue and the completion of its link records the task as direct for good |
| `sprint_sqlite.py:172` | `move` validates a row it read earlier: a cancel or a pause in between is overwritten |
| `sprint.py:378` | a delivered step resumes a sprint that a person paused |
| `runtime.py:879` | the row written after a closed pull request undoes a resolution to DONE in between |
| `issue_completion.py:27` | two processes both find no closure comment and both post it |
| `feedback_sqlite.py:87` | an Issue closed again for another reason gets a second final event |
| `publication.py:414` | a slow process hands over the task of a later run that was never pushed |
| `runtime.py:1024` | a crash between the block and its marker leaves a publication that cannot be retried |
| `tracking.py:324` | files changed and restored while the gates run pass the comparison |
| `status_events.py:65` | an older snapshot sent late stays on the card |
| `status_events.py:67` | a transition announced with an earlier event is announced again |
| `persistence/status_events.py:37` | after one stall every later heartbeat queues an event |
| `status.py:53` | only the task presented last is observed: the stall of another one alerts nobody |
| `runtime.py:574` | after a crash a direct operational task is refused as another engine's for ever |
| `transitions.py:58` | a second process passes the claim of a direct task behind the first and observes again, also when the place was given to another task meanwhile: the capacity is then exceeded |
| `runtime.py:658` | a direct task is RUNNING before its run is stored |

## 4. Proofs

TLAPS proves the following for every value of the constants: any number of tasks,
processes, contents, gates, cards, sprints, and any bounds on faults and attempts.

| Module | Theorems |
|---|---|
| `FactoryProofs` | with shared tasks and careless operators: `TypeCorrect` (`TypeOK`), `RunningBacked` (`RunningIsBacked`), `RecordedIsolated` (`RecordedAgentsIsolated`), `OnePrProved` (`OnePrPerBranch`) |
| | with one writer per task: `LifecycleProved` (the refinement `LifecycleRefined`), `TerminalRunsProved` (`TerminalRunsImmutable`), `HistoryProved` (`HistoryMatchesStatus`), `StatusProved` (`StatusIsExplained`), `ReviewedProved` (`ReviewedRunIsGreen`), `ValidatedProved` (`ValidatedRunIsKept`), `AttemptsProved` (`AttemptsBounded`), `AgentsIsolatedProved` (`AgentsIsolated`), `CapacityProved` (`CapacityHolds`), and of the last the part on the claims under fewer hypotheses: `ClaimBoundProved` (`ClaimBound`) |
| `WatchProofs` | of the pool: `ContainedProved` (`SessionsContained`), and of `StopIsHeeded` the safety part: `SleeperWakes` (`StopWakesSleeper`); of the outbox: `CardProved` (`CardIsTrue`), `AlertsProved` (`AlertNotLost`), `OutboxTyped` (`OutboxTypeOK`) |
| `DeliveryProofs` | `ReviewedProved` (`PublishedWasReviewed`), `BranchProved` (`BranchIsTrue`), `PublishedProved` (`PublishedIsExact`) |
| `EnginesProofs` | `EvidenceProved` (`EvidenceIsSound`), `CheckoutsProved` (`OneConversationPerCheckout`), `EnginesRefineAgent` (the refinement `EnginesImplementAgent`), `CodexImplementsAgent`, and of `CancelIsObeyed` the safety parts: `MarkersAreConsumed`, `EarlyCancelIsObeyed` |
| `BacklogProofs` | `OneIssuePerItem` (`IssuesAreSound`), `LinksAreFinal` (`RecordsAreFinal`) |
| `SprintProofs` | `OneLiveProved` (`OneLiveSprint`), `SprintOrderProved` (`SprintIsOrdered`) |
| `FeedbackProofs` | `DeliveryProved` (`DeliveryIsExact`), `CompletionProved` (`CompletionIsOrderly`) |
| `OperationalProofs` | `ObservationProved` (`ObservationIsSound`), `CapacityProved` (`NoCapacityLeak`) |

Assumptions: the named assumptions of the modules (`StoreAssumption`,
`GitPublishAssumption`, `OperationalAssumption`, ...), which say that bounds are
naturals, that processes and tasks are finite in number where they are counted,
and that a setting is a record of its kind; TLC evaluates them in every run. Some
theorems have a hypothesis of their own, because the code needs it:

* The second group of `FactoryProofs` assumes `Owned`: no two sessions take one
  task, and an operator who gives commands waits until the task is quiet. The
  pool promises the first and `docs/development.md` asks for the second; the
  `Races` instance drops both, and `update` and `update_run` then overwrite what
  another process wrote (`sqlite.py`, `run_sqlite.py`).
* `StatusProved` also assumes that the registry keeps routing the tasks under way:
  a routing rejection blocks a RUNNING task beside its active run
  (`runtime.py:360`).
* `ClaimBoundProved` also assumes that no operator retries or overrides: both send
  a task back to VALIDATING without counting the claims.
* `CapacityProved` assumes that and what `StatusProved` assumes: a session that
  dies between starting an agent and writing its row leaves a CLAIMED task behind,
  whose claim counts for the agent; a routing rejection blocks that task
  (`runtime.py:360`) and gives its claim away while the agent still works.
* `AttemptsProved` also assumes `Limited`: where retries may be given,
  `run_retry_limit <= correction_limit + 1`. The defaults (3 and 2,
  `recovery.py:24`) satisfy it with nothing to spare. A retry is counted against
  `run_retry_limit` only, so with a larger one operators can pass the correction
  limit; the proof attempt showed it.

* `SprintOrderProved` assumes `DisjointManifests`: no item is a step of two
  sprints. Within a sprint the plan refuses a duplicate, across sprints nothing
  does, and an Issue that another sprint created comes out of turn.
* `PublishedProved` assumes `OneValidatorOneChange`: one process validates a run,
  or it is bound already, and the files change at most once before they are
  bound. Two processes that validate one run overwrite each other's revision
  (`run_sqlite.py:183`), and a change that is undone between the fingerprints is
  not seen (`tracking.py:324`).

Every inductive invariant was first checked by TLC on the instance of its run. No
property above is inductive alone; what each needs:

* `Factory` (`IInv`): `refresh` reads the row of the run in hand, so `RunsTracked`
  (a session that advances, polls or drives has its row on record) and
  `NotesDoNotRun` (no pending row write holds RUNNING) join `TypeOK`. Whatever
  step is taken, `agent_runs` changes only by a save or an update under the unique
  indexes (`NextRunsStep`): rows are kept and active rows stay isolated. A row is
  recorded as ended only after its agent ended, so the agents at work that have a
  row have an active one, and those are isolated (`RecordedIsolated`). Only
  `_advance_to_running` makes a task RUNNING, and it acts for a tracked run.
  Ids of runs and workspaces are never given twice (`IdentInv`), so a publication
  that finds a row of its branch revises it and one that finds none is the first.
* `Factory` with one writer per task (`OInv`, `KInv`, `CInv`, `AInv`). `OInv`: the status
  of a task is what its session left it at, and a task between sessions has no
  session and no command under way; so the status a blind write puts back is the
  one it finds. `KInv`: what a session or a command has read of the latest run is
  still so when it acts, since only its writer adds or changes rows; a task that
  awaits a human has a latest run that succeeded, green and on record. `CInv`: the
  failed runs and the corrections in a row are counted when a task is sent back to
  an agent, not when the run ends, so the invariant leaves room for one more of
  each wherever an agent may still be started. `AInv`: there is an injection from
  the agents at work to the tasks. The task of an agent either has an active row
  that names it (`OnRow`), or the agent has no row anywhere and the task stands
  where no session starts another agent for it (`Adrift`): CLAIMED, BLOCKED or
  CANCELLED without an active run, its sessions past the start. A row is recorded
  as ended only after its agent ended (`Ended`), a checkout belongs to one task
  and was first made for a run of it (`Checkouts`), and an agent works in its own
  checkout or an earlier one of its task (`Rooted`). For the bound on the agents
  the task of a rowless agent must keep its claim (`Kept`): the only run that
  passes can observe for it ended before, failed its gates or was sent back by
  people (`Held`), and that leads nowhere from CLAIMED.
* `WorkerPool` (`PInv`): a pass lists its candidates while no session runs (`Quiet`)
  and asks for one status after the other, so that as long as nobody else moves a
  task none is listed twice, and those left have no session (`Distinct`). A
  candidate is taken only with room and before the stop request, and none after
  the one in hand (`Late`). While the main thread goes to sleep, a request that
  came is in the pipe (`Awake`).
* `StatusOutbox` (`FlushInv`): a snapshot in hand was read after the rows its flush
  is to acknowledge, and its last event is the task's last one of then (`InHand`),
  so whatever it acknowledges was shown before. `InHand` also says that the
  snapshot shows the phase of the call if its last event still calls somebody;
  that is stable because no step makes an earlier event call again
  (`CallsBefore`): a transition into a phase people must act on has an event of its
  own, and an observed stall stays past (`Past`) until its run or its heartbeat is
  another one. `AlertNotLost` without the run of the stall is not provable, and
  false: a stall observed after its run was replaced carries a heartbeat count the
  new run may reach. The part about the current card needs that one flusher sends
  its snapshots in the order it reads them (`InOrder`). What a flush
  delivers are the tasks of the rows it read, each of them once (lemma `TasksInOrder`).
* `Delivery` (`BoundInv`, `Gated`): commits are only added and know their
  ancestors, and a push is accepted only over them, so what the branch held once
  it holds for ever. What a process has in its local values was true when it was
  read and cannot become false. A validation is under way only while nothing is
  bound, so a bound revision never changes. Between the two fingerprints either
  nothing was written, and every green gate is green for the revision, or the
  second fingerprint differs.
* `Engines` (`CodexInv`, `OpenHandsInv`): where the worker stands tells what is
  in the files, because it publishes after it has reaped its child and consumes
  the marker after it has published; a marker that outlives the worker has a
  canceller that looks again. The runs of a task at OpenHands are sequential: all
  but the latest failed, and a known conversation has ended when its run has. The
  refinement maps every step of both engines to a step of `Agent` or a stutter.
* `Backlog` (`IInv`): the link row is the token for the one write of its item.
  Only the winner of RESERVED -> POSTING posts and nothing leads back, so while
  somebody is about to post the item has no Issue. The row keeps the route it was
  reserved for, and only a process whose card still had that route goes on with it;
  an Issue in hand or on a link carries the item's marker and is in that repository.
* `Sprint` (`IInv`): `move` writes a row it read earlier, yet what a process has
  in hand stays true, because the steps behind the position it loaded are
  delivered and stay so. The unique index alone keeps live sprints apart.
* `Feedback` (`IInv`): what justifies DONE is stable at the provider, so a value
  read about it may be stale and still be true when it is used. Those about to
  post a comment and the comments posted never exceed the processes.
* `Operational` (`IInv`): only the latest run of a task may be active, and an
  observer owns it. A process that has its task for itself knows the status it
  left it in, except that a retry may have taken back a claim; the claim guard
  counts what is in work, and each step adds at most the task in hand. Without
  the premise that one process or one pool works, the bound fails (see
  `transitions.py:58` above): the proof attempt showed it.

Only model-checked:

* liveness, and so `ActiveRunsEnd`, `WorkSettles`, `EveryRunEnds`, `MarkerDecides`,
  `UnfinishedIsServed`, `StopIsHeeded`, `DeliveryEnds`, `MaterializationEnds`,
  `SprintCompletes`, `DeliverySettles`, `NewsArrives`, `Settles`: fairness and
  ENABLED are out of the prover's reach.

## 5. Not modelled

* Context and memory build the prompt; they succeed or fail in `Dispatch`.
* Project routing is a lookup; its rejection is a fault of `Worker`.
* Audit, metrics and owner reports only read, or write comments nothing reads.
* Configuration, CLI parsing, logging, ports and HTTP transport are wiring.
* The probes of the operational executors and the patterns of the security scan
  are verdicts; the permission walk of `workspace/shared_policy.py` succeeds or
  fails.
* `FactoryWatcher` and `FeedbackReconciliationService.reconcile` are called by
  nothing.
* Schema migrations and the encoding of columns.

## 6. Plan

All modules of the plan are written, and every safety property the runs check, as
an invariant, an action property or a refinement, is proved under the hypotheses
named in section 4. What is left to TLC is liveness.
