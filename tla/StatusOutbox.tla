----------------------------- MODULE StatusOutbox -----------------------------
(***************************************************************************)
(* Status events and the operator's card (orchestration/status.py,         *)
(* orchestration/status_events.py, persistence/status_events.py,           *)
(* integrations/trello/status.py).  A trigger queues an event with every   *)
(* meaningful transition; processes that flush the queue observe stalls    *)
(* and recoveries, send the current snapshot of each queued task to the    *)
(* one card, comment on it when a person should act, and then mark the     *)
(* events delivered, each with a statement of its own.                     *)
(*                                                                         *)
(* pc of a flusher:                                                        *)
(*   idle      between two pulses                                          *)
(*   observe   holds the snapshot of current()                             *)
(*   pending   next reads the queue                                        *)
(*   task      next reads the snapshot of Head(todo), or ends              *)
(*   sync, alert, mark    delivers that snapshot, acknowledges the events  *)
(***************************************************************************)
EXTENDS TaskLifecycle, Naturals, FiniteSets, Sequences, SequencesExt, FiniteSetsExt

CONSTANTS
    Tasks,      \* tasks of the database
    Flushers,   \* processes that flush: run or watch, status --serve
    Settings    \* what may happen, by setting:
                \*   flushers, tasks   the processes that flush, the active tasks
                \*   start     statuses an active task may have at the beginning
                \*   limit     rows pending() returns at most
                \*   moves, beats, faults   bounds: transitions of the tasks,
                \*             heartbeats of a task, failed sends and crashes

(* A setting is a record of this kind. *)
Setups == [flushers : SUBSET Flushers, tasks : SUBSET Tasks,
           start : SUBSET TaskStatus, limit : Nat \ {0},
           moves : Nat, beats : Nat, faults : Nat]

ASSUME OutboxAssumption ==
    /\ Tasks # {} /\ IsFiniteSet(Tasks) /\ IsFiniteSet(Flushers)
    /\ Settings \subseteq Setups

VARIABLES
    setting,          \* what may still happen
    taskStatus, touched, \* tasks: status, and place by updated_at (0: inactive)
    run, beat, stale, \* latest run, its last_heartbeat, whether it is too old
    log, delivered,   \* status_events in order, positions with delivered_at
    card,             \* provider: task the card describes, `seen` of the snapshot
    alerts,           \* provider: comments, by the event they are about
    shown,            \* history: the queue as seen by the task's last sync
    pc, snap,         \* flushers: step, snapshot held
    pend, todo        \* flushers: positions read, tasks still to deliver

store == <<taskStatus, touched, run, beat, stale>>
outbox == <<log, delivered>>
provider == <<card, alerts, shown>>
local == <<pc, snap, pend, todo>>
outboxVars == <<setting, store, outbox, provider, local>>

(* The statuses whose transitions the trigger queues. *)
Queued == TaskStatus \ {"DISCOVERED", "READY"}

ALERT_PHASES == {"WAITING_HUMAN", "FAILED", "STALLED", "DONE"}

Phases == TaskStatus \union {"STALLED"}

Events == [task : Tasks, phase : Phases,
           kind : {"transition", "stall", "recovered"},
           run : Nat, beat : Nat]

(* A snapshot of a task: `seen` is the length of the queue when it was     *)
(* read, `last` the task's last event then.                                *)
Snapshots == [task : Tasks, phase : Phases, run : Nat, beat : Nat,
              seen : Nat, last : Nat]

NoSnapshot == [task |-> CHOOSE t \in Tasks : TRUE, phase |-> "READY",
               run |-> 0, beat |-> 0, seen |-> 0, last |-> 0]

Of(t) == { i \in DOMAIN log : log[i].task = t }

LastOf(t) == Max(Of(t) \union {0})

(* A RUNNING task whose heartbeat is too old is presented as STALLED. *)
PhaseOf(t) ==
    IF taskStatus[t] = "RUNNING" /\ stale[t] THEN "STALLED" ELSE taskStatus[t]

ForTask(t) ==
    [task |-> t, phase |-> PhaseOf(t), run |-> run[t], beat |-> beat[t],
     seen |-> Len(log), last |-> LastOf(t)]

Pending == { i \in DOMAIN log : i \notin delivered }

OutboxInit ==
    /\ setting \in Settings
    /\ taskStatus \in [Tasks -> setting.start \union {"DISCOVERED"}]
    /\ \A t \in Tasks : taskStatus[t] = "DISCOVERED" <=> t \notin setting.tasks
    /\ touched \in [Tasks -> 0 .. Cardinality(setting.tasks)]
    /\ \A t \in Tasks : touched[t] = 0 <=> t \notin setting.tasks
    /\ \A t, u \in setting.tasks : touched[t] = touched[u] => t = u
    /\ run = [t \in Tasks |-> 1] /\ beat = [t \in Tasks |-> 1]
    /\ stale = [t \in Tasks |-> FALSE]
    /\ log = <<>> /\ delivered = {}
    /\ card \in [task : setting.tasks, seen : {0}] /\ alerts = <<>>
    /\ shown = [t \in Tasks |-> 0]
    /\ pc = [f \in Flushers |-> "idle"] /\ snap = [f \in Flushers |-> NoSnapshot]
    /\ pend = [f \in Flushers |-> {}] /\ todo = [f \in Flushers |-> <<>>]

(***************************************************************************)
(* The tasks.                                                              *)
(***************************************************************************)

(* A row added to status_events; alerts counts the comments about it. *)
Queue(e) == log' = Append(log, e) /\ alerts' = Append(alerts, 0)

(* A transition is committed, and with it its event.  RUNNING is entered   *)
(* with a new run, whose first heartbeat is its start.                     *)
Move(t, to) ==
    /\ t \in setting.tasks /\ setting.moves > 0 /\ CanTransition(taskStatus[t], to)
    /\ taskStatus' = [taskStatus EXCEPT ![t] = to]
    /\ touched' = [u \in Tasks |-> IF u = t THEN Cardinality(setting.tasks)
                                 ELSE IF touched[u] > touched[t] THEN touched[u] - 1
                                 ELSE touched[u]]
    /\ IF to = "RUNNING"
       THEN /\ run' = [run EXCEPT ![t] = @ + 1]
            /\ beat' = [beat EXCEPT ![t] = 1]
            /\ stale' = [stale EXCEPT ![t] = FALSE]
       ELSE UNCHANGED <<run, beat, stale>>
    /\ IF to \in Queued
       THEN Queue([task |-> t, phase |-> to, kind |-> "transition",
                   run |-> 0, beat |-> 0])
       ELSE UNCHANGED <<log, alerts>>
    /\ setting' = [setting EXCEPT !.moves = @ - 1]
    /\ UNCHANGED <<delivered, card, shown, local>>

(* A collection persists the heartbeat of a run that still executes. *)
Heartbeat(t) ==
    /\ taskStatus[t] = "RUNNING" /\ beat[t] < setting.beats
    /\ beat' = [beat EXCEPT ![t] = @ + 1]
    /\ stale' = [stale EXCEPT ![t] = FALSE]
    /\ UNCHANGED <<taskStatus, touched, run, outbox, provider, local, setting>>

(* The configured number of heartbeats is missed. *)
Misses(t) ==
    /\ taskStatus[t] = "RUNNING" /\ ~stale[t] /\ beat[t] < setting.beats
    /\ stale' = [stale EXCEPT ![t] = TRUE]
    /\ UNCHANGED <<taskStatus, touched, run, beat, outbox, provider, local,
                   setting>>

(***************************************************************************)
(* A flush.                                                                *)
(***************************************************************************)
(* A send fails or a process dies. *)
Fault == setting.faults > 0 /\ setting' = [setting EXCEPT !.faults = @ - 1]

At(f, from, to) == pc[f] = from /\ pc' = [pc EXCEPT ![f] = to]

(* A flush ends, and its locals with it. *)
Leaves(f, from) ==
    /\ pc[f] \in from /\ pc' = [pc EXCEPT ![f] = "idle"]
    /\ snap' = [snap EXCEPT ![f] = NoSnapshot]
    /\ pend' = [pend EXCEPT ![f] = {}] /\ todo' = [todo EXCEPT ![f] = <<>>]

(* current() presents active work first, RUNNING before the rest and the   *)
(* task changed last before the others; observe() ignores every phase but  *)
(* the two of a RUNNING task.                                              *)
Current ==
    LET running == { t \in Tasks : taskStatus[t] = "RUNNING" }
    IN  { t \in running : \A u \in running : touched[u] <= touched[t] }

Pulse(f) ==
    /\ \/ \E t \in Current :
            /\ snap' = [snap EXCEPT ![f] = ForTask(t)]
            /\ At(f, "idle", "observe")
       \/ Current = {} /\ At(f, "idle", "pending") /\ UNCHANGED snap
    /\ f \in setting.flushers
    /\ UNCHANGED <<store, outbox, provider, pend, todo, setting>>

(* Wrong variant: a stall is observed once per run. *)
ObservedPerRun(s) ==
    LET e == [task |-> s.task, phase |-> s.phase,
              kind |-> IF s.phase = "STALLED" THEN "stall" ELSE "recovered",
              run |-> s.run, beat |-> 1]
        stalled == \E i \in DOMAIN log :
                      /\ log[i].task = s.task /\ log[i].run = s.run
                      /\ log[i].kind = "stall"
    IN  IF e \in Range(log) \/ (e.kind = "recovered" /\ ~stalled)
        THEN {} ELSE {e}

(* A stall is an event of the run and of the heartbeat it follows; so is a *)
(* recovery, of a run that has a stall event.                              *)
Observed(s) ==
    LET e == [task |-> s.task, phase |-> s.phase,
              kind |-> IF s.phase = "STALLED" THEN "stall" ELSE "recovered",
              run |-> s.run, beat |-> s.beat]
        stalled == \E i \in DOMAIN log :
                      /\ log[i].task = s.task /\ log[i].run = s.run
                      /\ log[i].kind = "stall"
    IN  IF e \in Range(log) \/ (e.kind = "recovered" /\ ~stalled)
        THEN {} ELSE {e}

Observe(f) ==
    /\ At(f, "observe", "pending")
    /\ IF Observed(snap[f]) = {} THEN UNCHANGED <<log, alerts>>
       ELSE \E e \in Observed(snap[f]) : Queue(e)
    /\ snap' = [snap EXCEPT ![f] = NoSnapshot]
    /\ UNCHANGED <<store, delivered, card, shown, pend, todo, setting>>

(* Wrong variant: the oldest event is skipped. *)
OldestButOne(n) ==
    { i \in Pending : Cardinality({ j \in Pending : j < i }) \in 1 .. n }

(* The oldest undelivered rows. *)
Oldest(n) == { i \in Pending : Cardinality({ j \in Pending : j < i }) < n }

(* Their tasks, in the order of their first rows. *)
TasksOf(P) ==
    LET First(t) == Min(P \intersect Of(t))
    IN  CHOOSE s \in SetToSeqs({ log[i].task : i \in P }) :
            \A j, k \in DOMAIN s : j < k => First(s[j]) < First(s[k])

ReadPending(f) ==
    /\ At(f, "pending", "task")
    /\ pend' = [pend EXCEPT ![f] = Oldest(setting.limit)]
    /\ todo' = [todo EXCEPT ![f] = TasksOf(Oldest(setting.limit))]
    /\ UNCHANGED <<store, outbox, provider, snap, setting>>

(* for_task() of the next task, after the queue was read. *)
ReadTask(f) ==
    /\ todo[f] # <<>> /\ At(f, "task", "sync")
    /\ snap' = [snap EXCEPT ![f] = ForTask(Head(todo[f]))]
    /\ UNCHANGED <<store, outbox, provider, pend, todo, setting>>

FlushEnds(f) ==
    /\ todo[f] = <<>> /\ Leaves(f, {"task"})
    /\ UNCHANGED <<store, outbox, provider, setting>>

(* Wrong variant: a card that exists is not edited. *)
ShowsOnce(s) ==
    /\ card' = IF card.task = s.task THEN card
               ELSE [task |-> s.task, seen |-> s.seen]
    /\ shown' = [shown EXCEPT ![s.task] = Max({@, s.seen})]

(* The card describes the task of the snapshot, as of the snapshot. *)
Shows(s) ==
    /\ card' = [task |-> s.task, seen |-> s.seen]
    /\ shown' = [shown EXCEPT ![s.task] = Max({@, s.seen})]

(* The description of the card is replaced. *)
Sync(f) ==
    /\ At(f, "sync", IF snap[f].phase \in ALERT_PHASES THEN "alert" ELSE "mark")
    /\ Shows(snap[f])
    /\ UNCHANGED <<store, outbox, alerts, snap, pend, todo, setting>>

Comments(s) ==
    alerts' = IF s.last = 0 THEN alerts ELSE [alerts EXCEPT ![s.last] = @ + 1]

(* Wrong variant: a comment that cannot be sent is dropped. *)
AlertOrNot(f) ==
    /\ At(f, "alert", "mark")
    /\ Comments(snap[f]) \/ UNCHANGED alerts
    /\ UNCHANGED <<store, outbox, card, shown, snap, pend, todo, setting>>

Alert(f) ==
    /\ At(f, "alert", "mark") /\ Comments(snap[f])
    /\ UNCHANGED <<store, outbox, card, shown, snap, pend, todo, setting>>

(* The rows read for this task are acknowledged one by one. *)
Mark(f) ==
    LET mine == { i \in pend[f] : log[i].task = Head(todo[f]) }
        left == mine \ delivered
    IN  /\ pc[f] = "mark"
        /\ delivered' = IF left = {} THEN delivered
                        ELSE delivered \union {Min(left)}
        /\ IF Cardinality(left) <= 1
           THEN /\ pc' = [pc EXCEPT ![f] = "task"]
                /\ todo' = [todo EXCEPT ![f] = Tail(@)]
                /\ snap' = [snap EXCEPT ![f] = NoSnapshot]
           ELSE UNCHANGED <<pc, todo, snap>>
        /\ UNCHANGED <<store, log, provider, pend, setting>>

(* A send fails, before or after the provider applied it: the exception    *)
(* ends the flush, and the caller drops it.                                *)
SendFails(f) ==
    /\ Fault
    /\ \/ /\ Leaves(f, {"sync"})
          /\ Shows(snap[f]) \/ UNCHANGED <<card, shown>>
          /\ UNCHANGED alerts
       \/ /\ Leaves(f, {"alert"})
          /\ Comments(snap[f]) \/ UNCHANGED alerts
          /\ UNCHANGED <<card, shown>>
    /\ UNCHANGED <<store, outbox>>

(* The process of a flusher dies and is started again. *)
Crash(f) ==
    /\ Fault
    /\ Leaves(f, {"observe", "pending", "task", "sync", "alert", "mark"})
    /\ UNCHANGED <<store, outbox, provider>>

Flush(f) ==
    \/ Pulse(f) \/ Observe(f) \/ ReadPending(f) \/ ReadTask(f) \/ FlushEnds(f)
    \/ Sync(f) \/ Alert(f) \/ Mark(f)

OutboxNext ==
    \/ \E t \in Tasks : \/ \E to \in TaskStatus : Move(t, to)
                        \/ Heartbeat(t) \/ Misses(t)
    \/ \E f \in Flushers : Flush(f) \/ SendFails(f) \/ Crash(f)

OutboxSpec == OutboxInit /\ [][OutboxNext]_outboxVars

(* run and watch pulse with every poll and the status server every minute; *)
(* a flush takes its next step whatever the others do.                     *)
FairOutboxSpec == OutboxSpec /\ \A f \in Flushers : WF_outboxVars(Flush(f))

(***************************************************************************)
(* Properties.                                                             *)
(***************************************************************************)

(* Every variable holds a value of its column or local, and every flusher  *)
(* that delivers has a task to deliver.                                    *)
OutboxTypeOK ==
    /\ setting \in Setups
    /\ taskStatus \in [Tasks -> TaskStatus] /\ touched \in [Tasks -> Nat]
    /\ run \in [Tasks -> Nat] /\ beat \in [Tasks -> 1 .. Max({1, setting.beats})]
    /\ stale \in [Tasks -> BOOLEAN]
    /\ log \in Seq(Events) /\ delivered \subseteq DOMAIN log
    /\ card \in [task : Tasks, seen : Nat] /\ alerts \in Seq(Nat) /\ Len(alerts) = Len(log)
    /\ shown \in [Tasks -> 0 .. Len(log)]
    /\ pc \in [Flushers -> {"idle", "observe", "pending", "task", "sync",
                            "alert", "mark"}]
    /\ snap \in [Flushers -> Snapshots]
    /\ pend \in [Flushers -> SUBSET DOMAIN log]
    /\ todo \in [Flushers -> Seq(Tasks)]
    /\ \A f \in Flushers : pc[f] \in {"sync", "alert", "mark"} =>
          todo[f] # <<>> /\ snap[f].task = Head(todo[f])

(* An event is acknowledged only after the card got a snapshot of its task *)
(* that was read with the event already in the queue: a transition that    *)
(* commits between the reading of the queue, of the task and the           *)
(* acknowledgement, or a crash between them, loses nothing                 *)
(* (status_events.py:50-70).                                               *)
DeliveredWasShown ==
    \A i \in delivered : shown[log[i].task] >= i

(* While a task stays in a phase a person must act on, the event of that   *)
(* phase is not acknowledged before somebody was alerted, whichever send   *)
(* fails and wherever a flusher dies (status_events.py:64-70).  A stall is *)
(* an event of its run and heartbeat: one observed late, of a run that was *)
(* replaced since, says nothing of the run that may stall now.             *)
AlertNotLost ==
    \A i \in delivered :
        LET t == log[i].task
        IN  /\ i = LastOf(t) /\ log[i].phase \in ALERT_PHASES
            /\ PhaseOf(t) = log[i].phase
            /\ log[i].kind = "stall" => log[i].run = run[t] /\ log[i].beat = beat[t]
            => alerts[i] > 0

(* When the queue is empty and nobody is flushing, the card describes its  *)
(* task as of the task's last event: what the operator reads between two   *)
(* pulses is not older than what was acknowledged.  It takes one process   *)
(* that flushes: nothing orders the snapshots two of them send.            *)
CardIsCurrent ==
    /\ Cardinality(setting.flushers) = 1
    /\ Pending = {} /\ \A f \in Flushers : pc[f] = "idle"
    => card.seen >= LastOf(card.task)

(* Every queued event is delivered in the end, although events keep coming *)
(* while pending() returns a bounded number and sends fail for a while.    *)
EventsDrain == []<>(Pending = {})

(* A run that misses its heartbeats is reported, a second time if it had   *)
(* recovered: somebody is alerted, or the heartbeat resumes, the run ends, *)
(* or another running task changed later and is observed in its place      *)
(* (status_events.py:52, persistence/status_events.py:32-54).              *)
StallIsAlerted ==
    \A t \in Tasks :
        PhaseOf(t) = "STALLED" ~>
            \/ PhaseOf(t) # "STALLED" \/ t \notin Current
            \/ \E i, j \in Of(t) :
                  /\ i <= j /\ alerts[j] > 0
                  /\ log[i].kind = "stall"
                  /\ log[i].run = run[t] /\ log[i].beat = beat[t]

(* The card and the queue agree: what is acknowledged was shown, and what  *)
(* is shown at rest is current (status_events.py flush).                   *)
CardIsTrue == DeliveredWasShown /\ CardIsCurrent

(* People learn of everything in the end: every event is delivered and     *)
(* every stall is alerted (status_events.py, persistence/status_events.py).*)
NewsArrives == EventsDrain /\ StallIsAlerted
===============================================================================
