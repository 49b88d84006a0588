------------------------------ MODULE Operational ------------------------------
(***************************************************************************)
(* OPERATIONAL tasks (runtime.py:455-496, 643-812, domain/operational.py,  *)
(* integrations/operational.py and the read-only executors).  A direct     *)
(* task (database, service or Docker observation) is executed by the       *)
(* runtime itself; a scratch task is dispatched to Codex and accepted by   *)
(* the bytes of its artifact.  Every durable write of a direct task is a   *)
(* step; the dispatch of a scratch task is one step here, its own steps    *)
(* are those of Dispatch.                                                  *)
(*                                                                         *)
(* pc of a process, in the order of a pass:                                *)
(*   idle, fresh, source, policy                selection and checks       *)
(*   claim, run, save, inspect, update, validate, finish    direct tasks   *)
(*   dispatch, poll, drive, accept                          scratch tasks  *)
(***************************************************************************)
EXTENDS Naturals, Sequences, FiniteSets, TaskLifecycle, SequencesExt

CONSTANTS
    Tasks,       \* operational tasks
    Direct,      \* the tasks the runtime executes itself
    Procs,       \* processes, or sessions of a pool
    Capacity,    \* tasks that may be in work at once
    Limit,       \* failed runs after which retry refuses
    Settings     \* what may happen, by setting:
                 \*   permitted  the tasks the operator's policy permits
                 \*   procs, pool   who runs, as the sessions of one pool or not
                 \*   edits, retries, crashes, failures   bounds: edits of
                 \*              Issues, retries, crashes, failed provisionings

Setting == [permitted : SUBSET Tasks, procs : SUBSET Procs, pool : BOOLEAN,
            edits : Nat, retries : Nat, crashes : Nat, failures : Nat]

ASSUME OperationalAssumption ==
    /\ Direct \subseteq Tasks /\ Capacity \in Nat \ {0} /\ Limit \in Nat
    /\ IsFiniteSet(Tasks) /\ IsFiniteSet(Procs) /\ Settings \subseteq Setting

VARIABLES
    setting,         \* what may still happen
    status, begun,   \* tasks: status, whether it ever left READY
    runs,            \* agent_runs of a task, oldest first
    issue,           \* provider: the Issue against the stored declaration
    agent,           \* Codex: how the agent of a scratch task stands
    claims, seen,    \* history: claims taken and observations made of a task
    pc, cur, res,    \* processes: step, task, result of its observation
    mine             \* processes: position of the run it saved

store == <<status, begun, runs>>
world == <<issue, agent>>
history == <<claims, seen>>
local == <<pc, cur, res, mine>>
vars == <<setting, store, world, history, local>>

Steps == {"idle", "fresh", "source", "policy", "claim", "run", "save", "inspect",
          "update", "validate", "finish", "dispatch", "poll", "drive", "accept"}

Run(st, green) == [st |-> st, green |-> green]

Active(t) == \E i \in DOMAIN runs[t] : runs[t][i].st = "RUNNING"

InWork == { t \in Tasks :
              status[t] \in {"CLAIMED", "RUNNING", "VALIDATING"} \/ Active(t) }

Init ==
    /\ setting \in Settings
    /\ status \in [Tasks -> {"DISCOVERED", "READY"}]
    /\ begun = [t \in Tasks |-> FALSE] /\ runs = [t \in Tasks |-> <<>>]
    /\ issue = [t \in Tasks |-> "same"] /\ agent = [t \in Tasks |-> "none"]
    /\ claims = [t \in Tasks |-> 0] /\ seen = [t \in Tasks |-> 0]
    /\ pc = [p \in Procs |-> "idle"]
    /\ cur \in { [p \in Procs |-> t] : t \in Tasks }
    /\ res = [p \in Procs |-> "none"] /\ mine = [p \in Procs |-> 0]

(***************************************************************************)
(* The world: Issues, the Codex agent, the operator.                       *)
(***************************************************************************)

(* One of the bounded events happens. *)
Spend(what) ==
    setting[what] > 0 /\ setting' = [setting EXCEPT ![what] = @ - 1]

EditIssue(t) ==
    /\ Spend("edits") /\ issue[t] = "same"
    /\ issue' = [issue EXCEPT ![t] = "changed"]
    /\ UNCHANGED <<store, agent, history, local>>

(* Codex exits: with the declared artifact, without it, or with an error. *)
AgentEnds(t) ==
    /\ agent[t] = "running"
    /\ \E how \in {"artifact", "other", "failed"} :
          agent' = [agent EXCEPT ![t] = how]
    /\ UNCHANGED <<store, issue, history, local, setting>>

(* What the retry command accepts: a BLOCKED task without an active run    *)
(* whose latest run, if any, FAILED or failed its gates, or a CLAIMED one  *)
(* with a FAILED latest run.                                               *)
Retryable(t) ==
    LET failed == { i \in DOMAIN runs[t] : runs[t][i].st = "FAILED"
                                        \/ ~runs[t][i].green }
    IN  /\ ~Active(t) /\ Cardinality(failed) < Limit
        /\ \/ status[t] = "BLOCKED" /\ runs[t] = <<>>
           \/ /\ runs[t] # <<>> /\ Len(runs[t]) \in failed
              /\ \/ status[t] = "BLOCKED"
                 \/ status[t] = "CLAIMED" /\ Last(runs[t]).st = "FAILED"

Retry(t) ==
    /\ Spend("retries")
    /\ Retryable(t)
    /\ status' = [status EXCEPT ![t] = "READY"]
    /\ UNCHANGED <<begun, runs, world, history, local>>

(***************************************************************************)
(* Selection.                                                              *)
(***************************************************************************)
At(p, from, to) == pc[p] = from /\ pc' = [pc EXCEPT ![p] = to]

(* A pass ends, with a result or with an exception its caller drops. *)
Leaves(p, from) ==
    /\ pc[p] \in from /\ pc' = [pc EXCEPT ![p] = "idle"]
    /\ res' = [res EXCEPT ![p] = "none"] /\ mine' = [mine EXCEPT ![p] = 0]
    /\ UNCHANGED cur

Order == <<"VALIDATING", "RUNNING", "CLAIMED", "READY", "DISCOVERED">>

(* Wrong variant: a task another worker holds is selectable. *)
SelectableShared(p, t) == status[t] \in Range(Order)

(* One-shot processes take a task of the first status that has one; a pool *)
(* gives its sessions distinct tasks.                                      *)
Selectable(p, t) ==
    /\ status[t] \in Range(Order)
    /\ IF setting.pool
       THEN \A q \in Procs \ {p} : pc[q] = "idle" \/ cur[q] # t
       ELSE \A i, j \in DOMAIN Order, u \in Tasks :
               status[t] = Order[i] /\ status[u] = Order[j] => i <= j

(* New work needs a task without an active run and, outside a pool, no     *)
(* other task in work.  Work in progress is resumed only with a run of the *)
(* configured engine, which a direct run never is.                         *)
Select(p, t) ==
    /\ pc[p] = "idle" /\ p \in setting.procs /\ Selectable(p, t)
    /\ \/ /\ status[t] \in {"READY", "DISCOVERED"} /\ ~Active(t)
          /\ setting.pool \/ InWork \ {t} = {}
          /\ pc' = [pc EXCEPT ![p] =
                       IF status[t] = "DISCOVERED" THEN "fresh" ELSE "source"]
       \/ /\ status[t] \in {"CLAIMED", "RUNNING", "VALIDATING"}
          /\ runs[t] # <<>> /\ t \notin Direct
          /\ pc' = [pc EXCEPT ![p] = "poll"]
    /\ cur' = [cur EXCEPT ![p] = t]
    /\ UNCHANGED <<store, world, history, res, mine, setting>>

(* lifecycle.transition: a task that has the status already is left alone, *)
(* an edge the lifecycle lacks is refused, CLAIMED needs free capacity.    *)
Allowed(t, to) ==
    \/ status[t] = to
    \/ /\ CanTransition(status[t], to)
       /\ to = "CLAIMED" => Cardinality(InWork \ {t}) < Capacity

Becomes(t, to) ==
    /\ status' = [status EXCEPT ![t] = to]
    /\ begun' = [begun EXCEPT ![t] = @ \/ to # "READY"]

(* A transition of a direct task, and the end of the pass if refused. *)
Transition(p, from, to, next) ==
    LET t == cur[p]
    IN  \/ /\ Allowed(t, to) /\ Becomes(t, to)
           /\ IF next = "idle" THEN Leaves(p, {from})
              ELSE At(p, from, next) /\ UNCHANGED <<cur, res, mine>>
           /\ claims' = [claims EXCEPT ![t] =
                 IF to = "CLAIMED" /\ status[t] # to THEN @ + 1 ELSE @]
           /\ UNCHANGED <<runs, world, seen, setting>>
        \/ /\ ~Allowed(t, to) /\ Leaves(p, {from})
           /\ UNCHANGED <<store, world, history, setting>>

(* The Issue of a task that never started must still declare what intake   *)
(* stored; a task that was read DISCOVERED becomes READY.                  *)
CheckSource(p) ==
    LET t == cur[p]
        changed == runs[t] = <<>> /\ ~begun[t] /\ issue[t] # "same"
    IN  \/ /\ changed /\ pc[p] \in {"source", "fresh"}
           /\ Transition(p, pc[p], "CANCELLED", "idle")
        \/ ~changed /\ Transition(p, "fresh", "READY", "policy")
        \/ /\ ~changed /\ At(p, "source", "policy")
           /\ UNCHANGED <<store, world, history, cur, res, mine, setting>>

CheckPolicy(p) ==
    \/ /\ cur[p] \notin setting.permitted
       /\ Transition(p, "policy", "BLOCKED", "idle")
    \/ /\ cur[p] \in setting.permitted
       /\ At(p, "policy", IF cur[p] \in Direct THEN "claim" ELSE "dispatch")
       /\ UNCHANGED <<store, world, history, cur, res, mine, setting>>

(***************************************************************************)
(* Direct tasks.                                                           *)
(***************************************************************************)
Claim(p) == Transition(p, "claim", "CLAIMED", "run")

Start(p) == Transition(p, "run", "RUNNING", "save")

(* One active run per task: a second one is refused by the store. *)
SaveRun(p) ==
    LET t == cur[p]
    IN  \/ /\ ~Active(t) /\ At(p, "save", "inspect")
           /\ runs' = [runs EXCEPT ![t] = Append(@, Run("RUNNING", FALSE))]
           /\ mine' = [mine EXCEPT ![p] = Len(runs[t]) + 1]
           /\ UNCHANGED <<status, begun, world, history, cur, res, setting>>
        \/ /\ Active(t) /\ Leaves(p, {"save"})
           /\ UNCHANGED <<store, world, history, setting>>

Inspect(p) ==
    /\ At(p, "inspect", "update")
    /\ \E r \in {"SUCCEEDED", "FAILED"} : res' = [res EXCEPT ![p] = r]
    /\ seen' = [seen EXCEPT ![cur[p]] = @ + 1]
    /\ UNCHANGED <<store, world, claims, cur, mine, setting>>

(* Wrong variant: a failed result is not stored. *)
UpdateRunGreen(p) ==
    /\ At(p, "update", "validate")
    /\ runs' = IF res[p] = "FAILED" THEN runs
               ELSE [runs EXCEPT ![cur[p]][mine[p]] = Run(res[p], TRUE)]
    /\ UNCHANGED <<status, begun, world, history, cur, res, mine, setting>>

(* The result of the observation and its gate. *)
UpdateRun(p) ==
    /\ At(p, "update", "validate")
    /\ runs' = [runs EXCEPT ![cur[p]][mine[p]] =
                   Run(res[p], res[p] = "SUCCEEDED")]
    /\ UNCHANGED <<status, begun, world, history, cur, res, mine, setting>>

Validate(p) == Transition(p, "validate", "VALIDATING", "finish")

(* DONE, or BLOCKED with a reason. *)
Finish(p) ==
    Transition(p, "finish", IF res[p] = "SUCCEEDED" THEN "DONE" ELSE "BLOCKED",
               "idle")

(***************************************************************************)
(* Scratch tasks.                                                          *)
(***************************************************************************)

(* Claim, workspace, Codex and run.  A start that fails is recorded as a   *)
(* FAILED run of a BLOCKED task.                                           *)
Dispatch(p) ==
    LET t == cur[p]
    IN  /\ pc[p] = "dispatch"
        /\ \/ /\ status[t] = "READY" /\ Allowed(t, "CLAIMED") /\ ~Active(t)
              /\ claims' = [claims EXCEPT ![t] = @ + 1]
              /\ \/ /\ Becomes(t, "RUNNING") /\ At(p, "dispatch", "poll")
                    /\ runs' = [runs EXCEPT ![t] =
                                  Append(@, Run("RUNNING", FALSE))]
                    /\ agent' = [agent EXCEPT ![t] = "running"]
                    /\ UNCHANGED <<cur, res, mine>>
                 \/ /\ Becomes(t, "BLOCKED") /\ Leaves(p, {"dispatch"})
                    /\ runs' = [runs EXCEPT ![t] =
                                  Append(@, Run("FAILED", FALSE))]
                    /\ UNCHANGED agent
           \/ /\ ~(status[t] = "READY" /\ Allowed(t, "CLAIMED") /\ ~Active(t))
              /\ Leaves(p, {"dispatch"})
              /\ UNCHANGED <<store, agent, claims>>
        /\ UNCHANGED <<issue, seen, setting>>

(* The scratch root is unsafe or the directory cannot be made: the claim   *)
(* is committed and nothing else.                                          *)
ProvisioningFails(p) ==
    LET t == cur[p]
    IN  /\ Spend("failures")
        /\ status[t] = "READY" /\ Allowed(t, "CLAIMED")
        /\ Becomes(t, "CLAIMED") /\ Leaves(p, {"dispatch"})
        /\ claims' = [claims EXCEPT ![t] = @ + 1]
        /\ UNCHANGED <<runs, world, seen>>

(* Only a successful exit is accepted, by the size and digest of a regular *)
(* file in the run's own directory.                                        *)
Accepted(t) ==
    Run(IF agent[t] = "failed" THEN "FAILED" ELSE "SUCCEEDED",
        agent[t] = "artifact")

(* Wrong variant: a run that already ended is left alone. *)
PollActive(p) ==
    LET t == cur[p]
    IN  \/ /\ ~Active(t) \/ agent[t] = "running"
           /\ Leaves(p, {"poll"})
           /\ UNCHANGED <<store, world, history, setting>>
        \/ /\ Active(t) /\ agent[t] # "running" /\ At(p, "poll", "drive")
           /\ runs' = [runs EXCEPT ![t][Len(runs[t])] = Accepted(t)]
           /\ UNCHANGED <<status, begun, world, history, cur, res, mine,
                          setting>>

(* A poll ends at its deadline while the agent executes; a terminal run is *)
(* not collected again.                                                    *)
Poll(p) ==
    LET t == cur[p]
    IN  \/ /\ ~Active(t) /\ At(p, "poll", "drive")
           /\ UNCHANGED <<store, world, history, cur, res, mine, setting>>
        \/ /\ Active(t) /\ agent[t] = "running" /\ Leaves(p, {"poll"})
           /\ UNCHANGED <<store, world, history, setting>>
        \/ /\ Active(t) /\ agent[t] # "running" /\ At(p, "poll", "drive")
           /\ runs' = [runs EXCEPT ![t][Len(runs[t])] = Accepted(t)]
           /\ UNCHANGED <<status, begun, world, history, cur, res, mine,
                          setting>>

(* The latest run drives the task; an edge the lifecycle lacks is ignored. *)
Drive(p) ==
    LET t == cur[p]
        to == IF Last(runs[t]).st = "SUCCEEDED" THEN "VALIDATING" ELSE "FAILED"
    IN  /\ At(p, "drive", "accept")
        /\ IF CanTransition(status[t], to) THEN Becomes(t, to)
           ELSE UNCHANGED <<status, begun>>
        /\ UNCHANGED <<runs, world, history, cur, res, mine, setting>>

Accept(p) ==
    LET t == cur[p]
        passed == Last(runs[t]).st = "SUCCEEDED" /\ status[t] = "VALIDATING"
    IN  \/ /\ pc[p] = "accept" /\ passed
           /\ Transition(p, "accept",
                 IF Last(runs[t]).green THEN "DONE" ELSE "BLOCKED", "idle")
        \/ /\ Leaves(p, {"accept"}) /\ ~passed
           /\ UNCHANGED <<store, world, history, setting>>

(* The processes of a pool die together. *)
Crash(p) ==
    /\ Spend("crashes")
    /\ pc[p] # "idle"
    /\ pc' = [q \in Procs |-> IF setting.pool \/ q = p THEN "idle" ELSE pc[q]]
    /\ res' = [q \in Procs |-> IF setting.pool \/ q = p THEN "none" ELSE res[q]]
    /\ mine' = [q \in Procs |-> IF setting.pool \/ q = p THEN 0 ELSE mine[q]]
    /\ UNCHANGED <<store, world, history, cur>>

Pass(p) ==
    \/ \E t \in Tasks : Select(p, t)
    \/ CheckSource(p) \/ CheckPolicy(p)
    \/ Claim(p) \/ Start(p) \/ SaveRun(p) \/ Inspect(p) \/ UpdateRun(p)
    \/ Validate(p) \/ Finish(p)
    \/ Dispatch(p) \/ Poll(p) \/ Drive(p) \/ Accept(p)

Next ==
    \/ \E t \in Tasks : EditIssue(t) \/ AgentEnds(t) \/ Retry(t)
    \/ \E p \in Procs : Pass(p) \/ ProvisioningFails(p) \/ Crash(p)

Spec == Init /\ [][Next]_vars

(* watch and the pool start another pass after each, and one pass goes on  *)
(* whatever the others do; a pool gives every unfinished task a session    *)
(* (WorkerPool, UnfinishedIsServed); Codex has a deadline; an operator     *)
(* retries what the retry command accepts.                                 *)
FairSpec ==
    /\ Spec
    /\ \A p \in Procs : WF_vars(Pass(p))
    /\ \A t \in Tasks : SF_vars(\E p \in Procs : Select(p, t))
    /\ WF_vars(\E t \in Tasks : AgentEnds(t)) /\ WF_vars(\E t \in Tasks : Retry(t))

(***************************************************************************)
(* Properties.                                                             *)
(***************************************************************************)

(* Every variable holds a value of its column or local; a process that     *)
(* observes owns an active run of its task.                                *)
TypeOK ==
    /\ setting \in Setting
    /\ status \in [Tasks -> TaskStatus] /\ begun \in [Tasks -> BOOLEAN]
    /\ runs \in [Tasks -> Seq([st : {"RUNNING", "SUCCEEDED", "FAILED"},
                               green : BOOLEAN])]
    /\ issue \in [Tasks -> {"same", "changed"}]
    /\ agent \in [Tasks -> {"none", "running", "artifact", "other", "failed"}]
    /\ claims \in [Tasks -> Nat] /\ seen \in [Tasks -> Nat]
    /\ pc \in [Procs -> Steps] /\ cur \in [Procs -> Tasks]
    /\ res \in [Procs -> {"none", "SUCCEEDED", "FAILED"}] /\ mine \in [Procs -> Nat]
    /\ \A p \in Procs : pc[p] \in {"inspect", "update"} =>
          /\ mine[p] \in DOMAIN runs[cur[p]]
          /\ runs[cur[p]][mine[p]].st = "RUNNING"

(* Processes outside a pool that select the same direct task can pass the  *)
(* idempotent claim together; what they then do is left out below.         *)
Exclusive == setting.pool \/ Cardinality(setting.procs) = 1

(* A task is DONE only through a run that succeeded with green gates, and  *)
(* the latest one, whichever route it took and wherever its process died   *)
(* (runtime.py:683-690, 622-628).                                          *)
DoneIsGreen ==
    Exclusive =>
        \A t \in Tasks : status[t] = "DONE" =>
            runs[t] # <<>> /\ Last(runs[t]).st = "SUCCEEDED" /\ Last(runs[t]).green

(* A task that ended or waits for the operator has no active run: one left *)
(* behind would count against the capacity of every later claim.           *)
EndedHasNoRun ==
    Exclusive =>
        \A t \in Tasks :
            status[t] \in {"DONE", "FAILED", "CANCELLED", "BLOCKED"} => ~Active(t)

(* No more tasks are in work than the configured capacity, also when some  *)
(* are executed by the runtime itself, without the dispatch service.       *)
CapacityKept == Exclusive => Cardinality(InWork) <= Capacity

(* A task is observed at most once for every claim of it, also when its    *)
(* run is retried or its process dies (runtime.py _run_database,           *)
(* _run_service_health, _run_docker).                                      *)
ObservedOnce == Exclusive => \A t \in Tasks : seen[t] <= claims[t]

(* Work that nothing resumes: the process of a direct task died, or the    *)
(* directory of a claimed scratch task could not be made.                  *)
Abandoned(t) ==
    /\ t \in InWork
    /\ t \in Direct \/ status[t] = "CLAIMED"
    /\ \A p \in Procs : pc[p] = "idle" \/ cur[p] # t

(* Every operational task comes to an end, again after every retry: it is  *)
(* done, or it waits with its failure recorded.  A scratch run outlives    *)
(* its process; only abandoned work keeps its capacity for ever.           *)
Settles ==
    \A t \in Tasks :
        []<>(\/ status[t] \in {"DONE", "FAILED", "CANCELLED", "BLOCKED"}
             \/ \E u \in Tasks : Abandoned(u))

(* An observation counts once: it is made once for a claim and DONE rests  *)
(* on it (runtime.py _finish_operational_observation).                     *)
ObservationIsSound == DoneIsGreen /\ ObservedOnce

(* Capacity is neither exceeded nor leaked (sqlite.py claim guard).        *)
NoCapacityLeak == CapacityKept /\ EndedHasNoRun
================================================================================
