--------------------------- MODULE OperationalProofs ---------------------------
(***************************************************************************)
(* What holds of operational tasks for any tasks, processes, capacity and  *)
(* settings.                                                               *)
(*                                                                         *)
(* Rows: only the latest run of a task may be active, and a process that   *)
(* observes is the only one and owns it (OnlyLastActive, Observers).       *)
(*                                                                         *)
(* Hands: a process that has its task for itself, as the session of a pool *)
(* or as the only process, knows the status it left the task in; only the  *)
(* operator's retry of an earlier failure may have undone its claim (Held).*)
(*                                                                         *)
(* Tasks: what ended has no active run, DONE is green, and a process that  *)
(* claimed and has not observed yet is one observation behind (Ended).     *)
(*                                                                         *)
(* Capacity: every step adds at most the task in hand to the work, and     *)
(* only a guarded claim adds one that was not in work before (TaskKept).   *)
(***************************************************************************)
EXTENDS Operational, TLAPS, FiniteSetTheorems

RunRow == [st : {"RUNNING", "SUCCEEDED", "FAILED"}, green : BOOLEAN]

OnlyLastActive ==
    \A t \in Tasks : \A i \in DOMAIN runs[t] :
        runs[t][i].st = "RUNNING" => i = Len(runs[t])

Observing == {"inspect", "update"}

(* What a process has of its row. *)
OwnRow(p) ==
    /\ pc[p] # "idle" => p \in setting.procs
    /\ pc[p] \in Observing => /\ mine[p] \in DOMAIN runs[cur[p]]
                              /\ runs[cur[p]][mine[p]].st = "RUNNING"
    /\ pc[p] \in {"update", "validate", "finish"} => res[p] # "none"
    /\ pc[p] \in {"claim", "run", "save", "inspect", "update", "validate", "finish"}
          => cur[p] \in Direct
    /\ pc[p] \in {"dispatch", "poll", "drive", "accept"} => cur[p] \notin Direct
    /\ pc[p] \in {"poll", "drive", "accept"} => runs[cur[p]] # << >>

Observers ==
    /\ \A p, q \in Procs :
          p # q /\ pc[p] \in Observing /\ pc[q] \in Observing => cur[p] # cur[q]
    /\ \A p \in Procs : OwnRow(p)

RowInv == TypeOK /\ OnlyLastActive /\ Observers

(* A process has its task for itself. *)
Apart ==
    \A p, q \in Procs : p # q /\ pc[p] # "idle" /\ pc[q] # "idle" => cur[p] # cur[q]

(* What it knows of the task. *)
Held(p) ==
    LET t == cur[p] IN
    /\ pc[p] = "fresh" => status[t] = "DISCOVERED"
    /\ pc[p] \in {"source", "policy", "claim", "dispatch"} => status[t] = "READY"
    /\ pc[p] = "run" => status[t] \in {"CLAIMED", "READY"}
    /\ pc[p] \in {"save", "inspect", "update", "validate"} => status[t] = "RUNNING"
    /\ pc[p] = "finish" => status[t] = "VALIDATING"
    /\ pc[p] \in {"poll", "drive"} =>
          status[t] \in {"CLAIMED", "RUNNING", "VALIDATING", "READY"}
    /\ pc[p] \in {"fresh", "source", "policy", "claim", "run", "save", "validate", "finish",
                  "dispatch", "drive", "accept"} => ~Active(t)
    /\ pc[p] \in {"validate", "finish"} =>
          runs[t] # << >> /\ Last(runs[t]) = Run(res[p], res[p] = "SUCCEEDED")
    /\ pc[p] \in {"run", "save", "inspect"} => seen[t] < claims[t]

(* What holds of a task whoever has it. *)
Ended(t) ==
    /\ status[t] = "DONE" =>
          runs[t] # << >> /\ Last(runs[t]).st = "SUCCEEDED" /\ Last(runs[t]).green
    /\ status[t] \in {"DONE", "FAILED", "CANCELLED", "BLOCKED"} => ~Active(t)
    /\ seen[t] <= claims[t]

ExclusiveInv ==
    Exclusive => /\ Apart /\ \A p \in Procs : Held(p)
                 /\ \A t \in Tasks : Ended(t)
                 /\ Cardinality(InWork) <= Capacity

IInv == RowInv /\ ExclusiveInv

-----------------------------------------------------------------------------
(* Types and frames *)

SameMode == setting' \in Setting /\ setting'.pool = setting.pool
            /\ setting'.procs = setting.procs

(* Who runs, and as what, never changes. *)
LEMMA SpendMode ==
    ASSUME TypeOK, NEW what \in {"edits", "retries", "crashes", "failures"}, Spend(what)
    PROVE  SameMode
<1>1. setting \in Setting /\ setting[what] > 0
      /\ setting' = [setting EXCEPT ![what] = setting[what] - 1]
  BY DEF TypeOK, Spend
<1>2. CASE what = "edits"
  BY <1>1, <1>2 DEF Setting, SameMode
<1>3. CASE what = "retries"
  BY <1>1, <1>3 DEF Setting, SameMode
<1>4. CASE what = "crashes"
  BY <1>1, <1>4 DEF Setting, SameMode
<1>5. CASE what = "failures"
  BY <1>1, <1>5 DEF Setting, SameMode
<1> QED
  BY <1>2, <1>3, <1>4, <1>5

(* Exclusive use is a matter of the mode. *)
LEMMA ExclusiveStays ==
    ASSUME SameMode
    PROVE  Exclusive' <=> Exclusive
  BY DEF SameMode, Exclusive

(* A step of a process keeps to its own values. *)
LocalAt(p) ==
    /\ pc' \in [Procs -> Steps] /\ cur' \in [Procs -> Tasks]
    /\ res' \in [Procs -> {"none", "SUCCEEDED", "FAILED"}] /\ mine' \in [Procs -> Nat]
    /\ \A q \in Procs \ {p} : /\ pc'[q] = pc[q] /\ cur'[q] = cur[q]
                              /\ res'[q] = res[q] /\ mine'[q] = mine[q]

(* A pass ends. *)
LEMMA LeavesLocal ==
    ASSUME TypeOK, NEW p \in Procs, NEW S, Leaves(p, S)
    PROVE  LocalAt(p) /\ pc'[p] = "idle" /\ pc[p] \in S /\ UNCHANGED cur
  BY DEF TypeOK, Leaves, LocalAt, Steps

(* A pass goes on. *)
LEMMA AtLocal ==
    ASSUME TypeOK, NEW p \in Procs, NEW from, NEW to \in Steps, At(p, from, to)
    PROVE  /\ pc' \in [Procs -> Steps] /\ pc'[p] = to /\ pc[p] = from
           /\ \A q \in Procs \ {p} : pc'[q] = pc[q]
  BY DEF TypeOK, At

(* The other tasks are left alone. *)
TaskAt(t) ==
    /\ status' \in [Tasks -> TaskStatus] /\ begun' \in [Tasks -> BOOLEAN]
    /\ claims' \in [Tasks -> Nat] /\ seen' \in [Tasks -> Nat]
    /\ \A u \in Tasks \ {t} : /\ status'[u] = status[u] /\ claims'[u] = claims[u]
                              /\ seen'[u] = seen[u]

(* A task gets its status. *)
LEMMA BecomesType ==
    ASSUME TypeOK, NEW t \in Tasks, NEW to \in TaskStatus, Becomes(t, to)
    PROVE  /\ status' \in [Tasks -> TaskStatus] /\ begun' \in [Tasks -> BOOLEAN]
           /\ status'[t] = to /\ \A u \in Tasks \ {t} : status'[u] = status[u]
<1>1. begun' \in [Tasks -> BOOLEAN]
  BY DEF TypeOK, Becomes
<1> QED
  BY <1>1 DEF TypeOK, Becomes

(* TaskLifecycleService.transition: taken, or refused. *)
LEMMA TransitionEffect ==
    ASSUME TypeOK, NEW p \in Procs, NEW from, NEW to \in TaskStatus, NEW next \in Steps,
           Transition(p, from, to, next)
    PROVE  /\ pc[p] = from /\ LocalAt(p) /\ TaskAt(cur[p])
           /\ UNCHANGED <<runs, issue, agent, seen, setting, cur>>
           /\ \/ /\ Allowed(cur[p], to) /\ status'[cur[p]] = to /\ pc'[p] = next
                 /\ claims'[cur[p]] = IF to = "CLAIMED" /\ status[cur[p]] # to
                                      THEN claims[cur[p]] + 1 ELSE claims[cur[p]]
                 /\ next # "idle" => UNCHANGED <<res, mine>>
              \/ UNCHANGED <<status, claims>> /\ pc'[p] = "idle"
<1> DEFINE t == cur[p]
<1>0. t \in Tasks
  BY DEF TypeOK
<1>1. CASE ~Allowed(t, to) /\ Leaves(p, {from}) /\ UNCHANGED <<store, world, history, setting>>
  <2>1. LocalAt(p) /\ pc'[p] = "idle" /\ pc[p] = from /\ UNCHANGED cur
    BY <1>1, LeavesLocal
  <2>2. UNCHANGED <<status, begun, runs, issue, agent, claims, seen, setting>>
    BY <1>1 DEF store, world, history
  <2>3. TaskAt(t)
    BY <2>2 DEF TaskAt, TypeOK
  <2> QED
    BY <2>1, <2>2, <2>3
<1>2. CASE /\ Allowed(t, to) /\ Becomes(t, to)
           /\ IF next = "idle" THEN Leaves(p, {from})
              ELSE At(p, from, next) /\ UNCHANGED <<cur, res, mine>>
           /\ claims' = [claims EXCEPT ![t] =
                 IF to = "CLAIMED" /\ status[t] # to THEN @ + 1 ELSE @]
           /\ UNCHANGED <<runs, world, seen, setting>>
  <2>1. LocalAt(p) /\ pc'[p] = next /\ pc[p] = from /\ UNCHANGED cur
    <3>1. CASE next = "idle"
      BY <1>2, <3>1, LeavesLocal
    <3>2. CASE next # "idle"
      BY <1>2, <3>2, AtLocal DEF LocalAt, TypeOK
    <3> QED
      BY <3>1, <3>2
  <2>2. /\ status' \in [Tasks -> TaskStatus] /\ begun' \in [Tasks -> BOOLEAN]
        /\ status'[t] = to /\ \A u \in Tasks \ {t} : status'[u] = status[u]
    BY <1>0, <1>2, BecomesType
  <2>3. /\ claims' \in [Tasks -> Nat] /\ \A u \in Tasks \ {t} : claims'[u] = claims[u]
        /\ claims'[t] = IF to = "CLAIMED" /\ status[t] # to THEN claims[t] + 1 ELSE claims[t]
    <3>1. claims \in [Tasks -> Nat]
      BY DEF TypeOK
    <3>2. claims' = [claims EXCEPT ![t] =
             IF to = "CLAIMED" /\ status[t] # to THEN claims[t] + 1 ELSE claims[t]]
      BY <1>2
    <3> QED
      BY <1>0, <3>1, <3>2
  <2>4. UNCHANGED <<runs, issue, agent, seen, setting>>
    BY <1>2 DEF world
  <2>5. TaskAt(t)
    BY <2>2, <2>3, <2>4 DEF TaskAt, TypeOK
  <2> QED
    BY <1>2, <2>1, <2>2, <2>3, <2>4, <2>5
<1> QED
  BY <1>1, <1>2 DEF Transition

-----------------------------------------------------------------------------
(* The rows of a task *)

Appended(t, r) == ~Active(t) /\ runs'[t] = Append(runs[t], r)
Stored(t, i, r) == i \in DOMAIN runs[t] /\ runs'[t] = [runs[t] EXCEPT ![i] = r]

(* One row of a sequence of rows is replaced. *)
LEMMA ReplaceRow ==
    ASSUME NEW s \in Seq(RunRow), NEW i \in DOMAIN s, NEW r \in RunRow,
           NEW s1, s1 = [s EXCEPT ![i] = r]
    PROVE  /\ s1 \in Seq(RunRow) /\ Len(s1) = Len(s) /\ s1[i] = r
           /\ \A j \in DOMAIN s : j # i => s1[j] = s[j]
<1>1. s \in [1..Len(s) -> RunRow] /\ DOMAIN s = 1..Len(s) /\ Len(s) \in Nat
  OBVIOUS
<1>2. s1 \in [1..Len(s) -> RunRow]
  BY <1>1
<1>3. s1 \in Seq(RunRow) /\ Len(s1) = Len(s)
  BY <1>1, <1>2
<1> QED
  BY <1>1, <1>3

(* A run is added: it is the only one that may be active. *)
LEMMA AppendedRow ==
    ASSUME runs \in [Tasks -> Seq(RunRow)], NEW t \in Tasks, NEW r \in RunRow, Appended(t, r)
    PROVE  /\ runs'[t] \in Seq(RunRow) /\ runs'[t] # << >> /\ Last(runs'[t]) = r
           /\ Len(runs'[t]) = Len(runs[t]) + 1 /\ runs'[t][Len(runs[t]) + 1] = r
           /\ \A i \in DOMAIN runs'[t] : runs'[t][i].st = "RUNNING" => i = Len(runs'[t])
           /\ Active(t)' <=> r.st = "RUNNING"
<1>1. runs[t] \in Seq(RunRow) /\ runs'[t] = Append(runs[t], r)
  BY DEF Appended
<1>2. /\ runs'[t] \in Seq(RunRow) /\ Len(runs'[t]) = Len(runs[t]) + 1
      /\ Len(runs[t]) \in Nat /\ runs'[t][Len(runs[t]) + 1] = r
      /\ \A i \in 1..Len(runs[t]) : runs'[t][i] = runs[t][i]
      /\ DOMAIN runs'[t] = 1..(Len(runs[t]) + 1) /\ DOMAIN runs[t] = 1..Len(runs[t])
  BY <1>1
<1>3. \A i \in 1..Len(runs[t]) : runs'[t][i].st # "RUNNING"
  BY <1>2 DEF Appended, Active
<1> QED
  BY <1>2, <1>3, SMTT(30) DEF Active, Last

(* A run that is stored ended was the only active one. *)
LEMMA StoredRow ==
    ASSUME runs \in [Tasks -> Seq(RunRow)], OnlyLastActive, NEW t \in Tasks,
           NEW i, NEW r \in RunRow, r.st # "RUNNING", Stored(t, i, r),
           runs[t][i].st = "RUNNING"
    PROVE  /\ runs'[t] \in Seq(RunRow) /\ runs'[t] # << >> /\ Last(runs'[t]) = r
           /\ ~Active(t)'
           /\ \A j \in DOMAIN runs'[t] : runs'[t][j].st = "RUNNING" => j = Len(runs'[t])
<1>1. runs[t] \in Seq(RunRow) /\ i \in DOMAIN runs[t] /\ runs'[t] = [runs[t] EXCEPT ![i] = r]
  BY DEF Stored
<1>2. /\ runs'[t] \in Seq(RunRow) /\ Len(runs'[t]) = Len(runs[t]) /\ runs'[t][i] = r
      /\ \A j \in DOMAIN runs[t] : j # i => runs'[t][j] = runs[t][j]
  BY <1>1, ReplaceRow
<1>3. i = Len(runs[t])
  BY <1>1 DEF OnlyLastActive
<1>4. \A j \in DOMAIN runs[t] : runs'[t][j].st # "RUNNING"
  BY <1>1, <1>2, <1>3 DEF OnlyLastActive
<1>5. DOMAIN runs'[t] = DOMAIN runs[t] /\ Len(runs[t]) \in Nat /\ Len(runs[t]) > 0
  BY <1>1, <1>2, <1>3
<1> QED
  BY <1>2, <1>3, <1>4, <1>5 DEF Active, Last

(* The active run is the latest. *)
LEMMA ActiveIsLast ==
    ASSUME runs \in [Tasks -> Seq(RunRow)], OnlyLastActive, NEW t \in Tasks, Active(t)
    PROVE  /\ Len(runs[t]) \in DOMAIN runs[t] /\ runs[t][Len(runs[t])].st = "RUNNING"
           /\ runs[t] # << >>
<1>1. PICK i \in DOMAIN runs[t] : runs[t][i].st = "RUNNING"
  BY DEF Active
<1>2. i = Len(runs[t]) /\ runs[t] \in Seq(RunRow)
  BY <1>1 DEF OnlyLastActive
<1> QED
  BY <1>1, <1>2

-----------------------------------------------------------------------------
(* The steps of a process *)

Working(t) == status[t] \in {"CLAIMED", "RUNNING", "VALIDATING"} \/ Active(t)

(* A step for task t changes nothing of the others. *)
StepAt(p, t) ==
    /\ SameMode /\ LocalAt(p) /\ TaskAt(t) /\ cur'[p] = t
    /\ issue' \in [Tasks -> {"same", "changed"}]
    /\ agent' \in [Tasks -> {"none", "running", "artifact", "other", "failed"}]

(* It leaves the rows of the task in order, and those that are observed    *)
(* alone.                                                                  *)
RowsAt(p, t) ==
    /\ runs' \in [Tasks -> Seq(RunRow)]
    /\ \A u \in Tasks \ {t} : runs'[u] = runs[u]
    /\ \A i \in DOMAIN runs'[t] : runs'[t][i].st = "RUNNING" => i = Len(runs'[t])
    /\ runs[t] # << >> => runs'[t] # << >>
    /\ \A q \in Procs \ {p} : pc[q] \in Observing /\ cur[q] = t =>
          runs'[t] = runs[t] /\ pc'[p] \notin Observing

(* Who has the task for itself leaves it in order, and adds it to the work *)
(* only within the capacity.                                               *)
TaskKept(p, t) ==
    Held(p) /\ Ended(t) =>
        /\ Held(p)' /\ Ended(t)'
        /\ Working(t)' => Working(t) \/ Cardinality(InWork \ {t}) < Capacity

Kept(p, t) == StepAt(p, t) /\ RowsAt(p, t) /\ OwnRow(p)' /\ TaskKept(p, t)

(* The types of the rows. *)
LEMMA RowTypes ==
    ASSUME RowInv
    PROVE  /\ runs \in [Tasks -> Seq(RunRow)] /\ OnlyLastActive
           /\ \A p \in Procs : OwnRow(p)
           /\ \A p \in Procs : cur[p] \in Tasks
  BY DEF RowInv, TypeOK, RunRow, Observers

(* A step that leaves the rows alone. *)
LEMMA SameRows ==
    ASSUME RowInv, NEW p \in Procs, NEW t \in Tasks, UNCHANGED runs,
           pc'[p] \in Observing => pc[p] \in Observing /\ cur[p] = t
    PROVE  RowsAt(p, t) /\ (Active(t)' <=> Active(t))
<1>1. runs \in [Tasks -> Seq(RunRow)] /\ OnlyLastActive
  BY RowTypes
<1>2. \A q \in Procs \ {p} : pc[q] \in Observing /\ cur[q] = t => pc'[p] \notin Observing
  BY DEF RowInv, Observers
<1> QED
  BY <1>1, <1>2 DEF RowsAt, OnlyLastActive, Active

(* A transition leaves the rows alone; what is to be shown of its task.    *)
LEMMA TransitionKept ==
    ASSUME RowInv, NEW p \in Procs, NEW t \in Tasks, t = cur[p], NEW from \in Steps \ {"idle"},
           NEW to \in TaskStatus, NEW next \in Steps, Transition(p, from, to, next),
           next \notin Observing \union {"validate", "dispatch", "poll", "drive", "accept"},
           next = "finish" => from = "validate",
           next \in {"run", "save"} => from \in {"claim", "run"},
           next = "claim" => FALSE,
           Held(p) /\ Ended(t) /\ Allowed(t, to) =>
              /\ next = "fresh" => to = "DISCOVERED"
              /\ next \in {"source", "policy"} => to = "READY"
              /\ next = "run" => to = "CLAIMED" /\ status[t] # "CLAIMED"
              /\ next = "save" => to = "RUNNING"
              /\ next = "finish" => to = "VALIDATING"
              /\ to = "DONE" =>
                    runs[t] # << >> /\ Last(runs[t]).st = "SUCCEEDED" /\ Last(runs[t]).green
              /\ to \in {"RUNNING", "VALIDATING"} => status[t] \in {"CLAIMED", "RUNNING"}
              /\ ~Active(t)
    PROVE  Kept(p, t)
<1>0. TypeOK /\ t \in Tasks /\ runs \in [Tasks -> Seq(RunRow)] /\ OwnRow(p)
  BY RowTypes DEF RowInv
<1>1. /\ pc[p] = from /\ LocalAt(p) /\ TaskAt(t)
      /\ UNCHANGED <<runs, issue, agent, seen, setting, cur>>
      /\ \/ /\ Allowed(t, to) /\ status'[t] = to /\ pc'[p] = next
            /\ claims'[t] = IF to = "CLAIMED" /\ status[t] # to
                                 THEN claims[t] + 1 ELSE claims[t]
            /\ next # "idle" => UNCHANGED <<res, mine>>
         \/ UNCHANGED <<status, claims>> /\ pc'[p] = "idle"
  BY <1>0, TransitionEffect
<1>2. StepAt(p, t)
  BY <1>0, <1>1 DEF StepAt, SameMode, TypeOK
<1>3. RowsAt(p, t) /\ (Active(t)' <=> Active(t))
  BY <1>1, SameRows DEF Observing
<1>4. OwnRow(p)'
  BY <1>0, <1>1 DEF OwnRow, Observing
<1>5. TaskKept(p, t)
  <2> SUFFICES ASSUME Held(p), Ended(t)
               PROVE  /\ Held(p)' /\ Ended(t)'
                      /\ Working(t)' => Working(t) \/ Cardinality(InWork \ {t}) < Capacity
    BY DEF TaskKept
  <2>0. seen[t] \in Nat /\ claims[t] \in Nat /\ cur'[p] = t
    BY <1>0, <1>1 DEF TypeOK
  <2>1. CASE UNCHANGED <<status, claims>> /\ pc'[p] = "idle"
    <3>1. Held(p)'
      BY <2>1 DEF Held
    <3>2. Ended(t)'
      BY <1>1, <1>3, <2>1 DEF Ended
    <3> QED
      BY <1>3, <2>1, <3>1, <3>2 DEF Working
  <2>2. CASE /\ Allowed(t, to) /\ status'[t] = to /\ pc'[p] = next
             /\ claims'[t] = IF to = "CLAIMED" /\ status[t] # to
                                  THEN claims[t] + 1 ELSE claims[t]
             /\ next # "idle" => UNCHANGED <<res, mine>>
    <3>1. seen'[t] <= claims'[t] /\ (next = "run" => seen'[t] < claims'[t])
      BY <1>1, <2>0, <2>2 DEF Ended
    <3>2. next = "save" => seen'[t] < claims'[t]
      BY <1>1, <2>0, <2>2 DEF Held
    <3>3. Held(p)'
      <4>1. /\ next = "finish" =>
                  runs'[t] # << >> /\ Last(runs'[t]) = Run(res'[p], res'[p] = "SUCCEEDED")
        BY <1>1, <2>0, <2>2 DEF Held
      <4> QED
        BY <1>3, <2>0, <2>2, <3>1, <3>2, <4>1 DEF Held, Observing, Steps
    <3>4. Ended(t)'
      BY <1>1, <1>3, <2>2, <3>1 DEF Ended
    <3>5. Working(t)' => Working(t) \/ Cardinality(InWork \ {t}) < Capacity
      BY <1>3, <2>2 DEF Working, Allowed
    <3> QED
      BY <3>3, <3>4, <3>5
  <2> QED
    BY <1>1, <2>1, <2>2
<1> QED
  BY <1>2, <1>3, <1>4, <1>5 DEF Kept

(* The edges of the lifecycle the proofs use (domain/task_lifecycle.py). *)
LEMMA Edges ==
    ASSUME NEW s
    PROVE  /\ CanTransition(s, "RUNNING") => s = "CLAIMED"
           /\ CanTransition(s, "VALIDATING") => s \in {"RUNNING", "BLOCKED"}
           /\ CanTransition(s, "CLAIMED") => s = "READY"
           /\ CanTransition(s, "FAILED") => s \notin {"READY", "CLAIMED"}
  BY DEF CanTransition, Transitions

(* A pass ends and leaves everything else alone. *)
LEMMA LeavesKept ==
    ASSUME RowInv, NEW p \in Procs, NEW t \in Tasks, t = cur[p], NEW S, Leaves(p, S),
           UNCHANGED <<store, world, history, setting>>
    PROVE  Kept(p, t)
<1>0. TypeOK
  BY DEF RowInv
<1>1. LocalAt(p) /\ pc'[p] = "idle" /\ UNCHANGED cur
  BY <1>0, LeavesLocal
<1>2. UNCHANGED <<status, begun, runs, issue, agent, claims, seen, setting>>
  BY DEF store, world, history
<1>3. StepAt(p, t)
  BY <1>0, <1>1, <1>2 DEF StepAt, SameMode, TaskAt, TypeOK
<1>4. RowsAt(p, t) /\ (Active(t)' <=> Active(t))
  BY <1>1, <1>2, SameRows DEF Observing
<1>5. OwnRow(p)' /\ Held(p)'
  BY <1>1 DEF OwnRow, Held, Observing
<1>6. TaskKept(p, t)
  BY <1>2, <1>4, <1>5 DEF TaskKept, Ended, Working
<1> QED
  BY <1>3, <1>4, <1>5, <1>6 DEF Kept

(* A pass goes on and leaves everything else alone. *)
LEMMA AtKept ==
    ASSUME RowInv, NEW p \in Procs, NEW t \in Tasks, t = cur[p], NEW from, NEW to \in Steps,
           At(p, from, to), UNCHANGED <<store, world, history, cur, res, mine, setting>>,
           from # "idle", to \notin Observing, OwnRow(p)', Held(p) => Held(p)'
    PROVE  Kept(p, t)
<1>0. TypeOK
  BY DEF RowInv
<1>1. LocalAt(p)
  BY <1>0, AtLocal DEF LocalAt, TypeOK
<1>p. pc'[p] = to
  BY <1>0, AtLocal
<1>2. UNCHANGED <<status, begun, runs, issue, agent, claims, seen, setting>>
  BY DEF store, world, history
<1>3. StepAt(p, t)
  BY <1>0, <1>1, <1>2 DEF StepAt, SameMode, TaskAt, TypeOK
<1>4. RowsAt(p, t) /\ (Active(t)' <=> Active(t))
  BY <1>p, <1>2, SameRows
<1>6. TaskKept(p, t)
  BY <1>2, <1>4 DEF TaskKept, Ended, Working
<1> QED
  BY <1>3, <1>4, <1>6 DEF Kept

(* What a process at a step knows stays known if only its step changes. *)
LEMMA HeldAt ==
    ASSUME NEW p \in Procs, Held(p), UNCHANGED <<status, runs, claims, seen, cur, res>>,
           \/ pc[p] = "source" /\ pc'[p] = "policy"
           \/ pc[p] = "policy" /\ pc'[p] \in {"claim", "dispatch"}
           \/ pc[p] = "poll" /\ pc'[p] = "drive" /\ ~Active(cur[p])
    PROVE  Held(p)'
<1>1. Active(cur[p])' <=> Active(cur[p])
  BY DEF Active
<1> QED
  BY <1>1 DEF Held

(* _source_matches: the Issue of a task that never started. *)
LEMMA CheckSourceKept ==
    ASSUME RowInv, NEW p \in Procs, NEW t \in Tasks, t = cur[p], CheckSource(p)
    PROVE  Kept(p, t)
<1>0. TypeOK /\ OwnRow(p)
  BY RowTypes DEF RowInv
<1>1. CASE /\ runs[t] = << >> /\ pc[p] \in {"source", "fresh"}
           /\ Transition(p, pc[p], "CANCELLED", "idle")
  <2>1. ~Active(t)
    BY <1>1 DEF Active
  <2> QED
    BY <1>1, <2>1, TransitionKept DEF Steps, TaskStatus, Observing
<1>2. CASE Transition(p, "fresh", "READY", "policy")
  <2>1. pc[p] = "fresh"
    BY <1>0, <1>2, TransitionEffect DEF Steps, TaskStatus
  <2>2. Held(p) => ~Active(t)
    BY <2>1 DEF Held
  <2> QED
    BY <1>2, <2>2, TransitionKept DEF Steps, TaskStatus, Observing
<1>3. CASE /\ At(p, "source", "policy")
           /\ UNCHANGED <<store, world, history, cur, res, mine, setting>>
  <2>1. pc[p] = "source" /\ pc'[p] = "policy"
    BY <1>0, <1>3, AtLocal DEF Steps
  <2>2. UNCHANGED <<status, runs, claims, seen, cur, res, mine, setting>>
    BY <1>3 DEF store, history
  <2>3. OwnRow(p)'
    BY <1>0, <2>1, <2>2 DEF OwnRow, Observing
  <2>4. Held(p) => Held(p)'
    BY <2>1, <2>2, HeldAt
  <2> QED
    BY <1>3, <2>3, <2>4, AtKept DEF Steps, Observing
<1> QED
  BY <1>1, <1>2, <1>3 DEF CheckSource

(* The operator's policy. *)
LEMMA CheckPolicyKept ==
    ASSUME RowInv, NEW p \in Procs, NEW t \in Tasks, t = cur[p], CheckPolicy(p)
    PROVE  Kept(p, t)
<1>0. TypeOK /\ OwnRow(p)
  BY RowTypes DEF RowInv
<1>1. CASE Transition(p, "policy", "BLOCKED", "idle")
  <2>1. pc[p] = "policy"
    BY <1>0, <1>1, TransitionEffect DEF Steps, TaskStatus
  <2>2. Held(p) => ~Active(t)
    BY <2>1 DEF Held
  <2> QED
    BY <1>1, <2>2, TransitionKept DEF Steps, TaskStatus, Observing
<1>2. CASE /\ At(p, "policy", IF cur[p] \in Direct THEN "claim" ELSE "dispatch")
           /\ UNCHANGED <<store, world, history, cur, res, mine, setting>>
  <2> DEFINE l == IF cur[p] \in Direct THEN "claim" ELSE "dispatch"
  <2>1. l \in {"claim", "dispatch"} /\ (l = "claim" <=> t \in Direct) /\ At(p, "policy", l)
    BY <1>2
  <2> HIDE DEF l
  <2>2. pc[p] = "policy" /\ pc'[p] = l
    BY <1>0, <2>1, AtLocal DEF Steps
  <2>3. UNCHANGED <<status, runs, claims, seen, cur, res, mine, setting>>
    BY <1>2 DEF store, history
  <2>4. OwnRow(p)'
    BY <1>0, <2>1, <2>2, <2>3 DEF OwnRow, Observing
  <2>5. Held(p) => Held(p)'
    BY <2>1, <2>2, <2>3, HeldAt
  <2> QED
    BY <1>2, <2>1, <2>4, <2>5, AtKept DEF Steps, Observing
<1> QED
  BY <1>1, <1>2 DEF CheckPolicy

(* The transitions of a direct task (runtime.py _run_database,             *)
(* _run_service_health, _run_docker, _finish_operational_observation).     *)
LEMMA DirectKept ==
    ASSUME RowInv, NEW p \in Procs, NEW t \in Tasks, t = cur[p],
           Claim(p) \/ Start(p) \/ Validate(p) \/ Finish(p)
    PROVE  Kept(p, t)
<1>0. TypeOK
  BY DEF RowInv
<1>1. CASE Claim(p)
  <2>1. pc[p] = "claim" /\ Transition(p, "claim", "CLAIMED", "run")
    BY <1>0, <1>1, TransitionEffect DEF Claim, Steps, TaskStatus
  <2>2. Held(p) => ~Active(t) /\ status[t] = "READY"
    BY <2>1 DEF Held
  <2> QED
    BY <2>1, <2>2, TransitionKept DEF Steps, TaskStatus, Observing
<1>2. CASE Start(p)
  <2>1. pc[p] = "run" /\ Transition(p, "run", "RUNNING", "save")
    BY <1>0, <1>2, TransitionEffect DEF Start, Steps, TaskStatus
  <2>2. Held(p) => ~Active(t)
    BY <2>1 DEF Held
  <2>3. Allowed(t, "RUNNING") => status[t] \in {"CLAIMED", "RUNNING"}
    BY Edges DEF Allowed
  <2> QED
    BY <2>1, <2>2, <2>3, TransitionKept DEF Steps, TaskStatus, Observing
<1>3. CASE Validate(p)
  <2>1. pc[p] = "validate" /\ Transition(p, "validate", "VALIDATING", "finish")
    BY <1>0, <1>3, TransitionEffect DEF Validate, Steps, TaskStatus
  <2>2. Held(p) => ~Active(t) /\ status[t] = "RUNNING"
    BY <2>1 DEF Held
  <2> QED
    BY <2>1, <2>2, TransitionKept DEF Steps, TaskStatus, Observing
<1>4. CASE Finish(p)
  <2> DEFINE to == IF res[p] = "SUCCEEDED" THEN "DONE" ELSE "BLOCKED"
  <2>1. Transition(p, "finish", to, "idle") /\ to \in {"DONE", "BLOCKED"}
        /\ (to = "DONE" <=> res[p] = "SUCCEEDED")
    BY <1>4 DEF Finish
  <2> HIDE DEF to
  <2>2. pc[p] = "finish"
    BY <1>0, <2>1, TransitionEffect DEF Steps, TaskStatus
  <2>3. Held(p) => /\ ~Active(t) /\ runs[t] # << >>
                   /\ Last(runs[t]) = Run(res[p], res[p] = "SUCCEEDED")
    BY <2>2 DEF Held
  <2>4. Run(res[p], res[p] = "SUCCEEDED").st = res[p]
        /\ Run(res[p], res[p] = "SUCCEEDED").green = (res[p] = "SUCCEEDED")
    BY DEF Run
  <2>5. Held(p) /\ to = "DONE" =>
           runs[t] # << >> /\ Last(runs[t]).st = "SUCCEEDED" /\ Last(runs[t]).green
    BY <2>1, <2>3, <2>4
  <2> QED
    BY <2>1, <2>3, <2>5, TransitionKept DEF Steps, TaskStatus, Observing
<1> QED
  BY <1>1, <1>2, <1>3, <1>4

(* A run is saved under the unique index, observed, and stored with its    *)
(* result (runtime.py, run_sqlite.py).                                     *)
LEMMA ObservationKept ==
    ASSUME RowInv, NEW p \in Procs, NEW t \in Tasks, t = cur[p],
           SaveRun(p) \/ Inspect(p) \/ UpdateRun(p)
    PROVE  Kept(p, t)
<1>0. TypeOK /\ OwnRow(p) /\ runs \in [Tasks -> Seq(RunRow)] /\ OnlyLastActive
  BY RowTypes DEF RowInv
<1>1. CASE SaveRun(p)
  <2>1. CASE Leaves(p, {"save"}) /\ UNCHANGED <<store, world, history, setting>>
    BY <2>1, LeavesKept
  <2>2. CASE /\ ~Active(t) /\ At(p, "save", "inspect")
             /\ runs' = [runs EXCEPT ![t] = Append(@, Run("RUNNING", FALSE))]
             /\ mine' = [mine EXCEPT ![p] = Len(runs[t]) + 1]
             /\ UNCHANGED <<status, begun, world, history, cur, res, setting>>
    <3>1. /\ pc' \in [Procs -> Steps] /\ pc'[p] = "inspect" /\ pc[p] = "save"
          /\ \A q \in Procs \ {p} : pc'[q] = pc[q]
      BY <1>0, <2>2, AtLocal DEF Steps
    <3>2. Run("RUNNING", FALSE) \in RunRow /\ Run("RUNNING", FALSE).st = "RUNNING"
      BY DEF Run, RunRow
    <3>3. /\ Appended(t, Run("RUNNING", FALSE)) /\ \A u \in Tasks \ {t} : runs'[u] = runs[u]
          /\ DOMAIN runs' = Tasks
      BY <1>0, <2>2 DEF Appended
    <3>4. /\ runs'[t] \in Seq(RunRow) /\ runs'[t] # << >>
          /\ Len(runs'[t]) = Len(runs[t]) + 1
          /\ runs'[t][Len(runs[t]) + 1].st = "RUNNING"
          /\ \A i \in DOMAIN runs'[t] : runs'[t][i].st = "RUNNING" => i = Len(runs'[t])
      BY <1>0, <3>2, <3>3, AppendedRow, ZenonT(30)
    <3>5. runs' \in [Tasks -> Seq(RunRow)]
      BY <1>0, <2>2, <3>4
    <3>6. UNCHANGED <<status, begun, issue, agent, claims, seen, cur, res, setting>>
      BY <2>2 DEF world, history
    <3>7. mine' \in [Procs -> Nat] /\ mine'[p] = Len(runs[t]) + 1
          /\ \A q \in Procs \ {p} : mine'[q] = mine[q]
      BY <1>0, <2>2 DEF TypeOK
    <3>8. StepAt(p, t)
      BY <1>0, <3>1, <3>6, <3>7 DEF StepAt, SameMode, TaskAt, LocalAt, TypeOK
    <3>9. RowsAt(p, t)
      <4>1. \A q \in Procs : pc[q] \in Observing => cur[q] # t
        BY <2>2 DEF RowInv, Observers, OwnRow, Active
      <4> QED
        BY <3>3, <3>4, <3>5, <4>1 DEF RowsAt
    <3>10. OwnRow(p)'
      <4>1. mine'[p] \in DOMAIN runs'[t] /\ runs'[t][mine'[p]].st = "RUNNING"
        BY <1>0, <3>4, <3>7
      <4> QED
        BY <1>0, <3>1, <3>6, <4>1 DEF OwnRow, Observing
    <3>11. TaskKept(p, t)
      <4> SUFFICES ASSUME Held(p), Ended(t)
                   PROVE  /\ Held(p)' /\ Ended(t)' /\ Working(t)
        BY DEF TaskKept
      <4>1. status[t] = "RUNNING" /\ seen[t] < claims[t]
        BY <3>1 DEF Held
      <4> QED
        BY <3>1, <3>6, <4>1 DEF Held, Ended, Working
    <3> QED
      BY <3>8, <3>9, <3>10, <3>11 DEF Kept
  <2> QED
    BY <1>1, <2>1, <2>2 DEF SaveRun
<1>2. CASE Inspect(p)
  <2>1. /\ pc' \in [Procs -> Steps] /\ pc'[p] = "update" /\ pc[p] = "inspect"
        /\ \A q \in Procs \ {p} : pc'[q] = pc[q]
    BY <1>0, <1>2, AtLocal DEF Inspect, Steps
  <2>2. PICK r \in {"SUCCEEDED", "FAILED"} : res' = [res EXCEPT ![p] = r]
    BY <1>2 DEF Inspect
  <2>3. /\ res' \in [Procs -> {"none", "SUCCEEDED", "FAILED"}] /\ res'[p] # "none"
        /\ \A q \in Procs \ {p} : res'[q] = res[q]
    BY <1>0, <2>2 DEF TypeOK
  <2>4. UNCHANGED <<status, begun, runs, issue, agent, claims, cur, mine, setting>>
    BY <1>2 DEF Inspect, store, world
  <2>5. /\ seen' \in [Tasks -> Nat] /\ seen'[t] = seen[t] + 1
        /\ \A u \in Tasks \ {t} : seen'[u] = seen[u]
    BY <1>0, <1>2 DEF Inspect, TypeOK
  <2>6. StepAt(p, t)
    BY <1>0, <2>1, <2>3, <2>4, <2>5 DEF StepAt, SameMode, TaskAt, LocalAt, TypeOK
  <2>7. RowsAt(p, t) /\ (Active(t)' <=> Active(t))
    BY <2>1, <2>4, SameRows DEF Observing
  <2>8. OwnRow(p)'
    BY <1>0, <2>1, <2>3, <2>4 DEF OwnRow, Observing
  <2>9. TaskKept(p, t)
    <3> SUFFICES ASSUME Held(p), Ended(t)
                 PROVE  /\ Held(p)' /\ Ended(t)' /\ Working(t)
      BY DEF TaskKept
    <3>1. status[t] = "RUNNING" /\ seen[t] < claims[t]
      BY <2>1 DEF Held
    <3>2. seen'[t] <= claims'[t]
      BY <1>0, <2>4, <2>5, <3>1 DEF TypeOK
    <3> QED
      BY <2>1, <2>4, <2>7, <3>1, <3>2 DEF Held, Ended, Working
  <2> QED
    BY <2>6, <2>7, <2>8, <2>9 DEF Kept
<1>3. CASE UpdateRun(p)
  <2> DEFINE r == Run(res[p], res[p] = "SUCCEEDED")
  <2>1. /\ pc' \in [Procs -> Steps] /\ pc'[p] = "validate" /\ pc[p] = "update"
        /\ \A q \in Procs \ {p} : pc'[q] = pc[q]
    BY <1>0, <1>3, AtLocal DEF UpdateRun, Steps
  <2>2. res[p] \in {"SUCCEEDED", "FAILED"}
    BY <1>0, <2>1 DEF OwnRow, TypeOK
  <2>3. r \in RunRow /\ r.st # "RUNNING"
    BY <2>2 DEF Run, RunRow
  <2>4. runs' = [runs EXCEPT ![t] = [runs[t] EXCEPT ![mine[p]] = r]]
    BY <1>3 DEF UpdateRun
  <2>5. mine[p] \in DOMAIN runs[t] /\ runs[t][mine[p]].st = "RUNNING"
    BY <1>0, <2>1 DEF OwnRow, Observing
  <2> HIDE DEF r
  <2>6. Stored(t, mine[p], r) /\ \A u \in Tasks \ {t} : runs'[u] = runs[u]
    BY <1>0, <2>4, <2>5 DEF Stored
  <2>7. /\ runs'[t] \in Seq(RunRow) /\ runs'[t] # << >> /\ Last(runs'[t]) = r
        /\ ~Active(t)'
        /\ \A j \in DOMAIN runs'[t] : runs'[t][j].st = "RUNNING" => j = Len(runs'[t])
    BY <1>0, <2>3, <2>5, <2>6, StoredRow
  <2>8. runs' \in [Tasks -> Seq(RunRow)]
    BY <1>0, <2>4, <2>7
  <2>9. UNCHANGED <<status, begun, issue, agent, claims, seen, cur, res, mine, setting>>
    BY <1>3 DEF UpdateRun, world, history
  <2>10. StepAt(p, t)
    BY <1>0, <2>1, <2>9 DEF StepAt, SameMode, TaskAt, LocalAt, TypeOK
  <2>11. RowsAt(p, t)
    <3>1. \A q \in Procs \ {p} : pc[q] \in Observing => cur[q] # t
      BY <2>1 DEF RowInv, Observers, Observing
    <3> QED
      BY <2>6, <2>7, <2>8, <3>1 DEF RowsAt
  <2>12. OwnRow(p)'
    BY <1>0, <2>1, <2>2, <2>9 DEF OwnRow, Observing
  <2>13. TaskKept(p, t)
    <3> SUFFICES ASSUME Held(p), Ended(t)
                 PROVE  /\ Held(p)' /\ Ended(t)' /\ Working(t)
      BY DEF TaskKept
    <3>1. status[t] = "RUNNING"
      BY <2>1 DEF Held
    <3>2. Last(runs'[t]) = Run(res'[p], res'[p] = "SUCCEEDED")
      BY <2>7, <2>9 DEF r
    <3> QED
      BY <2>1, <2>7, <2>9, <3>1, <3>2 DEF Held, Ended, Working
  <2> QED
    BY <2>10, <2>11, <2>12, <2>13 DEF Kept
<1> QED
  BY <1>1, <1>2, <1>3

(* A row of a scratch task is added or stored: nobody observes the task. *)
LEMMA ScratchRows ==
    ASSUME RowInv, NEW p \in Procs, NEW t \in Tasks, t \notin Direct, NEW s \in Seq(RunRow),
           runs' = [runs EXCEPT ![t] = s], s # << >>,
           \A i \in DOMAIN s : s[i].st = "RUNNING" => i = Len(s)
    PROVE  RowsAt(p, t) /\ runs'[t] = s
<1>1. runs \in [Tasks -> Seq(RunRow)] /\ \A q \in Procs : OwnRow(q)
  BY RowTypes
<1>2. \A q \in Procs : pc[q] \in Observing => cur[q] # t
  BY <1>1 DEF OwnRow, Observing
<1>3. runs' \in [Tasks -> Seq(RunRow)] /\ runs'[t] = s /\ \A u \in Tasks \ {t} : runs'[u] = runs[u]
  BY <1>1
<1> QED
  BY <1>2, <1>3 DEF RowsAt

(* Dispatch of a scratch task: claim, workspace, Codex and run. *)
LEMMA DispatchKept ==
    ASSUME RowInv, NEW p \in Procs, NEW t \in Tasks, t = cur[p], Dispatch(p)
    PROVE  Kept(p, t)
<1>0. TypeOK /\ OwnRow(p) /\ runs \in [Tasks -> Seq(RunRow)] /\ OnlyLastActive
  BY RowTypes DEF RowInv
<1>1. pc[p] = "dispatch" /\ UNCHANGED <<issue, seen, setting>> /\ t \notin Direct
  BY <1>0 DEF Dispatch, OwnRow
<1>2. CASE Leaves(p, {"dispatch"}) /\ UNCHANGED <<store, agent, claims>>
  <2>1. UNCHANGED <<store, world, history, setting>>
    BY <1>1, <1>2 DEF world, history
  <2> QED
    BY <1>2, <2>1, LeavesKept
<1>3. CASE /\ status[t] = "READY" /\ Allowed(t, "CLAIMED") /\ ~Active(t)
           /\ claims' = [claims EXCEPT ![t] = @ + 1]
           /\ \/ /\ Becomes(t, "RUNNING") /\ At(p, "dispatch", "poll")
                 /\ runs' = [runs EXCEPT ![t] = Append(@, Run("RUNNING", FALSE))]
                 /\ agent' = [agent EXCEPT ![t] = "running"]
                 /\ UNCHANGED <<cur, res, mine>>
              \/ /\ Becomes(t, "BLOCKED") /\ Leaves(p, {"dispatch"})
                 /\ runs' = [runs EXCEPT ![t] = Append(@, Run("FAILED", FALSE))]
                 /\ UNCHANGED agent
  <2>1. claims' \in [Tasks -> Nat] /\ claims'[t] = claims[t] + 1
        /\ \A u \in Tasks \ {t} : claims'[u] = claims[u]
    BY <1>0, <1>3 DEF TypeOK
  <2>2. Cardinality(InWork \ {t}) < Capacity
    BY <1>3 DEF Allowed
  <2>3. PICK st \in {"RUNNING", "FAILED"} :
           /\ runs' = [runs EXCEPT ![t] = Append(runs[t], Run(st, FALSE))]
           /\ st = "RUNNING" => /\ Becomes(t, "RUNNING") /\ At(p, "dispatch", "poll")
                                /\ agent' = [agent EXCEPT ![t] = "running"]
                                /\ UNCHANGED <<cur, res, mine>>
           /\ st = "FAILED" => /\ Becomes(t, "BLOCKED") /\ Leaves(p, {"dispatch"})
                               /\ UNCHANGED agent
    BY <1>3
  <2>4. Run(st, FALSE) \in RunRow /\ Run(st, FALSE).st = st
    BY DEF Run, RunRow
  <2>5. Appended(t, Run(st, FALSE)) /\ runs'[t] = Append(runs[t], Run(st, FALSE))
    BY <1>0, <1>3, <2>3 DEF Appended
  <2>6. /\ runs'[t] \in Seq(RunRow) /\ runs'[t] # << >>
        /\ \A i \in DOMAIN runs'[t] : runs'[t][i].st = "RUNNING" => i = Len(runs'[t])
        /\ Active(t)' <=> st = "RUNNING"
    BY <1>0, <2>4, <2>5, AppendedRow
  <2>7. RowsAt(p, t)
    BY <1>1, <2>3, <2>5, <2>6, ScratchRows
  <2>8. /\ status' \in [Tasks -> TaskStatus] /\ begun' \in [Tasks -> BOOLEAN]
        /\ \A u \in Tasks \ {t} : status'[u] = status[u]
        /\ status'[t] = IF st = "RUNNING" THEN "RUNNING" ELSE "BLOCKED"
    BY <1>0, <2>3, BecomesType DEF TaskStatus
  <2>9. LocalAt(p) /\ pc'[p] = (IF st = "RUNNING" THEN "poll" ELSE "idle") /\ UNCHANGED cur
    <3>1. CASE st = "RUNNING"
      BY <1>0, <2>3, <3>1, AtLocal DEF LocalAt, TypeOK, Steps
    <3>2. CASE st = "FAILED"
      BY <1>0, <2>3, <3>2, LeavesLocal
    <3> QED
      BY <3>1, <3>2
  <2>10. agent' \in [Tasks -> {"none", "running", "artifact", "other", "failed"}]
    BY <1>0, <2>3 DEF TypeOK
  <2>11. StepAt(p, t)
    BY <1>0, <1>1, <2>1, <2>8, <2>9, <2>10 DEF StepAt, SameMode, TaskAt, TypeOK
  <2>12. OwnRow(p)'
    BY <1>0, <1>1, <2>6, <2>9 DEF OwnRow, Observing
  <2>13. TaskKept(p, t)
    <3> SUFFICES ASSUME Held(p), Ended(t)
                 PROVE  Held(p)' /\ Ended(t)'
      BY <2>2 DEF TaskKept
    <3>1. seen'[t] <= claims'[t]
      BY <1>0, <1>1, <2>1 DEF Ended, TypeOK
    <3>2. Ended(t)'
      BY <2>6, <2>8, <3>1 DEF Ended
    <3>3. Held(p)'
      BY <2>8, <2>9 DEF Held
    <3> QED
      BY <3>2, <3>3
  <2> QED
    BY <2>7, <2>11, <2>12, <2>13 DEF Kept
<1> QED
  BY <1>2, <1>3 DEF Dispatch

(* The claim of a scratch task is committed and nothing else. *)
LEMMA ProvisioningFailsKept ==
    ASSUME RowInv, NEW p \in Procs, NEW t \in Tasks, t = cur[p], ProvisioningFails(p)
    PROVE  Kept(p, t)
<1>0. TypeOK
  BY DEF RowInv
<1>1. /\ Spend("failures") /\ status[t] = "READY" /\ Allowed(t, "CLAIMED")
      /\ Becomes(t, "CLAIMED") /\ Leaves(p, {"dispatch"})
      /\ claims' = [claims EXCEPT ![t] = claims[t] + 1]
      /\ UNCHANGED <<runs, issue, agent, seen>>
  BY DEF ProvisioningFails, world
<1>2. SameMode
  BY <1>0, <1>1, SpendMode
<1>3. LocalAt(p) /\ pc'[p] = "idle" /\ UNCHANGED cur
  BY <1>0, <1>1, LeavesLocal
<1>4. claims' \in [Tasks -> Nat] /\ claims'[t] = claims[t] + 1
      /\ \A u \in Tasks \ {t} : claims'[u] = claims[u]
  BY <1>0, <1>1 DEF TypeOK
<1>5. /\ status' \in [Tasks -> TaskStatus] /\ begun' \in [Tasks -> BOOLEAN]
      /\ status'[t] = "CLAIMED" /\ \A u \in Tasks \ {t} : status'[u] = status[u]
  BY <1>0, <1>1, BecomesType DEF TaskStatus
<1>6. StepAt(p, t)
  BY <1>0, <1>1, <1>2, <1>3, <1>4, <1>5 DEF StepAt, TaskAt, TypeOK
<1>7. RowsAt(p, t)
  BY <1>1, <1>3, SameRows DEF Observing
<1>8. OwnRow(p)' /\ Held(p)'
  BY <1>3 DEF OwnRow, Held, Observing
<1>9. Ended(t) => Ended(t)'
  BY <1>0, <1>1, <1>4, <1>5 DEF Ended, TypeOK
<1>10. Cardinality(InWork \ {t}) < Capacity
  BY <1>1 DEF Allowed
<1> QED
  BY <1>6, <1>7, <1>8, <1>9, <1>10 DEF Kept, TaskKept

(* A poll of a scratch task collects its run once (tracking). *)
LEMMA PollKept ==
    ASSUME RowInv, NEW p \in Procs, NEW t \in Tasks, t = cur[p], Poll(p)
    PROVE  Kept(p, t)
<1>0. TypeOK /\ OwnRow(p) /\ runs \in [Tasks -> Seq(RunRow)] /\ OnlyLastActive
  BY RowTypes DEF RowInv
<1>1. CASE Leaves(p, {"poll"}) /\ UNCHANGED <<store, world, history, setting>>
  BY <1>1, LeavesKept
<1>2. CASE /\ ~Active(t) /\ At(p, "poll", "drive")
           /\ UNCHANGED <<store, world, history, cur, res, mine, setting>>
  <2>1. pc[p] = "poll" /\ pc'[p] = "drive"
    BY <1>0, <1>2, AtLocal DEF Steps
  <2>2. UNCHANGED <<status, runs, claims, seen, cur, res, mine, setting>>
    BY <1>2 DEF store, history
  <2>3. OwnRow(p)'
    BY <1>0, <2>1, <2>2 DEF OwnRow, Observing
  <2>4. Held(p) => Held(p)'
    BY <1>2, <2>1, <2>2, HeldAt
  <2> QED
    BY <1>2, <2>3, <2>4, AtKept DEF Steps, Observing
<1>3. CASE /\ Active(t) /\ agent[t] # "running" /\ At(p, "poll", "drive")
           /\ runs' = [runs EXCEPT ![t][Len(runs[t])] = Accepted(t)]
           /\ UNCHANGED <<status, begun, world, history, cur, res, mine, setting>>
  <2> DEFINE r == Accepted(t)
             s == [runs[t] EXCEPT ![Len(runs[t])] = r]
  <2>1. /\ pc' \in [Procs -> Steps] /\ pc'[p] = "drive" /\ pc[p] = "poll"
        /\ \A q \in Procs \ {p} : pc'[q] = pc[q]
    BY <1>0, <1>3, AtLocal DEF Steps
  <2>2. r \in RunRow /\ r.st # "RUNNING"
    BY DEF Accepted, Run, RunRow
  <2>3. runs' = [runs EXCEPT ![t] = s]
    BY <1>3
  <2>4. Len(runs[t]) \in DOMAIN runs[t] /\ runs[t][Len(runs[t])].st = "RUNNING"
    BY <1>0, <1>3, ActiveIsLast
  <2> HIDE DEF r
  <2>5. Stored(t, Len(runs[t]), r) /\ runs'[t] = s
    BY <1>0, <2>3, <2>4 DEF Stored
  <2>6. /\ runs'[t] \in Seq(RunRow) /\ runs'[t] # << >> /\ ~Active(t)'
        /\ \A j \in DOMAIN runs'[t] : runs'[t][j].st = "RUNNING" => j = Len(runs'[t])
    BY <1>0, <2>2, <2>4, <2>5, StoredRow
  <2> HIDE DEF s
  <2>7. t \notin Direct
    BY <1>0, <2>1 DEF OwnRow
  <2>8. RowsAt(p, t)
    BY <2>3, <2>5, <2>6, <2>7, ScratchRows
  <2>9. UNCHANGED <<status, begun, issue, agent, claims, seen, cur, res, mine, setting>>
    BY <1>3 DEF world, history
  <2>10. StepAt(p, t)
    BY <1>0, <2>1, <2>9 DEF StepAt, SameMode, TaskAt, LocalAt, TypeOK
  <2>11. OwnRow(p)'
    BY <1>0, <2>1, <2>6, <2>9 DEF OwnRow, Observing
  <2>12. TaskKept(p, t)
    <3> SUFFICES ASSUME Held(p), Ended(t)
                 PROVE  Held(p)' /\ Ended(t)' /\ Working(t)
      BY DEF TaskKept
    <3>1. Working(t)
      BY <1>3 DEF Working
    <3>2. status[t] \in {"CLAIMED", "RUNNING", "VALIDATING", "READY"}
      BY <2>1 DEF Held
    <3>3. Ended(t)'
      BY <2>6, <2>9, <3>2 DEF Ended
    <3>4. Held(p)'
      BY <2>1, <2>6, <2>9, <3>2 DEF Held
    <3> QED
      BY <3>1, <3>3, <3>4
  <2> QED
    BY <2>8, <2>10, <2>11, <2>12 DEF Kept
<1> QED
  BY <1>1, <1>2, <1>3 DEF Poll

(* The latest run drives its task. *)
LEMMA DriveKept ==
    ASSUME RowInv, NEW p \in Procs, NEW t \in Tasks, t = cur[p], Drive(p)
    PROVE  Kept(p, t)
<1>0. TypeOK /\ OwnRow(p)
  BY RowTypes DEF RowInv
<1> DEFINE to == IF Last(runs[t]).st = "SUCCEEDED" THEN "VALIDATING" ELSE "FAILED"
<1>1. /\ At(p, "drive", "accept")
      /\ IF CanTransition(status[t], to) THEN Becomes(t, to) ELSE UNCHANGED <<status, begun>>
      /\ UNCHANGED <<runs, issue, agent, claims, seen, cur, res, mine, setting>>
  BY DEF Drive, world, history
<1>2. to \in {"VALIDATING", "FAILED"}
  OBVIOUS
<1> HIDE DEF to
<1>3. /\ pc' \in [Procs -> Steps] /\ pc'[p] = "accept" /\ pc[p] = "drive"
      /\ \A q \in Procs \ {p} : pc'[q] = pc[q]
  BY <1>0, <1>1, AtLocal DEF Steps
<1>4. /\ status' \in [Tasks -> TaskStatus] /\ begun' \in [Tasks -> BOOLEAN]
      /\ \A u \in Tasks \ {t} : status'[u] = status[u]
      /\ status'[t] = IF CanTransition(status[t], to) THEN to ELSE status[t]
  <2>1. CASE CanTransition(status[t], to)
    BY <1>0, <1>1, <1>2, <2>1, BecomesType DEF TaskStatus
  <2>2. CASE ~CanTransition(status[t], to)
    BY <1>0, <1>1, <2>2 DEF TypeOK
  <2> QED
    BY <2>1, <2>2
<1>5. StepAt(p, t)
  BY <1>0, <1>1, <1>3, <1>4 DEF StepAt, SameMode, TaskAt, LocalAt, TypeOK
<1>6. RowsAt(p, t) /\ (Active(t)' <=> Active(t))
  BY <1>1, <1>3, SameRows DEF Observing
<1>7. OwnRow(p)'
  BY <1>0, <1>1, <1>3 DEF OwnRow, Observing
<1>8. TaskKept(p, t)
  <2> SUFFICES ASSUME Held(p), Ended(t)
               PROVE  Held(p)' /\ Ended(t)' /\ (Working(t)' => Working(t))
    BY DEF TaskKept
  <2>1. status[t] \in {"CLAIMED", "RUNNING", "VALIDATING", "READY"} /\ ~Active(t)
    BY <1>3 DEF Held
  <2>2. CanTransition(status[t], "VALIDATING") => status[t] = "RUNNING"
    BY <2>1, Edges
  <2>3. Ended(t)'
    BY <1>1, <1>2, <1>4, <1>6, <2>1 DEF Ended
  <2>4. Held(p)'
    BY <1>1, <1>3, <1>6, <2>1 DEF Held
  <2>5. Working(t)' => Working(t)
    BY <1>2, <1>4, <1>6, <2>2 DEF Working
  <2> QED
    BY <2>3, <2>4, <2>5
<1> QED
  BY <1>5, <1>6, <1>7, <1>8 DEF Kept

(* Acceptance of a scratch task by its artifact. *)
LEMMA AcceptKept ==
    ASSUME RowInv, NEW p \in Procs, NEW t \in Tasks, t = cur[p], Accept(p)
    PROVE  Kept(p, t)
<1>0. TypeOK /\ OwnRow(p)
  BY RowTypes DEF RowInv
<1>1. CASE Leaves(p, {"accept"}) /\ UNCHANGED <<store, world, history, setting>>
  BY <1>1, LeavesKept
<1>2. CASE /\ pc[p] = "accept" /\ Last(runs[t]).st = "SUCCEEDED"
           /\ Transition(p, "accept", IF Last(runs[t]).green THEN "DONE" ELSE "BLOCKED", "idle")
  <2> DEFINE to == IF Last(runs[t]).green THEN "DONE" ELSE "BLOCKED"
  <2>1. /\ Transition(p, "accept", to, "idle") /\ to \in {"DONE", "BLOCKED"}
        /\ to = "DONE" => Last(runs[t]).green
    BY <1>2
  <2> HIDE DEF to
  <2>2. runs[t] # << >> /\ (Held(p) => ~Active(t))
    BY <1>0, <1>2 DEF Held, OwnRow
  <2> QED
    BY <1>2, <2>1, <2>2, TransitionKept DEF Steps, TaskStatus, Observing
<1> QED
  BY <1>1, <1>2 DEF Accept

(* Selection: a process takes a task as it finds it. *)
LEMMA SelectKept ==
    ASSUME RowInv, NEW p \in Procs, NEW t \in Tasks, Select(p, t)
    PROVE  Kept(p, t)
<1>0. TypeOK
  BY DEF RowInv
<1>1. /\ pc[p] = "idle" /\ p \in setting.procs /\ cur' = [cur EXCEPT ![p] = t]
      /\ UNCHANGED <<status, begun, runs, issue, agent, claims, seen, res, mine, setting>>
  BY DEF Select, store, world, history
<1>2. PICK l \in {"fresh", "source", "poll"} :
         /\ pc' = [pc EXCEPT ![p] = l]
         /\ l = "fresh" => status[t] = "DISCOVERED" /\ ~Active(t)
         /\ l = "source" => status[t] = "READY" /\ ~Active(t)
         /\ l = "poll" => /\ status[t] \in {"CLAIMED", "RUNNING", "VALIDATING"}
                          /\ runs[t] # << >> /\ t \notin Direct
  <2>1. CASE /\ status[t] \in {"READY", "DISCOVERED"} /\ ~Active(t)
             /\ pc' = [pc EXCEPT ![p] = IF status[t] = "DISCOVERED" THEN "fresh" ELSE "source"]
    <3>1. CASE status[t] = "DISCOVERED"
      BY <2>1, <3>1
    <3>2. CASE status[t] = "READY"
      BY <2>1, <3>2
    <3> QED
      BY <2>1, <3>1, <3>2
  <2>2. CASE /\ status[t] \in {"CLAIMED", "RUNNING", "VALIDATING"}
             /\ runs[t] # << >> /\ t \notin Direct /\ pc' = [pc EXCEPT ![p] = "poll"]
    BY <2>2
  <2> QED
    BY <2>1, <2>2 DEF Select
<1>3. /\ pc' \in [Procs -> Steps] /\ pc'[p] = l /\ cur' \in [Procs -> Tasks] /\ cur'[p] = t
      /\ \A q \in Procs \ {p} : pc'[q] = pc[q] /\ cur'[q] = cur[q]
  BY <1>0, <1>1, <1>2 DEF TypeOK, Steps
<1>4. StepAt(p, t)
  BY <1>0, <1>1, <1>3 DEF StepAt, SameMode, TaskAt, LocalAt, TypeOK
<1>5. RowsAt(p, t) /\ (Active(t)' <=> Active(t))
  BY <1>1, <1>3, SameRows DEF Observing
<1>6. OwnRow(p)'
  BY <1>1, <1>2, <1>3 DEF OwnRow, Observing
<1>7. Held(p)'
  BY <1>1, <1>2, <1>3, <1>5 DEF Held
<1>8. TaskKept(p, t)
  BY <1>1, <1>5, <1>7 DEF TaskKept, Ended, Working
<1> QED
  BY <1>4, <1>5, <1>6, <1>8 DEF Kept

-----------------------------------------------------------------------------
(* From the task in hand to all of them *)

(* A kept step keeps the rows. *)
LEMMA KeptRows ==
    ASSUME RowInv, NEW p \in Procs, NEW t \in Tasks, Kept(p, t)
    PROVE  RowInv'
<1>0. /\ TypeOK /\ OnlyLastActive /\ Observers /\ runs \in [Tasks -> Seq(RunRow)]
      /\ \A q \in Procs : OwnRow(q)
  BY RowTypes DEF RowInv
<1>1. StepAt(p, t) /\ RowsAt(p, t) /\ OwnRow(p)'
  BY DEF Kept
<1>2. \A q \in Procs : OwnRow(q)'
  <2> SUFFICES ASSUME NEW q \in Procs \ {p} PROVE OwnRow(q)'
    BY <1>1
  <2>1. pc'[q] = pc[q] /\ cur'[q] = cur[q] /\ res'[q] = res[q] /\ mine'[q] = mine[q]
        /\ setting'.procs = setting.procs /\ OwnRow(q) /\ cur[q] \in Tasks
    BY <1>0, <1>1 DEF StepAt, LocalAt, SameMode, TypeOK
  <2>2. pc[q] \in Observing => runs'[cur[q]] = runs[cur[q]]
    BY <1>1, <2>1 DEF RowsAt
  <2>3. runs[cur[q]] # << >> => runs'[cur[q]] # << >>
    BY <1>1, <2>1 DEF RowsAt
  <2> QED
    BY <2>1, <2>2, <2>3 DEF OwnRow
<1>3. \A q, r \in Procs :
         q # r /\ pc'[q] \in Observing /\ pc'[r] \in Observing => cur'[q] # cur'[r]
  <2>1. \A q \in Procs \ {p} : pc'[q] = pc[q] /\ cur'[q] = cur[q]
    BY <1>1 DEF StepAt, LocalAt
  <2>2. \A q \in Procs \ {p} : pc[q] \in Observing /\ cur[q] = t => pc'[p] \notin Observing
    BY <1>1 DEF RowsAt
  <2>3. cur'[p] = t
    BY <1>1 DEF StepAt
  <2> QED
    BY <1>0, <2>1, <2>2, <2>3 DEF Observers
<1>4. OnlyLastActive'
  BY <1>0, <1>1 DEF OnlyLastActive, RowsAt
<1>5. TypeOK'
  <2>1. \A q \in Procs : pc'[q] \in {"inspect", "update"} =>
            mine'[q] \in DOMAIN runs'[cur'[q]] /\ runs'[cur'[q]][mine'[q]].st = "RUNNING"
    BY <1>2 DEF OwnRow, Observing
  <2> QED
    BY <1>1, <2>1 DEF TypeOK, StepAt, RowsAt, LocalAt, TaskAt, SameMode, RunRow
<1> QED
  BY <1>2, <1>3, <1>4, <1>5 DEF RowInv, Observers

Alone(p, t) == \A q \in Procs \ {p} : pc[q] = "idle" \/ cur[q] # t

(* The work is a finite set of tasks. *)
LEMMA FiniteWork ==
    ASSUME NEW S \in SUBSET Tasks
    PROVE  IsFiniteSet(S) /\ Cardinality(S) \in Nat
  BY OperationalAssumption, FS_Subset, FS_CardinalityType

(* A task in work, or one for which there is a place, keeps the bound. *)
LEMMA CapacityStep ==
    ASSUME NEW S \in SUBSET Tasks, NEW S1 \in SUBSET Tasks, NEW t \in Tasks,
           Cardinality(S) <= Capacity, S1 \ {t} \subseteq S,
           t \in S1 => t \in S \/ Cardinality(S \ {t}) < Capacity
    PROVE  Cardinality(S1) <= Capacity
<1>0. /\ IsFiniteSet(S) /\ Cardinality(S) \in Nat /\ IsFiniteSet(S1) /\ Cardinality(S1) \in Nat
      /\ IsFiniteSet(S \ {t}) /\ Cardinality(S \ {t}) \in Nat /\ Capacity \in Nat
  BY FiniteWork, OperationalAssumption
<1>1. CASE S1 \subseteq S
  <2>1. Cardinality(S1) <= Cardinality(S)
    BY <1>0, <1>1, FS_Subset
  <2> QED
    BY <1>0, <2>1
<1>2. CASE ~(S1 \subseteq S)
  <2>1. t \in S1 /\ t \notin S /\ Cardinality(S \ {t}) < Capacity
    BY <1>2
  <2>2. IsFiniteSet((S \ {t}) \union {t})
        /\ Cardinality((S \ {t}) \union {t}) = Cardinality(S \ {t}) + 1
    BY <1>0, FS_AddElement
  <2>3. S1 \subseteq (S \ {t}) \union {t}
    OBVIOUS
  <2>4. Cardinality(S1) <= Cardinality((S \ {t}) \union {t})
    BY <2>2, <2>3, FS_Subset
  <2> QED
    BY <1>0, <2>1, <2>2, <2>4
<1> QED
  BY <1>1, <1>2

(* A kept step of a process that has its task for itself. *)
LEMMA KeptExclusive ==
    ASSUME RowInv, ExclusiveInv, NEW p \in Procs, NEW t \in Tasks, Kept(p, t),
           Exclusive => (pc[p] # "idle" => cur[p] = t) /\ Alone(p, t)
    PROVE  ExclusiveInv'
<1>0. TypeOK
  BY DEF RowInv
<1>1. StepAt(p, t) /\ RowsAt(p, t) /\ TaskKept(p, t)
  BY DEF Kept
<1>2. SUFFICES ASSUME Exclusive
               PROVE  /\ Apart' /\ \A q \in Procs : Held(q)'
                      /\ \A u \in Tasks : Ended(u)'
                      /\ Cardinality(InWork') <= Capacity
  BY <1>1, ExclusiveStays DEF StepAt, ExclusiveInv
<1>3. /\ Apart /\ \A q \in Procs : Held(q)
      /\ \A u \in Tasks : Ended(u)
      /\ Cardinality(InWork) <= Capacity
      /\ Alone(p, t)
  BY <1>2 DEF ExclusiveInv
<1>4. \A q \in Procs \ {p} : pc'[q] = pc[q] /\ cur'[q] = cur[q] /\ res'[q] = res[q]
  BY <1>1 DEF StepAt, LocalAt
<1>5. \A u \in Tasks \ {t} : /\ status'[u] = status[u] /\ claims'[u] = claims[u]
                             /\ seen'[u] = seen[u] /\ runs'[u] = runs[u]
  BY <1>1 DEF StepAt, TaskAt, RowsAt
<1>6. Held(p)' /\ Ended(t)' /\ (Working(t)' => Working(t) \/ Cardinality(InWork \ {t}) < Capacity)
  BY <1>1, <1>3 DEF TaskKept
<1>7. \A u \in Tasks \ {t} : Active(u)' <=> Active(u)
  BY <1>5 DEF Active
<1>8. Apart'
  <2>1. cur'[p] = t
    BY <1>1 DEF StepAt
  <2> QED
    BY <1>3, <1>4, <2>1 DEF Apart, Alone
<1>9. ASSUME NEW q \in Procs \ {p} PROVE Held(q)'
  <2>1. CASE pc[q] = "idle"
    BY <1>4, <2>1 DEF Held
  <2>2. CASE pc[q] # "idle"
    <3>1. cur[q] \in Tasks \ {t} /\ Held(q)
      BY <1>0, <1>3, <2>2 DEF Alone, TypeOK
    <3>2. /\ status'[cur[q]] = status[cur[q]] /\ claims'[cur[q]] = claims[cur[q]]
          /\ seen'[cur[q]] = seen[cur[q]] /\ runs'[cur[q]] = runs[cur[q]]
      BY <1>5, <3>1
    <3>3. Active(cur[q])' <=> Active(cur[q])
      BY <1>4, <3>2 DEF Active
    <3> QED
      BY <1>4, <3>1, <3>2, <3>3 DEF Held
  <2> QED
    BY <2>1, <2>2
<1>10. \A u \in Tasks : Ended(u)'
  BY <1>3, <1>5, <1>6, <1>7 DEF Ended
<1>11. Cardinality(InWork') <= Capacity
  <2>1. InWork \in SUBSET Tasks /\ InWork' \in SUBSET Tasks
    BY DEF InWork
  <2>2. InWork' \ {t} \subseteq InWork
    BY <1>5, <1>7 DEF InWork
  <2>3. (t \in InWork' <=> Working(t)') /\ (t \in InWork <=> Working(t))
    BY DEF InWork, Working
  <2> QED
    BY <1>3, <1>6, <2>1, <2>2, <2>3, CapacityStep
<1> QED
  BY <1>6, <1>8, <1>9, <1>10, <1>11

(* A process in a pass has its task for itself where the use is exclusive. *)
LEMMA PassAlone ==
    ASSUME ExclusiveInv, Exclusive, NEW p \in Procs, pc[p] # "idle"
    PROVE  Alone(p, cur[p])
  BY DEF ExclusiveInv, Apart, Alone

(* So has one that selects it: the pool hands a task to one session, and a *)
(* single process has no other beside it.                                  *)
LEMMA SelectAlone ==
    ASSUME RowInv, Exclusive, NEW p \in Procs, NEW t \in Tasks, Select(p, t)
    PROVE  Alone(p, t)
<1>1. CASE setting.pool
  BY <1>1 DEF Select, Selectable, Alone
<1>2. CASE Cardinality(setting.procs) = 1
  <2>1. setting.procs \subseteq Procs /\ p \in setting.procs
    BY DEF Select, RowInv, TypeOK, Setting
  <2>2. IsFiniteSet(setting.procs)
    BY <2>1, OperationalAssumption, FS_Subset
  <2>3. PICK x : setting.procs = {x}
    BY <1>2, <2>2, FS_Singleton
  <2>4. \A q \in Procs : pc[q] # "idle" => q \in setting.procs
    BY RowTypes DEF OwnRow
  <2> QED
    BY <2>1, <2>3, <2>4 DEF Alone
<1> QED
  BY <1>1, <1>2 DEF Exclusive

-----------------------------------------------------------------------------
(* The world and the operator *)

(* The Issue, the agent and the budgets are not the invariant's matter. *)
LEMMA WorldStep ==
    ASSUME IInv, SameMode, UNCHANGED <<store, history, local>>,
           issue' \in [Tasks -> {"same", "changed"}],
           agent' \in [Tasks -> {"none", "running", "artifact", "other", "failed"}]
    PROVE  IInv'
<1>1. UNCHANGED <<status, begun, runs, claims, seen, pc, cur, res, mine>>
  BY DEF store, history, local
<1>2. TypeOK'
  BY <1>1 DEF IInv, RowInv, TypeOK, SameMode
<1>3. OnlyLastActive' /\ Observers'
  BY <1>1 DEF IInv, RowInv, OnlyLastActive, Observers, OwnRow, SameMode
<1>4. ExclusiveInv'
  <2>1. Exclusive' <=> Exclusive
    BY ExclusiveStays
  <2>2. \A t \in Tasks : Active(t)' <=> Active(t)
    BY <1>1 DEF Active
  <2>3. InWork' = InWork
    BY <1>1, <2>2 DEF InWork
  <2>4. \A p \in Procs : Held(p) => Held(p)'
    <3> SUFFICES ASSUME NEW p \in Procs, Held(p) PROVE Held(p)'
      OBVIOUS
    <3>1. Active(cur[p])' <=> Active(cur[p])
      BY <1>1 DEF Active
    <3> QED
      BY <1>1, <3>1 DEF Held
  <2>5. \A t \in Tasks : Ended(t) => Ended(t)'
    BY <1>1, <2>2 DEF Ended
  <2>6. Apart => Apart'
    BY <1>1 DEF Apart
  <2> QED
    BY <2>1, <2>3, <2>4, <2>5, <2>6 DEF IInv, ExclusiveInv
<1> QED
  BY <1>2, <1>3, <1>4 DEF IInv, RowInv

(* The operator's retry: the task is out of work, and its process has not  *)
(* started it yet or only polls it.                                        *)
LEMMA RetryStep ==
    ASSUME IInv, NEW t \in Tasks, Retry(t)
    PROVE  IInv'
<1>0. TypeOK /\ RowInv
  BY DEF IInv, RowInv
<1>1. SameMode
  BY <1>0, SpendMode DEF Retry
<1>2. /\ status' = [status EXCEPT ![t] = "READY"] /\ ~Active(t)
      /\ status[t] \in {"BLOCKED", "CLAIMED"}
      /\ UNCHANGED <<begun, runs, issue, agent, claims, seen, pc, cur, res, mine>>
  BY DEF Retry, Retryable, world, history, local
<1>3. /\ status' \in [Tasks -> TaskStatus] /\ status'[t] = "READY"
      /\ \A u \in Tasks \ {t} : status'[u] = status[u]
  BY <1>0, <1>2 DEF TypeOK, TaskStatus
<1>4. TypeOK'
  BY <1>0, <1>1, <1>2, <1>3 DEF TypeOK, SameMode
<1>5. OnlyLastActive' /\ Observers'
  BY <1>0, <1>1, <1>2 DEF RowInv, OnlyLastActive, Observers, OwnRow, SameMode
<1>6. ExclusiveInv'
  <2>1. Exclusive' <=> Exclusive
    BY <1>1, ExclusiveStays
  <2>2. \A u \in Tasks : Active(u)' <=> Active(u)
    BY <1>2 DEF Active
  <2>3. InWork' \ {t} \subseteq InWork /\ t \notin InWork'
    BY <1>2, <1>3, <2>2 DEF InWork
  <2>4. Cardinality(InWork) <= Capacity => Cardinality(InWork') <= Capacity
    <3>1. InWork \in SUBSET Tasks /\ InWork' \in SUBSET Tasks
      BY DEF InWork
    <3> QED
      BY <2>3, <3>1, CapacityStep
  <2>5. \A p \in Procs : Held(p) => Held(p)'
    <3> SUFFICES ASSUME NEW p \in Procs, Held(p) PROVE Held(p)'
      OBVIOUS
    <3>1. Active(cur[p])' <=> Active(cur[p])
      BY <1>2 DEF Active
    <3>2. CASE cur[p] = t
      BY <1>2, <1>3, <3>1, <3>2 DEF Held
    <3>3. CASE cur[p] # t
      <4>1. status'[cur[p]] = status[cur[p]]
        BY <1>0, <1>3, <3>3 DEF TypeOK
      <4> QED
        BY <1>2, <3>1, <4>1 DEF Held
    <3> QED
      BY <3>2, <3>3
  <2>6. \A u \in Tasks : Ended(u) => Ended(u)'
    BY <1>2, <1>3, <2>2 DEF Ended
  <2>7. Apart => Apart'
    BY <1>2 DEF Apart
  <2> QED
    BY <2>1, <2>4, <2>5, <2>6, <2>7 DEF IInv, ExclusiveInv
<1> QED
  BY <1>4, <1>5, <1>6 DEF IInv, RowInv

(* Processes die between two writes: their tasks keep what was written. *)
LEMMA CrashStep ==
    ASSUME IInv, NEW p \in Procs, Crash(p)
    PROVE  IInv'
<1>0. TypeOK /\ RowInv
  BY DEF IInv, RowInv
<1>1. SameMode
  BY <1>0, SpendMode DEF Crash
<1>2. UNCHANGED <<status, begun, runs, issue, agent, claims, seen, cur>>
  BY DEF Crash, store, world, history
<1>3. /\ pc' \in [Procs -> Steps] /\ res' \in [Procs -> {"none", "SUCCEEDED", "FAILED"}]
      /\ mine' \in [Procs -> Nat]
      /\ \A q \in Procs : \/ pc'[q] = "idle"
                          \/ pc'[q] = pc[q] /\ res'[q] = res[q] /\ mine'[q] = mine[q]
  BY <1>0 DEF Crash, TypeOK, Steps
<1>4. \A q \in Procs : OwnRow(q)'
  <2>1. ASSUME NEW q \in Procs, pc'[q] = "idle" PROVE OwnRow(q)'
    BY <2>1 DEF OwnRow, Observing
  <2>2. ASSUME NEW q \in Procs, pc'[q] = pc[q], res'[q] = res[q], mine'[q] = mine[q]
        PROVE  OwnRow(q)'
    BY <1>0, <1>1, <1>2, <2>2, RowTypes DEF OwnRow, SameMode
  <2> QED
    BY <1>3, <2>1, <2>2
<1>5. TypeOK'
  <2>1. \A q \in Procs : pc'[q] \in {"inspect", "update"} =>
            mine'[q] \in DOMAIN runs'[cur'[q]] /\ runs'[cur'[q]][mine'[q]].st = "RUNNING"
    BY <1>4 DEF OwnRow, Observing
  <2> QED
    BY <1>0, <1>1, <1>2, <1>3, <2>1 DEF TypeOK, SameMode
<1>6. OnlyLastActive' /\ Observers'
  BY <1>0, <1>2, <1>3, <1>4 DEF RowInv, OnlyLastActive, Observers, Observing
<1>7. ExclusiveInv'
  <2>1. Exclusive' <=> Exclusive
    BY <1>1, ExclusiveStays
  <2>2. \A u \in Tasks : Active(u)' <=> Active(u)
    BY <1>2 DEF Active
  <2>3. InWork' = InWork
    BY <1>2, <2>2 DEF InWork
  <2>4. ASSUME NEW q \in Procs, Held(q) PROVE Held(q)'
    <3>1. Active(cur[q])' <=> Active(cur[q])
      BY <1>2 DEF Active
    <3>2. CASE pc'[q] = "idle"
      BY <3>2 DEF Held
    <3>3. CASE pc'[q] = pc[q] /\ res'[q] = res[q]
      BY <1>2, <2>4, <3>1, <3>3 DEF Held
    <3> QED
      BY <1>3, <3>2, <3>3
  <2>5. \A u \in Tasks : Ended(u) => Ended(u)'
    BY <1>2, <2>2 DEF Ended
  <2>6. Apart => Apart'
    BY <1>2, <1>3 DEF Apart
  <2> QED
    BY <2>1, <2>3, <2>4, <2>5, <2>6 DEF IInv, ExclusiveInv
<1> QED
  BY <1>5, <1>6, <1>7 DEF IInv, RowInv

(* The first state: nothing is in work. *)
LEMMA InitInv ==
    ASSUME Init
    PROVE  IInv
<1>1. /\ setting \in Setting /\ status \in [Tasks -> {"DISCOVERED", "READY"}]
      /\ begun = [t \in Tasks |-> FALSE] /\ runs = [t \in Tasks |-> << >>]
      /\ issue = [t \in Tasks |-> "same"] /\ agent = [t \in Tasks |-> "none"]
      /\ claims = [t \in Tasks |-> 0] /\ seen = [t \in Tasks |-> 0]
      /\ pc = [p \in Procs |-> "idle"]
      /\ res = [p \in Procs |-> "none"] /\ mine = [p \in Procs |-> 0]
  BY OperationalAssumption DEF Init
<1>2. PICK t \in Tasks : cur = [p \in Procs |-> t]
  BY DEF Init
<1>3. TypeOK
  <2>1. status \in [Tasks -> TaskStatus] /\ begun \in [Tasks -> BOOLEAN]
        /\ issue \in [Tasks -> {"same", "changed"}]
        /\ agent \in [Tasks -> {"none", "running", "artifact", "other", "failed"}]
        /\ claims \in [Tasks -> Nat] /\ seen \in [Tasks -> Nat]
    BY <1>1 DEF TaskStatus
  <2>2. runs \in [Tasks -> Seq([st : {"RUNNING", "SUCCEEDED", "FAILED"}, green : BOOLEAN])]
    BY <1>1
  <2>3. pc \in [Procs -> Steps] /\ cur \in [Procs -> Tasks] /\ mine \in [Procs -> Nat]
        /\ res \in [Procs -> {"none", "SUCCEEDED", "FAILED"}]
    BY <1>1, <1>2 DEF Steps
  <2>4. \A p \in Procs : pc[p] = "idle"
    BY <1>1
  <2> QED
    BY <1>1, <2>1, <2>2, <2>3, <2>4 DEF TypeOK
<1>4. \A u \in Tasks : ~Active(u)
  BY <1>1 DEF Active
<1>5. OnlyLastActive
  BY <1>4 DEF OnlyLastActive, Active
<1>6. Observers
  BY <1>1 DEF Observers, OwnRow, Observing
<1>7. ExclusiveInv
  <2>1. InWork = {}
    BY <1>1, <1>4 DEF InWork
  <2>2. Cardinality(InWork) <= Capacity
    BY <2>1, OperationalAssumption, FS_EmptySet
  <2>3. \A u \in Tasks : Ended(u)
    BY <1>1, <1>4 DEF Ended
  <2>4. Apart /\ \A p \in Procs : Held(p)
    BY <1>1 DEF Apart, Held
  <2> QED
    BY <2>2, <2>3, <2>4 DEF ExclusiveInv
<1> QED
  BY <1>3, <1>5, <1>6, <1>7 DEF IInv, RowInv

(* A step of a process in a pass. *)
LEMMA PassStep ==
    ASSUME IInv, NEW p \in Procs, NEW t \in Tasks, t = cur[p], pc[p] # "idle", Kept(p, t)
    PROVE  IInv'
<1>1. RowInv /\ ExclusiveInv
  BY DEF IInv
<1>2. Exclusive => Alone(p, t)
  BY <1>1, PassAlone
<1> QED
  BY <1>1, <1>2, KeptRows, KeptExclusive DEF IInv

(* Every step keeps the invariant. *)
LEMMA NextStep ==
    ASSUME IInv, [Next]_vars
    PROVE  IInv'
<1>0. RowInv /\ TypeOK /\ ExclusiveInv
  BY DEF IInv, RowInv
<1>1. ASSUME NEW t \in Tasks, EditIssue(t) PROVE IInv'
  <2>1. SameMode
    BY <1>0, <1>1, SpendMode DEF EditIssue
  <2>2. /\ issue' \in [Tasks -> {"same", "changed"}] /\ UNCHANGED <<agent, store, history, local>>
    BY <1>0, <1>1 DEF EditIssue, TypeOK
  <2> QED
    BY <1>0, <2>1, <2>2, WorldStep DEF TypeOK
<1>2. ASSUME NEW t \in Tasks, AgentEnds(t) PROVE IInv'
  <2>1. SameMode /\ UNCHANGED <<issue, store, history, local>>
    BY <1>0, <1>2 DEF AgentEnds, SameMode, TypeOK
  <2>2. agent' \in [Tasks -> {"none", "running", "artifact", "other", "failed"}]
    BY <1>0, <1>2 DEF AgentEnds, TypeOK
  <2> QED
    BY <1>0, <2>1, <2>2, WorldStep DEF TypeOK
<1>3. ASSUME NEW t \in Tasks, Retry(t) PROVE IInv'
  BY <1>3, RetryStep
<1>4. ASSUME NEW p \in Procs, NEW t \in Tasks, Select(p, t) PROVE IInv'
  <2>1. Kept(p, t) /\ pc[p] = "idle"
    BY <1>0, <1>4, SelectKept DEF Select
  <2>2. Exclusive => Alone(p, t)
    BY <1>0, <1>4, SelectAlone
  <2> QED
    BY <1>0, <2>1, <2>2, KeptRows, KeptExclusive DEF IInv
<1>5. ASSUME NEW p \in Procs,
             \/ CheckSource(p) \/ CheckPolicy(p) \/ Claim(p) \/ Start(p) \/ SaveRun(p)
             \/ Inspect(p) \/ UpdateRun(p) \/ Validate(p) \/ Finish(p)
             \/ Dispatch(p) \/ Poll(p) \/ Drive(p) \/ Accept(p) \/ ProvisioningFails(p)
      PROVE  IInv'
  <2>1. PICK t \in Tasks : t = cur[p]
    BY <1>0 DEF TypeOK
  <2>2. Kept(p, t)
    BY <1>0, <1>5, <2>1, CheckSourceKept, CheckPolicyKept, DirectKept, ObservationKept,
       DispatchKept, PollKept, DriveKept, AcceptKept, ProvisioningFailsKept
  <2>3. pc[p] # "idle"
    BY <1>5 DEF CheckSource, CheckPolicy, Claim, Start, SaveRun, Inspect, UpdateRun, Validate,
       Finish, Dispatch, Poll, Drive, Accept, ProvisioningFails, Transition, Leaves, At
  <2> QED
    BY <2>1, <2>2, <2>3, PassStep
<1>6. ASSUME NEW p \in Procs, Crash(p) PROVE IInv'
  BY <1>6, CrashStep
<1>7. CASE UNCHANGED vars
  <2>1. SameMode /\ UNCHANGED <<issue, agent, store, history, local>>
    BY <1>0, <1>7 DEF vars, world, SameMode, TypeOK
  <2> QED
    BY <1>0, <2>1, WorldStep DEF TypeOK
<1> QED
  BY <1>1, <1>2, <1>3, <1>4, <1>5, <1>6, <1>7 DEF Next, Pass

(* Operational tasks keep the invariant of rows, hands, ends and capacity, *)
(* whatever dies and whatever the operator retries.                        *)
THEOREM Invariance == Spec => []IInv
<1>1. Init => IInv
  BY InitInv
<1>2. IInv /\ [Next]_vars => IInv'
  BY NextStep
<1> QED
  BY <1>1, <1>2, PTL DEF Spec

(* A direct task is observed at most once for a claim, and a task is DONE  *)
(* only by its latest run, which succeeded with green gates                *)
(* (runtime.py _finish_operational_observation, lines 622-628).           *)
THEOREM ObservationProved == Spec => []ObservationIsSound
<1>1. IInv => ObservationIsSound
  BY DEF IInv, ExclusiveInv, Ended, ObservationIsSound, DoneIsGreen, ObservedOnce
<1> QED
  BY <1>1, Invariance, PTL

(* The capacity is neither exceeded nor leaked: the claim guard counts the *)
(* tasks in work, and what ended has no active run (sqlite.py).            *)
THEOREM CapacityProved == Spec => []NoCapacityLeak
<1>1. IInv => NoCapacityLeak
  BY DEF IInv, ExclusiveInv, Ended, NoCapacityLeak, CapacityKept, EndedHasNoRun
<1> QED
  BY <1>1, Invariance, PTL
=============================================================================
