----------------------------- MODULE SprintProofs -----------------------------
(***************************************************************************)
(* Sprints for every set of manifests, workers and commands.               *)
(*                                                                         *)
(* move() writes a row it read earlier, so a stale update may set a sprint *)
(* back, re-open it or complete it.  The order survives because what a     *)
(* process has in hand stays true: the steps behind the position it loaded *)
(* or intends to write are delivered, and a delivered step stays delivered *)
(* (InHand).  The unique index alone keeps live sprints apart.             *)
(***************************************************************************)
EXTENDS Sprint, TLAPS, FiniteSetTheorems

Final(i) == task[i] = "DONE" /\ ~ registry

(* The first n steps of the sprint are delivered. *)
Behind(s, n) == \A k \in 1..n : Final(Steps[s][k])

(* What a process holds of a sprint, between reading and writing it. *)
Hand(p) ==
    LET s == sp[p]  m == move[p]
    IN  /\ pc[p] \in {"check", "write"} =>
               /\ state[s] # "none"
               /\ m.position <= Len(Steps[s])
               /\ m.to \in Live => m.position < Len(Steps[s])
               /\ m.to = "COMPLETE" => m.position = Len(Steps[s])
               /\ m.next = "step" => at[p] = m.position
               /\ Behind(s, m.position)
        /\ pc[p] \in {"step", "source", "create"} =>
               /\ state[s] # "none"
               /\ at[p] <= Len(Steps[s])
               /\ pc[p] # "step" => at[p] < Len(Steps[s])
               /\ Behind(s, at[p])

InHand == \A p \in Proc : Hand(p)

(* The index over live sprints, the delivered steps, the finished sprints. *)
OneLive == \A r, s \in Sprints : state[r] \in Live /\ state[s] \in Live => r = s

PositionsBacked == \A s \in Sprints : Behind(s, position[s])

CompleteAtEnd ==
    \A s \in Sprints : state[s] = "COMPLETE" => position[s] = Len(Steps[s])

IInv == TypeOK /\ InHand /\ OneLive /\ PositionsBacked /\ CompleteAtEnd

(* No item is a step twice.  Within one sprint the plan refuses it         *)
(* (duplicate_work_item); across sprints nothing does, and then the order  *)
(* of a sprint says nothing about an Issue another one created.            *)
DisjointManifests ==
    \A r, s \in Sprints : \A j \in 1..Len(Steps[r]), k \in 1..Len(Steps[s]) :
        Steps[r][j] = Steps[s][k] => r = s /\ j = k

(* No step has an Issue while an earlier one is not delivered. *)
IssuedInOrder ==
    \A s \in Sprints : \A k \in 1..Len(Steps[s]) :
        task[Steps[s][k]] # "none" => Behind(s, k - 1)

-----------------------------------------------------------------------------
TaskState == {"none", "ISSUE", "READY", "RUNNING", "DONE"} \union Halted

PCs == {"idle", "prepare", "step", "source", "create", "insert", "check", "write"}

(* A manifest has at least one step (domain/sprint.py).                    *)
LEMMA ManifestType ==
    ASSUME NEW s \in Sprints
    PROVE  /\ Steps[s] \in Seq(Items) /\ Len(Steps[s]) \in Nat /\ Len(Steps[s]) >= 1
           /\ \A k \in 1..Len(Steps[s]) : Steps[s][k] \in Items
<1>1. Steps[s] \in Seq(Items) /\ Steps[s] # <<>>
  BY SprintAssumption
<1> QED
  BY <1>1

(* current_for_project returns a sprint that was inserted and is not       *)
(* cancelled.                                                              *)
LEMMA CurrentType ==
    ASSUME TypeOK, NEW s \in Current
    PROVE  s \in Sprints /\ state[s] \in Live \union {"COMPLETE"}
<1>1. PICK k \in DOMAIN rows : s = rows[k] /\ state[rows[k]] # "CANCELLED"
  BY DEF Current
<1>2. s \in ToSet(rows)
  BY <1>1 DEF ToSet
<1> QED
  BY <1>1, <1>2 DEF TypeOK

(* A delivered step stays delivered, so whatever was behind stays behind.  *)
LEMMA BehindStays ==
    ASSUME UNCHANGED registry, \A i \in Items : task[i] = "DONE" => task'[i] = "DONE",
           NEW s \in Sprints, NEW n \in Nat, n <= Len(Steps[s]), Behind(s, n)
    PROVE  Behind(s, n)'
<1>1. \A k \in 1..n : Steps[s][k] \in Items
  BY ManifestType
<1> QED
  BY <1>1 DEF Behind, Final

(* What a process has in hand stays true while others act: sprints are     *)
(* never deleted and delivered steps stay delivered.                       *)
LEMMA HandStays ==
    ASSUME TypeOK, NEW p \in Proc, Hand(p),
           pc'[p] = pc[p], sp'[p] = sp[p], at'[p] = at[p], move'[p] = move[p],
           \A s \in Sprints : state[s] # "none" => state'[s] # "none",
           UNCHANGED registry, \A i \in Items : task[i] = "DONE" => task'[i] = "DONE"
    PROVE  Hand(p)'
<1>1. /\ sp[p] \in Sprints /\ at[p] \in Nat /\ move[p].position \in Nat
  BY DEF TypeOK, Move
<1>2. ASSUME NEW n \in Nat, n <= Len(Steps[sp[p]]),
             \A k \in 1..n : task[Steps[sp[p]][k]] = "DONE" /\ ~ registry
      PROVE  \A k \in 1..n : task'[Steps[sp[p]][k]] = "DONE" /\ ~ registry'
  <2>1. \A k \in 1..n : Steps[sp[p]][k] \in Items
    BY <1>1, <1>2, ManifestType
  <2> QED
    BY <1>2, <2>1
<1> QED
  BY <1>1, <1>2, SMTT(30) DEF Hand, Behind, Final

(* A step that moves one process and leaves the sprints alone keeps the    *)
(* invariant if it leaves the process with a true hand.                    *)
LEMMA LocalStep ==
    ASSUME IInv, NEW p \in Proc,
           UNCHANGED <<state, position, rows, registry, changed, human>>,
           task' \in [Items -> TaskState],
           \A i \in Items : task[i] = "DONE" => task'[i] = "DONE",
           edits' \in 0..MaxEdits, pc' \in [Proc -> PCs], sp' \in [Proc -> Sprints],
           at' \in [Proc -> Nat], move' \in [Proc -> Move],
           \A q \in Proc : q # p => /\ pc'[q] = pc[q] /\ sp'[q] = sp[q]
                                    /\ at'[q] = at[q] /\ move'[q] = move[q],
           Hand(p)'
    PROVE  IInv'
<1> USE DEF IInv
<1>1. TypeOK'
  BY DEF TypeOK, TaskState, PCs
<1>2. ASSUME NEW q \in Proc, q # p PROVE Hand(q)'
  BY <1>2, HandStays DEF InHand
<1>3. InHand'
  BY <1>2 DEF InHand
<1>4. OneLive' /\ CompleteAtEnd'
  BY DEF OneLive, CompleteAtEnd
<1>5. PositionsBacked'
  BY BehindStays DEF PositionsBacked, TypeOK
<1> QED
  BY <1>1, <1>3, <1>4, <1>5

(* Going on, or giving up, without an intended change.                     *)
LEMMA GotoStep ==
    ASSUME IInv, NEW p \in Proc, NEW step \in {"idle", "prepare", "insert"},
           pc' = [pc EXCEPT ![p] = step], sp' \in [Proc -> Sprints],
           \A q \in Proc : q # p => sp'[q] = sp[q],
           move' \in [Proc -> Move], \A q \in Proc : q # p => move'[q] = move[q],
           edits' \in 0..MaxEdits,
           UNCHANGED <<state, position, rows, task, registry, changed, at, human>>
    PROVE  IInv'
<1>1. pc' \in [Proc -> PCs] /\ at' \in [Proc -> Nat] /\ task' \in [Items -> TaskState]
  BY DEF IInv, TypeOK, PCs, TaskState
<1>2. pc'[p] = step /\ \A q \in Proc : q # p => pc'[q] = pc[q]
  BY DEF IInv, TypeOK
<1>3. Hand(p)'
  BY <1>2 DEF Hand
<1> QED
  BY <1>1, <1>2, <1>3, LocalStep

(* Intending a change whose position is backed (sprint.py, the callers of  *)
(* move).                                                                  *)
LEMMA IntendStep ==
    ASSUME IInv, NEW p \in Proc, NEW s \in Sprints, NEW event \in Event,
           NEW to \in Live \union {"CANCELLED", "COMPLETE"}, NEW pos \in Nat,
           NEW next \in {"idle", "prepare", "step"},
           Intend(p, s, event, to, pos, next),
           state[s] # "none", pos <= Len(Steps[s]),
           to \in Live => pos < Len(Steps[s]), to = "COMPLETE" => pos = Len(Steps[s]),
           Behind(s, pos), next = "step" => at'[p] = pos,
           at' \in [Proc -> Nat], \A q \in Proc : q # p => at'[q] = at[q],
           task' \in [Items -> TaskState],
           \A i \in Items : task[i] = "DONE" => task'[i] = "DONE",
           edits' \in 0..MaxEdits,
           UNCHANGED <<state, position, rows, registry, changed, human>>
    PROVE  IInv'
<1> DEFINE m == [event |-> event, to |-> to, position |-> pos, next |-> next]
<1>1. m \in Move /\ m.to = to /\ m.position = pos /\ m.next = next
  BY DEF Move
<1>2. pc' = [pc EXCEPT ![p] = "check"] /\ sp' = [sp EXCEPT ![p] = s]
      /\ move' = [move EXCEPT ![p] = m]
  BY DEF Intend
<1> HIDE DEF m
<1>3. /\ pc' \in [Proc -> PCs] /\ sp' \in [Proc -> Sprints] /\ move' \in [Proc -> Move]
      /\ pc'[p] = "check" /\ sp'[p] = s /\ move'[p] = m
      /\ \A q \in Proc : q # p => pc'[q] = pc[q] /\ sp'[q] = sp[q] /\ move'[q] = move[q]
  BY <1>1, <1>2 DEF IInv, TypeOK, PCs
<1>4. \A k \in 1..pos : task'[Steps[s][k]] = "DONE" /\ ~ registry'
  <2>1. \A k \in 1..pos : Steps[s][k] \in Items
    BY ManifestType
  <2> QED
    BY <2>1 DEF Behind, Final
<1>5. Hand(p)'
  BY <1>1, <1>3, <1>4 DEF Hand, Behind, Final
<1> QED
  BY <1>3, <1>5, LocalStep

(* The initial state: no sprint, no task.                                  *)
LEMMA InitIInv == Init => IInv
<1> SUFFICES ASSUME Init PROVE IInv
  OBVIOUS
<1>1. NoMove \in Move
  BY DEF NoMove, Move, Event, Live
<1>2. TypeOK
  <2>1. \A s \in Sprints : 0 <= Len(Steps[s])
    BY ManifestType
  <2>2. ToSet(rows) = {}
    BY DEF Init, ToSet
  <2> QED
    BY <1>1, <2>1, <2>2, SprintAssumption DEF Init, TypeOK, Live
<1>3. InHand
  BY DEF Init, InHand, Hand
<1>4. OneLive /\ PositionsBacked /\ CompleteAtEnd
  BY DEF Init, OneLive, PositionsBacked, CompleteAtEnd, Behind, Live
<1> QED
  BY <1>2, <1>3, <1>4 DEF IInv

(* A worker's pass: what it intends is backed by what it has loaded        *)
(* (sprint.py prepare_for_project, resume_completed_for, observe).         *)
LEMMA PassStep ==
    ASSUME IInv, NEW p \in Proc,
           ResumeCompleted(p) \/ LoadCurrent(p) \/ Examine(p) \/ ReadSource(p)
               \/ CreateIssue(p) \/ Observe(p) \/ Crash(p)
    PROVE  IInv'
<1>0. /\ task \in [Items -> TaskState] /\ at \in [Proc -> Nat] /\ edits \in 0..MaxEdits
      /\ sp \in [Proc -> Sprints] /\ move \in [Proc -> Move] /\ pc \in [Proc -> PCs]
      /\ position \in [Sprints -> Nat]
  BY DEF IInv, TypeOK, TaskState, PCs
<1>1. ASSUME NEW s \in Current
      PROVE  /\ s \in Sprints /\ state[s] # "none" /\ position[s] \in Nat
             /\ position[s] <= Len(Steps[s]) /\ Behind(s, position[s])
             /\ state[s] \in Live => position[s] < Len(Steps[s])
  BY CurrentType DEF IInv, TypeOK, PositionsBacked, Live
<1>2. CASE ResumeCompleted(p)
  <2>1. UNCHANGED <<state, position, rows, task, registry, changed, at, human, edits>>
    BY <1>2 DEF ResumeCompleted, sprints
  <2>2. ASSUME NEW s \in Current, Resumable(s),
               Intend(p, s, "SprintResumed", "ACTIVE", position[s], "prepare")
        PROVE  IInv'
    <3>1. position[s] < Len(Steps[s]) /\ "SprintResumed" \in Event
          /\ "ACTIVE" \in Live \union {"CANCELLED", "COMPLETE"}
      BY <2>2 DEF Resumable, Event, Live
    <3> QED
      BY <1>0, <1>1, <2>1, <2>2, <3>1, IntendStep
  <2>3. CASE Goto(p, "prepare")
    BY <1>0, <2>1, <2>3, GotoStep DEF Goto
  <2> QED
    BY <1>2, <2>2, <2>3 DEF ResumeCompleted
<1>3. CASE LoadCurrent(p)
  <2>1. UNCHANGED <<state, position, rows, task, registry, changed, human, edits>>
    BY <1>3 DEF LoadCurrent, sprints
  <2>2. ASSUME NEW s \in Current, pc' = [pc EXCEPT ![p] = "step"],
               sp' = [sp EXCEPT ![p] = s], at' = [at EXCEPT ![p] = position[s]],
               UNCHANGED move
        PROVE  IInv'
    <3>1. /\ pc' \in [Proc -> PCs] /\ sp' \in [Proc -> Sprints] /\ at' \in [Proc -> Nat]
          /\ pc'[p] = "step" /\ sp'[p] = s /\ at'[p] = position[s]
          /\ \A q \in Proc : q # p => pc'[q] = pc[q] /\ sp'[q] = sp[q] /\ at'[q] = at[q]
      BY <1>0, <1>1, <2>2 DEF PCs
    <3>2. Hand(p)'
      BY <1>1, <2>1, <3>1 DEF Hand, Behind, Final
    <3> QED
      BY <1>0, <2>1, <2>2, <3>1, <3>2, LocalStep
  <2>3. CASE Goto(p, "idle") /\ UNCHANGED at
    BY <1>0, <2>1, <2>3, GotoStep DEF Goto
  <2> QED
    BY <1>3, <2>2, <2>3 DEF LoadCurrent
<1>4. CASE Examine(p)
  <2> DEFINE s == sp[p]
             k == at[p]
             i == Steps[s][k + 1]
  <2>1. UNCHANGED <<state, position, rows, task, registry, changed, human, edits>>
    BY <1>4 DEF Examine, sprints
  <2>2. /\ s \in Sprints /\ k \in Nat /\ k <= Len(Steps[s]) /\ Len(Steps[s]) \in Nat
        /\ state[s] # "none" /\ Behind(s, k)
    BY <1>0, <1>4, ManifestType DEF Examine, IInv, InHand, Hand
  <2>3. /\ {"SprintPaused", "SprintCompleted", "SprintAdvanced", "WorkItemSelected"}
              \subseteq Event
        /\ "ACTIVE" \in Live /\ "PAUSED" \in Live /\ "COMPLETE" \notin Live
    BY DEF Event, Live
  <2>4. CASE Goto(p, "idle") /\ UNCHANGED at
    BY <1>0, <2>1, <2>4, GotoStep DEF Goto
  <2>5. CASE /\ k < Len(Steps[s]) /\ UNCHANGED at
             /\ Intend(p, s, "SprintPaused", "PAUSED", k, "idle")
    BY <1>0, <2>1, <2>2, <2>3, <2>5, IntendStep
  <2>6. CASE /\ k < Len(Steps[s]) /\ UNCHANGED at
             /\ Intend(p, s, "WorkItemSelected", "ACTIVE", k, "idle")
    BY <1>0, <2>1, <2>2, <2>3, <2>6, IntendStep
  <2>7. CASE /\ k < Len(Steps[s]) /\ task[i] = "DONE" /\ Delivered(i)
             /\ at' = [at EXCEPT ![p] = k + 1]
             /\ IF IsLast(s, k)
                THEN Intend(p, s, "SprintCompleted", "COMPLETE", k + 1, "step")
                ELSE Intend(p, s, "SprintAdvanced", "ACTIVE", k + 1, "step")
    <3>1. Behind(s, k + 1)
      BY <2>2, <2>7 DEF Behind, Final, Delivered
    <3>2. /\ at' \in [Proc -> Nat] /\ at'[p] = k + 1
          /\ \A q \in Proc : q # p => at'[q] = at[q]
      BY <1>0, <2>2, <2>7
    <3>3. k + 1 \in Nat /\ k + 1 <= Len(Steps[s])
      BY <2>2, <2>7
    <3>4. CASE IsLast(s, k)
      <4>1. k + 1 = Len(Steps[s])
            /\ Intend(p, s, "SprintCompleted", "COMPLETE", k + 1, "step")
        BY <2>7, <3>4 DEF IsLast
      <4> QED
        BY <1>0, <2>1, <2>2, <2>3, <3>1, <3>2, <3>3, <4>1, IntendStep
    <3>5. CASE ~ IsLast(s, k)
      <4>1. k + 1 < Len(Steps[s])
            /\ Intend(p, s, "SprintAdvanced", "ACTIVE", k + 1, "step")
        BY <2>2, <2>7, <3>5 DEF IsLast
      <4> QED
        BY <1>0, <2>1, <2>2, <2>3, <3>1, <3>2, <3>3, <4>1, IntendStep
    <3> QED
      BY <3>4, <3>5
  <2>8. CASE k < Len(Steps[s]) /\ Goto(p, "source") /\ UNCHANGED at
    <3>1. /\ pc' \in [Proc -> PCs] /\ pc'[p] = "source" /\ UNCHANGED <<sp, move>>
          /\ \A q \in Proc : q # p => pc'[q] = pc[q]
      BY <1>0, <2>8 DEF Goto, PCs
    <3>2. Hand(p)'
      BY <2>1, <2>2, <2>8, <3>1 DEF Hand, Behind, Final
    <3> QED
      BY <1>0, <2>1, <2>8, <3>1, <3>2, LocalStep
  <2> QED
    BY <1>4, <2>4, <2>5, <2>6, <2>7, <2>8 DEF Examine
<1>5. CASE ReadSource(p)
  <2>1. UNCHANGED <<state, position, rows, task, registry, changed, at, human, edits>>
    BY <1>5 DEF ReadSource, sprints
  <2>2. CASE Goto(p, "idle")
    BY <1>0, <2>1, <2>2, GotoStep DEF Goto
  <2>3. CASE Goto(p, "create")
    <3>1. /\ pc' \in [Proc -> PCs] /\ pc'[p] = "create" /\ UNCHANGED <<sp, move>>
          /\ \A q \in Proc : q # p => pc'[q] = pc[q]
      BY <1>0, <2>3 DEF Goto, PCs
    <3>2. pc[p] = "source" /\ Hand(p)
      BY <1>5 DEF ReadSource, IInv, InHand
    <3>3. Hand(p)'
      BY <2>1, <3>1, <3>2 DEF Hand, Behind, Final
    <3> QED
      BY <1>0, <2>1, <3>1, <3>3, LocalStep
  <2> QED
    BY <1>5, <2>2, <2>3 DEF ReadSource
<1>6. CASE CreateIssue(p)
  <2>1. /\ sp[p] \in Sprints /\ state[sp[p]] # "none" /\ at[p] \in Nat
        /\ at[p] < Len(Steps[sp[p]]) /\ at[p] <= Len(Steps[sp[p]])
        /\ Behind(sp[p], at[p])
    BY <1>0, <1>6 DEF CreateIssue, IInv, InHand, Hand
  <2>2. /\ task' \in [Items -> TaskState]
        /\ \A i \in Items : task[i] = "DONE" => task'[i] = "DONE"
    BY <1>0, <1>6 DEF CreateIssue, TaskState
  <2>3. /\ "WorkItemSelected" \in Event
        /\ "ACTIVE" \in Live \union {"CANCELLED", "COMPLETE"}
    BY DEF Event, Live
  <2>4. /\ UNCHANGED <<state, position, rows, registry, changed, at, human, edits>>
        /\ Intend(p, sp[p], "WorkItemSelected", "ACTIVE", at[p], "idle")
    BY <1>6 DEF CreateIssue, sprints
  <2> QED
    BY <1>0, <2>1, <2>2, <2>3, <2>4, IntendStep
<1>7. CASE Observe(p)
  <2>1. PICK s \in Current : /\ position[s] < Len(Steps[s])
                             /\ Intend(p, s, "SprintPaused", "PAUSED", position[s], "idle")
    BY <1>7 DEF Observe, Allows
  <2>2. /\ "SprintPaused" \in Event
        /\ "PAUSED" \in Live \union {"CANCELLED", "COMPLETE"}
    BY DEF Event, Live
  <2>3. UNCHANGED <<state, position, rows, task, registry, changed, at, human, edits>>
    BY <1>7 DEF Observe, sprints
  <2> QED
    BY <1>0, <1>1, <2>1, <2>2, <2>3, IntendStep
<1>8. CASE Crash(p)
  <2>1. /\ UNCHANGED <<state, position, rows, task, registry, changed, at, human, sp>>
        /\ pc' = [pc EXCEPT ![p] = "idle"] /\ move' = [move EXCEPT ![p] = NoMove]
    BY <1>8 DEF Crash, Finish, sprints
  <2>2. NoMove \in Move /\ edits' \in 0..MaxEdits
    BY <1>0, <1>8, SprintAssumption DEF Crash, NoMove, Move, Event, Live
  <2>3. move' \in [Proc -> Move] /\ \A q \in Proc : q # p => move'[q] = move[q]
    BY <1>0, <2>1, <2>2
  <2> QED
    BY <1>0, <2>1, <2>2, <2>3, GotoStep
<1> QED
  BY <1>2, <1>3, <1>4, <1>5, <1>6, <1>7, <1>8

(* The first half of move(): the change in hand is kept or dropped.        *)
LEMMA CheckStep ==
    ASSUME IInv, NEW p \in Proc, MoveCheck(p) PROVE IInv'
<1>0. /\ task \in [Items -> TaskState] /\ at \in [Proc -> Nat] /\ edits \in 0..MaxEdits
      /\ sp \in [Proc -> Sprints] /\ move \in [Proc -> Move] /\ pc \in [Proc -> PCs]
  BY DEF IInv, TypeOK, TaskState, PCs
<1>1. UNCHANGED <<state, position, rows, task, registry, changed, at, human, edits>>
  BY DEF MoveCheck, sprints
<1>2. CASE Goto(p, "write")
  <2>1. /\ pc' \in [Proc -> PCs] /\ pc'[p] = "write" /\ UNCHANGED <<sp, move>>
        /\ \A q \in Proc : q # p => pc'[q] = pc[q]
    BY <1>0, <1>2 DEF Goto, PCs
  <2>2. pc[p] = "check" /\ Hand(p)
    BY DEF MoveCheck, IInv, InHand
  <2>3. Hand(p)'
    BY <1>1, <2>1, <2>2 DEF Hand, Behind, Final
  <2> QED
    BY <1>0, <1>1, <2>1, <2>3, LocalStep
<1>3. CASE Finish(p, "idle")
  <2>1. NoMove \in Move
    BY DEF NoMove, Move, Event, Live
  <2>2. /\ pc' = [pc EXCEPT ![p] = "idle"] /\ UNCHANGED sp
        /\ move' \in [Proc -> Move] /\ \A q \in Proc : q # p => move'[q] = move[q]
    BY <1>0, <1>3, <2>1 DEF Finish
  <2> QED
    BY <1>0, <1>1, <2>2, GotoStep
<1> QED
  BY <1>2, <1>3 DEF MoveCheck

(* The second half: a stale write may move the sprint anywhere its hand    *)
(* allows, and the unique index keeps it from being the second live one    *)
(* (sprint_sqlite.py move).                                                *)
LEMMA WriteStep ==
    ASSUME IInv, NEW p \in Proc, MoveWrite(p) PROVE IInv'
<1> DEFINE s == sp[p]
           m == move[p]
<1>0. /\ at \in [Proc -> Nat] /\ sp \in [Proc -> Sprints]
      /\ move \in [Proc -> Move] /\ pc \in [Proc -> PCs]
      /\ position \in [Sprints -> Nat]
      /\ state \in [Sprints -> Live \union {"none", "CANCELLED", "COMPLETE"}]
      /\ task \in [Items -> TaskState] /\ edits \in 0..MaxEdits
  BY DEF IInv, TypeOK, PCs, TaskState
<1>1. /\ UNCHANGED <<rows, task, registry, changed, at, edits>> /\ pc[p] = "write"
  BY DEF MoveWrite
<1>2. /\ s \in Sprints /\ state[s] # "none" /\ m.position <= Len(Steps[s])
      /\ m.to \in Live => m.position < Len(Steps[s])
      /\ m.to = "COMPLETE" => m.position = Len(Steps[s])
      /\ m.next = "step" => at[p] = m.position
      /\ Behind(s, m.position)
  BY <1>0, <1>1 DEF IInv, InHand, Hand
<1>3. /\ m.position \in Nat /\ m.to \in Live \union {"CANCELLED", "COMPLETE"}
      /\ m.next \in {"idle", "prepare", "step"}
  BY <1>0 DEF Move
<1>4. NoMove \in Move
  BY DEF NoMove, Move, Event, Live
<1>5. CASE ~ (m.to \in Live => IndexAllows(s))
  <2>1. Finish(p, "idle") /\ UNCHANGED <<state, position, human>>
    BY <1>5 DEF MoveWrite
  <2>2. /\ pc' = [pc EXCEPT ![p] = "idle"] /\ UNCHANGED sp
        /\ move' \in [Proc -> Move] /\ \A q \in Proc : q # p => move'[q] = move[q]
    BY <1>0, <1>4, <2>1 DEF Finish
  <2> QED
    BY <1>0, <1>1, <2>1, <2>2, GotoStep
<1>6. CASE m.to \in Live => IndexAllows(s)
  <2>1. /\ state' = [state EXCEPT ![s] = m.to]
        /\ position' = [position EXCEPT ![s] = m.position]
        /\ Finish(p, m.next)
        /\ human' \in {human, human \union {s}, human \ {s}}
    BY <1>6 DEF MoveWrite
  <2>2. /\ pc' \in [Proc -> PCs] /\ pc'[p] = m.next /\ UNCHANGED sp
        /\ move' \in [Proc -> Move]
        /\ \A q \in Proc : q # p => move'[q] = move[q] /\ pc'[q] = pc[q]
    BY <1>0, <1>3, <1>4, <2>1 DEF Finish, PCs
  <2> HIDE DEF s, m
  <2>3. /\ state' \in [Sprints -> Live \union {"none", "CANCELLED", "COMPLETE"}]
        /\ state'[s] = m.to /\ \A r \in Sprints : r # s => state'[r] = state[r]
        /\ position' \in [Sprints -> Nat]
        /\ position'[s] = m.position
        /\ \A r \in Sprints : r # s => position'[r] = position[r]
    BY <1>0, <1>2, <1>3, <2>1
  <2>4. \A r \in Sprints : state'[r] = "none" <=> state[r] = "none"
    BY <1>2, <1>3, <2>3 DEF Live
  <2>5. TypeOK'
    <3>1. \A r \in Sprints : position'[r] <= Len(Steps[r])
      BY <1>2, <2>3 DEF IInv, TypeOK
    <3>2. \A r \in Sprints : state'[r] \in Live => position'[r] < Len(Steps[r])
      BY <1>2, <2>3 DEF IInv, TypeOK
    <3>3. ToSet(rows') = {r \in Sprints : state'[r] # "none"}
      BY <1>1, <2>4 DEF IInv, TypeOK, ToSet
    <3>4. human' \subseteq Sprints
      BY <1>2, <2>1 DEF IInv, TypeOK
    <3> QED
      BY <1>1, <2>2, <2>3, <3>1, <3>2, <3>3, <3>4 DEF IInv, TypeOK, PCs
  <2>6. Hand(p)'
    BY <1>1, <1>2, <1>3, <2>2, <2>4 DEF Hand, Behind, Final, s, m
  <2>7. ASSUME NEW q \in Proc, q # p PROVE Hand(q)'
    BY <1>1, <2>2, <2>4, <2>7, HandStays DEF IInv, InHand
  <2>8. OneLive'
    BY <1>2, <1>6, <2>3 DEF IInv, OneLive, IndexAllows
  <2>9. PositionsBacked'
    <3>1. ASSUME NEW r \in Sprints PROVE Behind(r, position'[r])
      BY <1>2, <2>3 DEF IInv, PositionsBacked
    <3> QED
      BY <1>1, <3>1 DEF PositionsBacked, Behind, Final
  <2>10. CompleteAtEnd'
    BY <1>2, <2>3 DEF IInv, CompleteAtEnd
  <2> QED
    BY <2>5, <2>6, <2>7, <2>8, <2>9, <2>10 DEF IInv, InHand
<1> QED
  BY <1>5, <1>6

(* The operator's commands intend changes of the current sprint            *)
(* (sprint.py authorize, pause, resume, cancel).                           *)
LEMMA CommandStep ==
    ASSUME IInv, Authorize \/ Pause \/ Resume \/ Cancel PROVE IInv'
<1>0. /\ task \in [Items -> TaskState] /\ at \in [Proc -> Nat] /\ edits \in 0..MaxEdits
      /\ sp \in [Proc -> Sprints] /\ move \in [Proc -> Move] /\ pc \in [Proc -> PCs]
      /\ "operator" \in Proc
  BY DEF IInv, TypeOK, TaskState, PCs, Proc
<1>1. /\ UNCHANGED <<state, position, rows, task, registry, changed, at, human>>
      /\ edits' \in 0..MaxEdits
  BY <1>0, SprintAssumption DEF Authorize, Pause, Resume, Cancel, Command, sprints
<1>2. ASSUME NEW s \in Current
      PROVE  /\ s \in Sprints /\ state[s] # "none" /\ position[s] \in Nat
             /\ position[s] <= Len(Steps[s]) /\ Behind(s, position[s])
             /\ state[s] \in Live => position[s] < Len(Steps[s])
  BY CurrentType DEF IInv, TypeOK, PositionsBacked, Live
<1>3. /\ {"SprintPaused", "SprintResumed", "SprintCancelled"} \subseteq Event
      /\ "ACTIVE" \in Live /\ "PAUSED" \in Live /\ "CANCELLED" \notin Live
  BY DEF Event, Live
<1>4. CASE Authorize
  <2>1. PICK s \in Sprints : /\ pc' = [pc EXCEPT !["operator"] = "insert"]
                             /\ sp' = [sp EXCEPT !["operator"] = s]
                             /\ UNCHANGED move
    BY <1>4 DEF Authorize
  <2>2. sp' \in [Proc -> Sprints] /\ \A q \in Proc : q # "operator" => sp'[q] = sp[q]
    BY <1>0, <2>1
  <2> QED
    BY <1>0, <1>1, <2>1, <2>2, GotoStep
<1>5. CASE Pause
  <2>1. PICK s \in Current :
          /\ state[s] = "ACTIVE"
          /\ Intend("operator", s, "SprintPaused", "PAUSED", position[s], "idle")
    BY <1>5 DEF Pause
  <2> QED
    BY <1>0, <1>1, <1>2, <1>3, <2>1, IntendStep
<1>6. CASE Resume
  <2>1. PICK s \in Current :
          /\ state[s] = "PAUSED"
          /\ Intend("operator", s, "SprintResumed", "ACTIVE", position[s], "idle")
    BY <1>6 DEF Resume
  <2> QED
    BY <1>0, <1>1, <1>2, <1>3, <2>1, IntendStep
<1>7. CASE Cancel
  <2>1. PICK s \in Current :
          /\ state[s] \in Live
          /\ Intend("operator", s, "SprintCancelled", "CANCELLED", position[s], "idle")
    BY <1>7 DEF Cancel
  <2> QED
    BY <1>0, <1>1, <1>2, <1>3, <2>1, IntendStep
<1> QED
  BY <1>4, <1>5, <1>6, <1>7

(* A sprint row is inserted under the unique index over live sprints       *)
(* (sprint_sqlite.py authorize).                                           *)
LEMMA InsertStep ==
    ASSUME IInv, Insert PROVE IInv'
<1> DEFINE s == sp["operator"]
<1>0. /\ task \in [Items -> TaskState] /\ at \in [Proc -> Nat] /\ edits \in 0..MaxEdits
      /\ sp \in [Proc -> Sprints] /\ move \in [Proc -> Move] /\ pc \in [Proc -> PCs]
      /\ "operator" \in Proc /\ s \in Sprints /\ rows \in Seq(Sprints)
      /\ position \in [Sprints -> Nat]
      /\ state \in [Sprints -> Live \union {"none", "CANCELLED", "COMPLETE"}]
  BY DEF IInv, TypeOK, TaskState, PCs, Proc
<1>1. /\ pc' = [pc EXCEPT !["operator"] = "idle"] /\ UNCHANGED <<sp, move>>
      /\ UNCHANGED <<task, registry, changed, at, human, edits>>
  BY DEF Insert, Goto
<1>2. CASE UNCHANGED sprints
  BY <1>0, <1>1, <1>2, GotoStep DEF sprints
<1>3. CASE /\ state[s] = "none" /\ IndexAllows(s)
           /\ state' = [state EXCEPT ![s] = "ACTIVE"]
           /\ position' = [position EXCEPT ![s] = 0]
           /\ rows' = Append(rows, s)
  <2>1. /\ state' \in [Sprints -> Live \union {"none", "CANCELLED", "COMPLETE"}]
        /\ state'[s] = "ACTIVE" /\ \A r \in Sprints : r # s => state'[r] = state[r]
        /\ position' \in [Sprints -> Nat] /\ position'[s] = 0
        /\ \A r \in Sprints : r # s => position'[r] = position[r]
    BY <1>0, <1>3 DEF Live
  <2> HIDE DEF s
  <2>2. rows' \in Seq(Sprints) /\ ToSet(rows') = ToSet(rows) \union {s}
    <3>1. /\ rows' \in Seq(Sprints) /\ Len(rows') = Len(rows) + 1 /\ Len(rows) \in Nat
          /\ \A k \in 1..Len(rows) : rows'[k] = rows[k]
          /\ rows'[Len(rows) + 1] = s
          /\ DOMAIN rows = 1..Len(rows) /\ DOMAIN rows' = 1..(Len(rows) + 1)
      BY <1>0, <1>3
    <3> QED
      BY <3>1 DEF ToSet
  <2>3. TypeOK'
    <3>1. ASSUME NEW r \in Sprints
          PROVE  /\ position'[r] <= Len(Steps[r])
                 /\ state'[r] \in Live => position'[r] < Len(Steps[r])
      <4>1. CASE r = s
        BY <1>0, <2>1, <4>1, ManifestType
      <4>2. CASE r # s
        BY <2>1, <4>2 DEF IInv, TypeOK
      <4> QED
        BY <4>1, <4>2
    <3>2. ToSet(rows') = {r \in Sprints : state'[r] # "none"}
      BY <1>0, <2>1, <2>2 DEF IInv, TypeOK, Live
    <3>3. pc' \in [Proc -> PCs]
      BY <1>0, <1>1 DEF PCs
    <3> QED
      BY <1>1, <2>1, <2>2, <3>1, <3>2, <3>3 DEF IInv, TypeOK, PCs
  <2>4. Hand("operator")'
    <3>1. pc'["operator"] = "idle"
      BY <1>0, <1>1
    <3> QED
      BY <3>1 DEF Hand
  <2>5. ASSUME NEW q \in Proc, q # "operator" PROVE Hand(q)'
    <3>1. pc'[q] = pc[q] /\ \A r \in Sprints : state[r] # "none" => state'[r] # "none"
      BY <1>0, <1>1, <2>1, <2>5
    <3> QED
      BY <1>1, <3>1, HandStays DEF IInv, InHand
  <2>6. OneLive'
    BY <1>0, <1>3, <2>1 DEF IInv, OneLive, IndexAllows
  <2>7. PositionsBacked'
    <3>1. ASSUME NEW r \in Sprints PROVE Behind(r, position'[r])
      BY <2>1 DEF IInv, PositionsBacked, Behind
    <3> QED
      BY <1>1, <3>1 DEF PositionsBacked, Behind, Final
  <2>8. CompleteAtEnd'
    BY <2>1 DEF IInv, CompleteAtEnd
  <2> QED
    BY <2>3, <2>4, <2>5, <2>6, <2>7, <2>8 DEF IInv, InHand
<1> QED
  BY <1>2, <1>3 DEF Insert, sprints

(* The rest of the factory moves tasks, never out of DONE; the owner of a  *)
(* card changes it (runtime.py, retry.py).                                 *)
LEMMA FactoryStep ==
    ASSUME IInv, NEW i \in Items,
           TakeIn(i) \/ Dispatch(i) \/ EndRun(i) \/ Accept(i) \/ Recover(i)
               \/ ChangeCard(i)
    PROVE  /\ IInv'
           /\ \A j \in Items : task[j] = "none" => task'[j] = "none"
           /\ \A j \in Items : task[j] = "DONE" => task'[j] = "DONE"
           /\ UNCHANGED registry
<1>0. task \in [Items -> TaskState] /\ edits \in 0..MaxEdits
  BY DEF IInv, TypeOK, TaskState
<1>1. /\ UNCHANGED <<state, position, rows, registry, pc, sp, at, move, human>>
      /\ task' \in [Items -> TaskState]
      /\ \A j \in Items : task[j] = "DONE" => task'[j] = "DONE"
      /\ \A j \in Items : task[j] = "none" => task'[j] = "none"
      /\ changed' \subseteq Sprints \X Items /\ edits' \in 0..MaxEdits
  <2>1. CASE ChangeCard(i)
    <3>1. edits' \in 0..MaxEdits
      BY <1>0, <2>1, SprintAssumption DEF ChangeCard
    <3>2. changed' \subseteq Sprints \X Items
      BY <2>1 DEF ChangeCard, IInv, TypeOK
    <3> QED
      BY <1>0, <2>1, <3>1, <3>2 DEF ChangeCard, sprints, local
  <2>2. CASE ~ ChangeCard(i)
    <3>1. PICK st \in TaskState : SetTask(i, st) /\ task[i] \notin {"none", "DONE"}
      BY <2>2, SprintAssumption
         DEF TakeIn, Dispatch, EndRun, Accept, Recover, TaskState, Halted
    <3> QED
      BY <1>0, <3>1 DEF SetTask, sprints, local, IInv, TypeOK
  <2> QED
    BY <2>1, <2>2
<1>2. TypeOK'
  BY <1>1 DEF IInv, TypeOK, TaskState
<1>3. InHand'
  BY <1>1, HandStays DEF IInv, InHand
<1>4. OneLive' /\ CompleteAtEnd'
  BY <1>1 DEF IInv, OneLive, CompleteAtEnd
<1>5. PositionsBacked'
  BY <1>1, BehindStays DEF IInv, PositionsBacked, TypeOK
<1> QED
  BY <1>1, <1>2, <1>3, <1>4, <1>5 DEF IInv

(* Every step of every process preserves the invariant.                    *)
LEMMA NextIInv == IInv /\ [Next]_vars => IInv'
<1> SUFFICES ASSUME IInv, [Next]_vars PROVE IInv'
  OBVIOUS
<1>1. CASE UNCHANGED vars
  <2>1. UNCHANGED <<state, position, rows, task, registry, changed, pc, sp, at, move,
                    human, edits>>
    BY <1>1 DEF vars, sprints, local
  <2>2. TypeOK' /\ InHand' /\ OneLive' /\ PositionsBacked' /\ CompleteAtEnd'
    BY <2>1 DEF IInv, TypeOK, InHand, Hand, OneLive, PositionsBacked, CompleteAtEnd,
                Behind, Final, ToSet
  <2> QED
    BY <2>2 DEF IInv
<1> QED
  BY <1>1, PassStep, CheckStep, WriteStep, CommandStep, InsertStep, FactoryStep
     DEF Next, Advance

(* An Issue appears only for the step a process has loaded and was         *)
(* authorized to read, and a delivered step stays delivered (sprint.py     *)
(* prepare_for_project, AuthorizedBacklogSource).                          *)
LEMMA TasksStep ==
    ASSUME IInv, [Next]_vars
    PROVE  /\ UNCHANGED registry
           /\ \A i \in Items : task[i] = "DONE" => task'[i] = "DONE"
           /\ \A i \in Items : task[i] = "none" /\ task'[i] # "none" =>
                  \E p \in Proc : pc[p] = "create" /\ i = Steps[sp[p]][at[p] + 1]
<1>0. task \in [Items -> TaskState]
  BY DEF IInv, TypeOK, TaskState
<1>1. ASSUME NEW p \in Proc, CreateIssue(p)
      PROVE  /\ UNCHANGED registry
             /\ \A i \in Items : task[i] = "DONE" => task'[i] = "DONE"
             /\ \A i \in Items : task[i] = "none" /\ task'[i] # "none" =>
                    pc[p] = "create" /\ i = Steps[sp[p]][at[p] + 1]
  BY <1>0, <1>1 DEF CreateIssue
<1>2. ASSUME NEW p \in Proc, ~ CreateIssue(p), Advance(p) \/ Observe(p) \/ Crash(p)
      PROVE  UNCHANGED <<task, registry>>
  BY <1>2 DEF Advance, ResumeCompleted, LoadCurrent, Examine, ReadSource, MoveCheck,
              MoveWrite, Observe, Crash
<1>3. ASSUME Authorize \/ Insert \/ Pause \/ Resume \/ Cancel
      PROVE  UNCHANGED <<task, registry>>
  BY <1>3 DEF Authorize, Insert, Pause, Resume, Cancel, Command
<1>4. ASSUME UNCHANGED vars PROVE UNCHANGED <<task, registry>>
  BY <1>4 DEF vars
<1> QED
  BY <1>1, <1>2, <1>3, <1>4, FactoryStep DEF Next

(* Hence, as long as no two sprints share an item, no step has an Issue    *)
(* before its predecessors are delivered.                                  *)
LEMMA IssuedStep ==
    ASSUME DisjointManifests, IInv, IssuedInOrder, [Next]_vars
    PROVE  IssuedInOrder'
<1> SUFFICES ASSUME NEW s \in Sprints, NEW k \in 1..Len(Steps[s]),
                    task'[Steps[s][k]] # "none"
             PROVE  Behind(s, k - 1)'
  BY DEF IssuedInOrder
<1>1. /\ Len(Steps[s]) \in Nat /\ k - 1 \in Nat /\ k - 1 <= Len(Steps[s])
      /\ Steps[s][k] \in Items
  BY ManifestType
<1>2. Behind(s, k - 1)
  <2>1. CASE task[Steps[s][k]] # "none"
    BY <2>1 DEF IssuedInOrder
  <2>2. CASE task[Steps[s][k]] = "none"
    <3>1. PICK p \in Proc : pc[p] = "create" /\ Steps[s][k] = Steps[sp[p]][at[p] + 1]
      BY <1>1, <2>2, TasksStep
    <3>2. /\ sp[p] \in Sprints /\ at[p] \in Nat /\ at[p] < Len(Steps[sp[p]])
          /\ Behind(sp[p], at[p])
      BY <3>1 DEF IInv, TypeOK, InHand, Hand
    <3>3. at[p] + 1 \in 1..Len(Steps[sp[p]])
      BY <3>2, ManifestType
    <3>4. sp[p] = s /\ at[p] + 1 = k
      BY <3>1, <3>2, <3>3 DEF DisjointManifests
    <3>5. at[p] = k - 1
      BY <1>1, <3>2, <3>4
    <3> QED
      BY <3>2, <3>4, <3>5
  <2> QED
    BY <2>1, <2>2
<1> QED
  BY <1>1, <1>2, TasksStep, BehindStays

-----------------------------------------------------------------------------
(* The inductive invariant: whatever stale update is written, the steps    *)
(* behind every position, stored or in hand, are delivered, a complete     *)
(* sprint is at its end, and one sprint at most is live.                   *)
THEOREM SprintInvariance == Spec => []IInv
BY InitIInv, NextIInv, PTL DEF Spec

(* Two sprints of a project are never live at once (the unique index       *)
(* behind authorize and move), for manifests of any shape.                 *)
THEOREM OneLiveProved == Spec => []OneLiveSprint
<1>1. IInv => OneLiveSprint
  <2> SUFFICES ASSUME IInv PROVE OneLiveSprint
    OBVIOUS
  <2> DEFINE live == {s \in Sprints : state[s] \in Live}
  <2>1. \A r, s \in live : r = s
    BY DEF IInv, OneLive
  <2>2. CASE live = {}
    BY <2>2, FS_EmptySet DEF OneLiveSprint
  <2>3. CASE live # {}
    <3>1. PICK s \in live : live = {s}
      BY <2>1, <2>3
    <3>2. Cardinality(live) = 1
      BY <3>1, FS_Singleton
    <3> QED
      BY <3>2 DEF OneLiveSprint
  <2> QED
    BY <2>2, <2>3
<1> QED
  BY SprintInvariance, <1>1, PTL

(* One sprint at a time, one step at a time, in order, across crashes,     *)
(* pauses and stale updates, for every set of manifests that do not share  *)
(* items (sprint.py).                                                      *)
THEOREM SprintOrderProved ==
    ASSUME DisjointManifests
    PROVE  Spec => []SprintIsOrdered
<1>1. Init => IssuedInOrder
  <2>1. \A s \in Sprints : \A k \in 1..Len(Steps[s]) : Steps[s][k] \in Items
    BY ManifestType
  <2> QED
    BY <2>1 DEF Init, IssuedInOrder
<1>2. IInv /\ IssuedInOrder /\ [Next]_vars => IssuedInOrder'
  BY IssuedStep
<1>3. IInv /\ IssuedInOrder => DeliveredInOrder
  BY DEF IInv, IssuedInOrder, DeliveredInOrder, PositionsBacked, CompleteAtEnd, Behind,
         Final
<1> QED
  BY SprintInvariance, OneLiveProved, <1>1, <1>2, <1>3, PTL DEF Spec, SprintIsOrdered

=============================================================================
