-------------------------------- MODULE Sprint --------------------------------
(***************************************************************************)
(* Authorized, ordered execution of one project's backlog                  *)
(* (orchestration/sprint.py over the sprints table).  Worker processes     *)
(* prepare passes and observe tasks, an operator's commands authorize,     *)
(* pause, resume and cancel, and every change of a sprint goes through     *)
(* move(), which reads the row, validates the event against it and then    *)
(* updates it: two statements, with other processes in between.            *)
(*                                                                         *)
(* pc of a process:                                                        *)
(*   idle     nothing under way           prepare  load the current sprint *)
(*   step     examine the current step    source   authorized read of card *)
(*   create   the Issue is created        insert   insert the sprint row   *)
(*   check    move: read and validate     write    move: update, event     *)
(***************************************************************************)
EXTENDS Naturals, FiniteSets, Sequences, SequencesExt

CONSTANTS
    Sprints,   \* sprint ids
    Items,     \* work items
    Steps,     \* the manifest of each sprint: its items in order
    Depends,   \* the items each item names as dependencies
    Workers,   \* processes that run passes
    Commands,  \* the human decisions that are taken: sprint commands,
               \* "edit" of a card, "retry" of a task
    Outcomes,  \* how the run of a task may end
    Registry,  \* the configurations: with a project registry or without
    MaxEdits   \* bound: card changes and operator commands

Halted == {"WAITING_HUMAN", "BLOCKED", "FAILED", "CANCELLED"}

ASSUME SprintAssumption ==
    /\ Steps \in [Sprints -> Seq(Items) \ {<<>>}]
    /\ Depends \in [Items -> SUBSET Items]
    /\ Commands \subseteq {"authorize", "pause", "resume", "cancel", "edit",
                     "retry"}
    /\ Outcomes \subseteq Halted
    /\ Registry \subseteq BOOLEAN
    /\ "operator" \notin Workers
    /\ MaxEdits \in Nat

VARIABLES
    state, position, \* sprints: state and position
    rows,            \* sprint ids by rowid
    task,            \* per item: no Issue, an Issue, or its task's status
    registry,        \* configured: a step must have a completion event
    changed,         \* <<sprint, item>>: the card left its snapshot
    pc, sp, at,      \* processes: loaded sprint and position
    move,            \* the change a process is making
    human,           \* sprints whose last pause was the operator's
    edits            \* spent part of the bound

sprints == <<state, position, rows>>
local == <<pc, sp, at, move>>
vars == <<sprints, task, registry, changed, local, human, edits>>

Proc == Workers \union {"operator"}

Live == {"ACTIVE", "PAUSED"}

Event == {"WorkItemSelected", "SprintPaused", "SprintResumed",
          "SprintCancelled", "SprintAdvanced", "SprintCompleted"}

Move == [event : Event, to : Live \union {"CANCELLED", "COMPLETE"},
         position : Nat, next : {"idle", "prepare", "step"}]

NoMove == [event |-> "WorkItemSelected", to |-> "ACTIVE", position |-> 0,
           next |-> "idle"]

TypeOK ==
    /\ state \in [Sprints -> Live \union {"none", "CANCELLED", "COMPLETE"}]
    /\ position \in [Sprints -> Nat]
    /\ \A s \in Sprints : position[s] <= Len(Steps[s])
    /\ \A s \in Sprints : state[s] \in Live => position[s] < Len(Steps[s])
    /\ rows \in Seq(Sprints)
    /\ ToSet(rows) = {s \in Sprints : state[s] # "none"}
    /\ task \in [Items -> {"none", "ISSUE", "READY", "RUNNING", "DONE"}
                              \union Halted]
    /\ registry \in BOOLEAN
    /\ changed \subseteq Sprints \X Items
    /\ pc \in [Proc -> {"idle", "prepare", "step", "source", "create",
                        "insert", "check", "write"}]
    /\ sp \in [Proc -> Sprints] /\ at \in [Proc -> Nat]
    /\ move \in [Proc -> Move]
    /\ human \subseteq Sprints
    /\ edits \in 0..MaxEdits

Init ==
    /\ state = [s \in Sprints |-> "none"]
    /\ position = [s \in Sprints |-> 0] /\ rows = <<>>
    /\ task = [i \in Items |-> "none"] /\ registry \in Registry /\ changed = {}
    /\ pc = [p \in Proc |-> "idle"]
    /\ sp \in {[p \in Proc |-> s] : s \in Sprints}
    /\ at = [p \in Proc |-> 0] /\ move = [p \in Proc |-> NoMove]
    /\ human = {} /\ edits = 0

-----------------------------------------------------------------------------
(* SqliteSprintRepository *)

(* current_for_project: the newest row that is not cancelled, as a set. *)
Current ==
    LET kept == {k \in DOMAIN rows : state[rows[k]] # "CANCELLED"}
    IN  {rows[k] : k \in {k \in kept : \A j \in kept : j <= k}}

(* The unique index over live sprints: s may become or stay live. *)
IndexAllows(s) == \A r \in Sprints \ {s} : state[r] \notin Live

(* The events move() accepts, given the row it has read. *)
Valid(s, m) ==
    CASE m.event = "WorkItemSelected" ->
             state[s] = "ACTIVE" /\ m.to = "ACTIVE" /\ m.position = position[s]
      [] m.event = "SprintPaused" ->
             state[s] = "ACTIVE" /\ m.to = "PAUSED" /\ m.position = position[s]
      [] m.event = "SprintResumed" ->
             state[s] = "PAUSED" /\ m.to = "ACTIVE" /\ m.position = position[s]
      [] m.event = "SprintCancelled" ->
             state[s] \in Live /\ m.to = "CANCELLED" /\ m.position = position[s]
      [] m.event = "SprintAdvanced" ->
             state[s] = "ACTIVE" /\ m.to = "ACTIVE"
                 /\ m.position = position[s] + 1
      [] m.event = "SprintCompleted" ->
             state[s] = "ACTIVE" /\ m.to = "COMPLETE"
                 /\ m.position = position[s] + 1

(* Processes stop at "check" with the change they are about to make. *)
Intend(p, s, event, to, pos, next) ==
    /\ pc' = [pc EXCEPT ![p] = "check"]
    /\ sp' = [sp EXCEPT ![p] = s]
    /\ move' = [move EXCEPT ![p] = [event |-> event, to |-> to,
                                    position |-> pos, next |-> next]]

Goto(p, step) == pc' = [pc EXCEPT ![p] = step] /\ UNCHANGED <<sp, move>>

(* The end of a move: its change is forgotten. *)
Finish(p, step) ==
    /\ pc' = [pc EXCEPT ![p] = step]
    /\ move' = [move EXCEPT ![p] = NoMove]
    /\ UNCHANGED sp

(* An invalid transition raises out of the whole operation. *)
MoveCheck(p) ==
    /\ pc[p] = "check"
    /\ IF Valid(sp[p], move[p]) THEN Goto(p, "write") ELSE Finish(p, "idle")
    /\ UNCHANGED <<sprints, task, registry, changed, at, human, edits>>

(* UPDATE ... WHERE sprint_id = ?, with no condition on state or position. *)
MoveWrite(p) ==
    /\ pc[p] = "write"
    /\ LET s == sp[p]  m == move[p]
       IN  IF m.to \in Live => IndexAllows(s)
           THEN /\ state' = [state EXCEPT ![s] = m.to]
                /\ position' = [position EXCEPT ![s] = m.position]
                /\ Finish(p, m.next)
                /\ human' = IF p = "operator" /\ m.to = "PAUSED"
                            THEN human \union {s}
                            ELSE IF p = "operator" THEN human \ {s} ELSE human
           ELSE Finish(p, "idle") /\ UNCHANGED <<state, position, human>>
    /\ UNCHANGED <<rows, task, registry, changed, at, edits>>

-----------------------------------------------------------------------------
(* SprintService: a worker's pass *)

CurrentItem(s) == Steps[s][position[s] + 1]

(* Wrong variant: a completed step does not resume its sprint. *)
ResumeNever(p) ==
    /\ pc[p] = "idle" /\ p \in Workers
    /\ Goto(p, "prepare")
    /\ UNCHANGED <<sprints, task, registry, changed, at, human, edits>>

(* Wrong variant: the completion is not asked for. *)
DeliveredUnasked(i) == TRUE

(* feedback_events is None, or is_completed(i).  The event it looks for is *)
(* written by record_completed, which only FeedbackReconciliationService   *)
(* .reconcile calls, and nothing calls that.                               *)
Delivered(i) == ~ registry

(* The condition of resume_completed_for. *)
Resumable(s) ==
    /\ state[s] = "PAUSED" /\ position[s] < Len(Steps[s])
    /\ task[CurrentItem(s)] = "DONE" /\ Delivered(CurrentItem(s))

(* resume_completed_for: a paused sprint whose current step is delivered. *)
ResumeCompleted(p) ==
    /\ pc[p] = "idle" /\ p \in Workers
    /\ \/ \E s \in Current :
              /\ Resumable(s)
              /\ Intend(p, s, "SprintResumed", "ACTIVE", position[s], "prepare")
       \/ /\ ~\E s \in Current : Resumable(s)
          /\ \E s \in Current : state[s] \in Live
          /\ Goto(p, "prepare")
    /\ UNCHANGED <<sprints, task, registry, changed, at, human, edits>>

LoadCurrent(p) ==
    /\ pc[p] = "prepare"
    /\ \/ \E s \in Current :
              /\ state[s] = "ACTIVE"
              /\ pc' = [pc EXCEPT ![p] = "step"]
              /\ sp' = [sp EXCEPT ![p] = s]
              /\ at' = [at EXCEPT ![p] = position[s]]
              /\ UNCHANGED move
       \/ /\ \A s \in Current : state[s] # "ACTIVE"
          /\ Goto(p, "idle") /\ UNCHANGED at
    /\ UNCHANGED <<sprints, task, registry, changed, human, edits>>

(* DependencyResolver.complete *)
DependenciesDone(s, k) ==
    \A d \in Depends[Steps[s][k + 1]] :
        d \in ToSet(SubSeq(Steps[s], 1, k)) /\ task[d] = "DONE"

(* Whether the step at position k is the sprint's last. *)
IsLast(s, k) == k + 1 = Len(Steps[s])

(* One turn of prepare_for_project's loop, on the loaded position. *)
Examine(p) ==
    /\ pc[p] = "step"
    /\ LET s == sp[p]
           k == at[p]
           i == Steps[s][k + 1]
           pause == Intend(p, s, "SprintPaused", "PAUSED", k, "idle")
       IN  \/ k >= Len(Steps[s]) /\ Goto(p, "idle") /\ UNCHANGED at
           \/ /\ k < Len(Steps[s]) /\ task[i] = "DONE" /\ ~Delivered(i)
              /\ pause /\ UNCHANGED at
           \/ /\ k < Len(Steps[s]) /\ task[i] = "DONE" /\ Delivered(i)
              /\ at' = [at EXCEPT ![p] = k + 1]
              /\ IF IsLast(s, k)
                 THEN Intend(p, s, "SprintCompleted", "COMPLETE", k + 1, "step")
                 ELSE Intend(p, s, "SprintAdvanced", "ACTIVE", k + 1, "step")
           \/ /\ k < Len(Steps[s]) /\ task[i] # "DONE"
              /\ \/ task[i] \in Halted
                 \/ <<s, i>> \in changed
                 \/ ~DependenciesDone(s, k)
              /\ pause /\ UNCHANGED at
           \/ /\ k < Len(Steps[s]) /\ task[i] \notin Halted \union {"DONE"}
              /\ <<s, i>> \notin changed /\ DependenciesDone(s, k)
              /\ IF task[i] = "none"
                 THEN Goto(p, "source")
                 ELSE Intend(p, s, "WorkItemSelected", "ACTIVE", k, "idle")
              /\ UNCHANGED at
    /\ UNCHANGED <<sprints, task, registry, changed, human, edits>>

(* AuthorizedBacklogSource.get_item: the item must be the current step of  *)
(* an active sprint, and its card must equal the snapshot.                 *)
Authorized(s, k) ==
    /\ s \in Current /\ state[s] = "ACTIVE" /\ position[s] = k
    /\ <<s, Steps[s][k + 1]>> \notin changed

ReadSource(p) ==
    /\ pc[p] = "source"
    /\ Goto(p, IF Authorized(sp[p], at[p]) THEN "create" ELSE "idle")
    /\ UNCHANGED <<sprints, task, registry, changed, at, human, edits>>

(* The materializer creates the Issue (see Backlog), then it is selected. *)
CreateIssue(p) ==
    /\ pc[p] = "create"
    /\ LET i == Steps[sp[p]][at[p] + 1]
       IN  task' = [task EXCEPT ![i] = IF @ = "none" THEN "ISSUE" ELSE @]
    /\ Intend(p, sp[p], "WorkItemSelected", "ACTIVE", at[p], "idle")
    /\ UNCHANGED <<sprints, registry, changed, at, human, edits>>

(* allows: the task is the current step of the active sprint. *)
Allows(s, i) ==
    s \in Current /\ state[s] = "ACTIVE" /\ position[s] < Len(Steps[s])
        /\ CurrentItem(s) = i

(* observe, after a task was run. *)
Observe(p) ==
    /\ pc[p] = "idle" /\ p \in Workers
    /\ \E s \in Current, i \in Items :
           /\ Allows(s, i) /\ task[i] \in Halted
           /\ Intend(p, s, "SprintPaused", "PAUSED", position[s], "idle")
    /\ UNCHANGED <<sprints, task, registry, changed, at, human, edits>>

(* A process stops: what it had not written is lost. *)
Crash(p) ==
    /\ edits < MaxEdits /\ edits' = edits + 1
    /\ pc[p] # "idle" /\ Finish(p, "idle")
    /\ UNCHANGED <<sprints, task, registry, changed, at, human>>

-----------------------------------------------------------------------------
(* SprintService: the operator's commands *)

Command(name) ==
    /\ name \in Commands
    /\ pc["operator"] = "idle"
    /\ edits < MaxEdits /\ edits' = edits + 1
    /\ UNCHANGED <<sprints, task, registry, changed, at, human>>

(* draft, plan and authorize: the blockers that depend on the store. *)
Authorize ==
    /\ Command("authorize")
    /\ \E s \in Sprints :
           /\ state[s] = "none"
           /\ \A r \in Current : state[r] \notin Live
           /\ \A i \in Items : task[i] \notin {"WAITING_HUMAN", "RUNNING"}
           /\ pc' = [pc EXCEPT !["operator"] = "insert"]
           /\ sp' = [sp EXCEPT !["operator"] = s]
           /\ UNCHANGED move

Insert ==
    /\ pc["operator"] = "insert"
    /\ LET s == sp["operator"]
       IN  IF state[s] = "none" /\ IndexAllows(s)
           THEN /\ state' = [state EXCEPT ![s] = "ACTIVE"]
                /\ position' = [position EXCEPT ![s] = 0]
                /\ rows' = Append(rows, s)
           ELSE UNCHANGED sprints
    /\ Goto("operator", "idle")
    /\ UNCHANGED <<task, registry, changed, at, human, edits>>

Pause ==
    /\ Command("pause")
    /\ \E s \in Current :
           /\ state[s] = "ACTIVE"
           /\ Intend("operator", s, "SprintPaused", "PAUSED", position[s], "idle")

Resume ==
    /\ Command("resume")
    /\ \E s \in Current :
           /\ state[s] = "PAUSED"
           /\ task[CurrentItem(s)] \notin Halted
           /\ <<s, CurrentItem(s)>> \notin changed
           /\ DependenciesDone(s, position[s])
           /\ Intend("operator", s, "SprintResumed", "ACTIVE", position[s], "idle")

Cancel ==
    /\ Command("cancel")
    /\ \E s \in Current :
           /\ state[s] \in Live
           /\ Intend("operator", s, "SprintCancelled", "CANCELLED", position[s],
                     "idle")

-----------------------------------------------------------------------------
(* The rest of the factory, and the card's owner *)

SetTask(i, st) ==
    /\ task' = [task EXCEPT ![i] = st]
    /\ UNCHANGED <<sprints, registry, changed, local, human, edits>>

TakeIn(i) == task[i] = "ISSUE" /\ SetTask(i, "READY")

(* The runtime starts only a task the sprint allows. *)
Dispatch(i) ==
    /\ task[i] = "READY" /\ \E s \in Sprints : Allows(s, i)
    /\ SetTask(i, "RUNNING")

EndRun(i) == task[i] = "RUNNING" /\ \E o \in Outcomes : SetTask(i, o)

Accept(i) == task[i] = "WAITING_HUMAN" /\ SetTask(i, "DONE")

(* A retry, requested changes, or a closure found at the provider. *)
Recover(i) ==
    /\ "retry" \in Commands
    /\ \/ task[i] \in {"WAITING_HUMAN", "BLOCKED"} /\ SetTask(i, "READY")
       \/ task[i] \in {"FAILED", "CANCELLED"} /\ SetTask(i, "DONE")

ChangeCard(i) ==
    /\ "edit" \in Commands
    /\ edits < MaxEdits /\ edits' = edits + 1
    /\ changed' = changed \union
           {<<s, i>> : s \in {s \in Sprints : state[s] # "none"}}
    /\ changed' # changed
    /\ UNCHANGED <<sprints, task, registry, local, human>>

-----------------------------------------------------------------------------

Advance(p) ==
    ResumeCompleted(p) \/ LoadCurrent(p) \/ Examine(p) \/ ReadSource(p)
        \/ CreateIssue(p) \/ MoveCheck(p) \/ MoveWrite(p)

Next ==
    \/ \E p \in Proc : Advance(p) \/ Observe(p) \/ Crash(p)
    \/ Authorize \/ Insert \/ Pause \/ Resume \/ Cancel
    \/ \E i \in Items : TakeIn(i) \/ Dispatch(i) \/ EndRun(i) \/ Accept(i)
                            \/ Recover(i) \/ ChangeCard(i)

Spec == Init /\ [][Next]_vars

(* Processes that are running go on, the factory works on what it is       *)
(* allowed to, and a person decides every review in the end.               *)
Fairness ==
    /\ \A p \in Proc : WF_vars(Advance(p) \/ (p = "operator" /\ Insert))
    /\ WF_vars(\E i \in Items : TakeIn(i) \/ EndRun(i))
    /\ SF_vars(\E i \in Items : Dispatch(i))
    /\ SF_vars(\E i \in Items : Accept(i))

FairSpec == Spec /\ Fairness

-----------------------------------------------------------------------------
(* Properties *)

(* Two sprints of one project are never live at once, whichever commands   *)
(* and stale updates overlap (the unique index behind authorize and move). *)
OneLiveSprint == Cardinality({s \in Sprints : state[s] \in Live}) <= 1

(* Steps are delivered in order and one at a time (WIP = 1): the steps     *)
(* behind the position are delivered, also when a stale update moved it,   *)
(* no step has an Issue while an earlier one is not delivered - across     *)
(* crashes, pauses and two workers in one pass - and a complete sprint is  *)
(* at its end.                                                             *)
DeliveredInOrder ==
    LET Final(i) == task[i] = "DONE" /\ ~ registry
    IN
    \A s \in Sprints :
        /\ \A k \in 1..position[s] : Final(Steps[s][k])
        /\ \A k \in 1..Len(Steps[s]) :
               task[Steps[s][k]] # "none" =>
                   \A j \in 1..(k - 1) : Final(Steps[s][j])
        /\ state[s] = "COMPLETE" => position[s] = Len(Steps[s])

(* One sprint at a time, one step at a time, in order (sprint.py).         *)
SprintIsOrdered == OneLiveSprint /\ DeliveredInOrder

(* What ends a sprint, or keeps it waiting for a person: a cancel or a     *)
(* pause, a changed card, a task that failed, or a paused step that was    *)
(* sent back, which waits for `sprint resume`.                             *)
SettledFor(s) ==
    \/ state[s] \in {"COMPLETE", "CANCELLED"} \/ s \in human
    \/ s \notin Current
    \/ \E i \in ToSet(Steps[s]) : <<s, i>> \in changed \/ task[i] = "FAILED"
    \/ state[s] = "PAUSED" /\ task[CurrentItem(s)] \in {"READY", "RUNNING"}

(* Without a project registry, an authorized sprint whose tasks are        *)
(* accepted completes without another command: a review pauses it and the  *)
(* accepted task resumes it (sprint.py advance).                           *)
SprintCompletes ==
    \A s \in Sprints : (state[s] = "ACTIVE" /\ ~ registry) ~> SettledFor(s)

(* The same in every configuration: "A verified merged delivery resumes    *)
(* automatically after final Issue and card reconciliation"                *)
(* (docs/architecture.md:15).                                              *)
DeliveredSprintResumes ==
    \A s \in Sprints : state[s] = "ACTIVE" ~> SettledFor(s)
=============================================================================
