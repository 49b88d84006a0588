------------------------------ MODULE Validation ------------------------------
(***************************************************************************)
(* Validation of one run in its worktree (orchestration/tracking.py,       *)
(* integrations/gates/local.py, workspace/git.py and revision.py): the     *)
(* worktree is repaired, its content is taken before and after the gates,  *)
(* and a revision is bound only when both agree and every required gate is *)
(* green.  Commands of a process are steps of their own, so that gates,    *)
(* left-over processes and other factory processes may change the files    *)
(* between any two of them.  Worktree, task and what may happen are shared *)
(* with the publication, see Delivery.                                     *)
(***************************************************************************)
EXTENDS Naturals, Sequences, TaskLifecycle

CONSTANTS
    Procs,       \* factory processes
    Specs,       \* the configured gates, a sequence of names
    Required,    \* the gates that must be green
    Contents,    \* contents of the worktree
    Passing      \* <<gate, content>> pairs that exit with 0

VARIABLES
    setting,     \* what may still happen, see GitPublish
    files,       \* content of the worktree
    place,       \* its state: "own" branch, "other" branch or "absent"
    ended,       \* the engine reports success
    status, gates, validated,  \* the stored run; validated by run, this is the first
    task,        \* the stored status
    published,   \* a Pull Request is stored or open
    pc, loc      \* processes: step and values in memory

store == <<status, gates, validated, task, published>>
world == <<files, place, ended>>

None == "none"
Steps == {"idle", "repair", "before", "gate", "after", "store", "drive"}
Gate == [name : {Specs[i] : i \in DOMAIN Specs} \union {"workspace_integrity"},
         green : BOOLEAN, required : BOOLEAN]
Nothing == [gates |-> << >>, before |-> None]
Integrity == [name |-> "workspace_integrity", green |-> FALSE, required |-> TRUE]

RequiredGreen(gs) == \A i \in DOMAIN gs : gs[i].required => gs[i].green

Green == [i \in DOMAIN Specs |->
            [name |-> Specs[i], green |-> TRUE, required |-> Specs[i] \in Required]]

(* A run under way; one of an earlier release, with green gates and no     *)
(* revision; or one whose validation is over.                              *)
Init ==
    /\ \/ /\ setting.start = "running" /\ task = "RUNNING" /\ ended = FALSE
          /\ status = "RUNNING" /\ gates = << >> /\ validated = << None >>
       \/ /\ setting.start = "legacy" /\ task = "VALIDATING" /\ ended = TRUE
          /\ status = "SUCCEEDED" /\ gates = Green /\ validated = << None >>
       \/ /\ setting.start = "bound" /\ task = "VALIDATING" /\ ended = TRUE
          /\ status = "SUCCEEDED" /\ gates = Green /\ validated = << files >>
          /\ \A g \in Required : <<g, files>> \in Passing
    /\ pc = [p \in Procs |-> "idle"] /\ loc = [p \in Procs |-> Nothing]

Goto(p, l) == pc' = [pc EXCEPT ![p] = l]
Set(p, r) == loc' = [loc EXCEPT ![p] = r]
Fault(f) == /\ f \in setting.faults /\ setting.left > 0
            /\ setting' = [setting EXCEPT !.left = @ - 1]

(* The validation ends without a revision. *)
Rejects(p, gs) == Goto(p, "store") /\ Set(p, [gates |-> gs, before |-> None])

-----------------------------------------------------------------------------
(* RunTrackingService.refresh *)

(* _can_revalidate: green gates without a revision, nothing published. *)
Revalidates ==
    /\ task = "VALIDATING" /\ validated[1] = None
    /\ gates # << >> /\ RequiredGreen(gates)
    /\ ~published

(* A run that has ended in the store is validated only if it has no gate   *)
(* results yet, or may be validated again.                                 *)
NeedsValidation ==
    \/ status = "RUNNING"
    \/ gates = << >> /\ Specs # << >> /\ validated[1] = None
    \/ Revalidates

(* A pass over a run that is validated and driven changes nothing. *)
Refresh(p) ==
    /\ pc[p] = "idle" /\ p \in setting.procs
    /\ ended /\ task \in {"RUNNING", "VALIDATING"}
    /\ NeedsValidation \/ task = "RUNNING"
    /\ Set(p, Nothing) /\ Goto(p, IF NeedsValidation THEN "repair" ELSE "drive")
    /\ UNCHANGED <<setting, world, store>>

(* GitWorktreeWorkspaceProvisioner.repair: the worktree is on its branch,  *)
(* and its permissions could be normalised.                                *)
Repair(p) ==
    /\ pc[p] = "repair" /\ UNCHANGED <<world, store>>
    /\ \/ place = "own" /\ Goto(p, "before") /\ UNCHANGED <<loc, setting>>
       \/ place # "own" /\ Rejects(p, << Integrity >>) /\ UNCHANGED setting
       \/ Fault("call") /\ Rejects(p, << Integrity >>)

(* fingerprint *)
Before(p) ==
    /\ pc[p] = "before" /\ UNCHANGED <<world, store>>
    /\ \/ /\ place # "absent" /\ UNCHANGED setting
          /\ Goto(p, IF Specs = << >> THEN "after" ELSE "gate")
          /\ Set(p, [loc[p] EXCEPT !.before = files])
       \/ place = "absent" /\ Rejects(p, << Integrity >>) /\ UNCHANGED setting
       \/ Fault("call") /\ Rejects(p, << Integrity >>)

(* LocalQualityGateRunner.run: exit code 0 on the files it meets, or a     *)
(* failure to run at all.                                                  *)
RunGate(p) ==
    LET n == Len(loc[p].gates) + 1
        done(g) == Set(p, [loc[p] EXCEPT !.gates =
                       Append(@, [name |-> Specs[n], green |-> g,
                                  required |-> Specs[n] \in Required])])
    IN  /\ pc[p] = "gate" /\ Goto(p, IF n = Len(Specs) THEN "after" ELSE "gate")
        /\ \/ /\ done(place # "absent" /\ <<Specs[n], files>> \in Passing)
              /\ UNCHANGED setting
           \/ Fault("call") /\ done(FALSE)
        /\ UNCHANGED <<world, store>>

(* A gate rewrites files while it runs. *)
GateWrites(p) ==
    /\ pc[p] = "gate" /\ "edit" \in setting.world /\ setting.edits > 0
    /\ setting' = [setting EXCEPT !.edits = @ - 1]
    /\ files' \in Contents \ {files}
    /\ UNCHANGED <<place, ended, store, pc, loc>>

(* Wrong variant: no second comparison. *)
AfterUncompared(p) ==
    /\ pc[p] = "after" /\ UNCHANGED <<setting, world, store>>
    /\ IF RequiredGreen(loc[p].gates)
       THEN Goto(p, "store") /\ Set(p, [loc[p] EXCEPT !.before = files])
       ELSE Rejects(p, loc[p].gates)

(* The second fingerprint decides. *)
After(p) ==
    /\ pc[p] = "after" /\ UNCHANGED <<world, store>>
    /\ \/ /\ UNCHANGED setting
          /\ IF place = "absent" \/ files # loc[p].before
             THEN Rejects(p, Append(loc[p].gates, Integrity))
             ELSE IF RequiredGreen(loc[p].gates)
             THEN Goto(p, "store") /\ UNCHANGED loc
             ELSE Rejects(p, loc[p].gates)
       \/ Fault("call") /\ Rejects(p, Append(loc[p].gates, Integrity))

(* update_run writes the row, whatever it holds meanwhile. *)
Store(p) ==
    /\ pc[p] = "store" /\ Goto(p, "drive")
    /\ status' = "SUCCEEDED" /\ gates' = loc[p].gates
    /\ validated' = [validated EXCEPT ![1] = loc[p].before]
    /\ UNCHANGED <<setting, world, task, published, loc>>

(* _drive_task *)
Drive(p) ==
    /\ pc[p] = "drive" /\ Goto(p, "idle")
    /\ task' = IF CanTransition(task, "VALIDATING") /\ status = "SUCCEEDED"
               THEN "VALIDATING" ELSE task
    /\ UNCHANGED <<setting, world, status, gates, validated, published, loc>>

Crash(p) ==
    /\ pc[p] # "idle" /\ Fault("crash") /\ Goto(p, "idle")
    /\ UNCHANGED <<world, store, loc>>

-----------------------------------------------------------------------------
(* The engine and the runtime *)

EngineEnds ==
    /\ ~ended /\ ended' = TRUE
    /\ UNCHANGED <<setting, files, place, store, pc, loc>>

(* Red gates send the task back for a correction. *)
Requeue ==
    /\ task = "VALIDATING" /\ status = "SUCCEEDED" /\ ~RequiredGreen(gates)
    /\ \A p \in Procs : pc[p] = "idle"
    /\ task' = "READY"
    /\ UNCHANGED <<setting, world, status, gates, validated, published, pc, loc>>

-----------------------------------------------------------------------------

Pass(p) ==
    \/ Refresh(p) \/ Repair(p) \/ Before(p) \/ RunGate(p) \/ After(p)
    \/ Store(p) \/ Drive(p)

-----------------------------------------------------------------------------

TypeOK ==
    /\ status \in {"RUNNING", "SUCCEEDED"} /\ gates \in Seq(Gate)
    /\ pc \in [Procs -> Steps]
    /\ loc \in [Procs -> [gates : Seq(Gate), before : Contents \union {None}]]
=============================================================================
