------------------------------- MODULE Feedback -------------------------------
(***************************************************************************)
(* Post-review reconciliation of one delivered task                        *)
(* (orchestration/feedback.py, runtime._reconcile_human_review_task):      *)
(* processes of the factory repeat a pass over the task, its Pull Request, *)
(* its Issue and its Trello card.  Every provider call and every durable   *)
(* write of a pass is a step of its own, so a pass can stop, or meet       *)
(* another pass or a person, between any two of them.                      *)
(*                                                                         *)
(* pc of a process:                                                        *)
(*   idle, state    listed; state of the Pull Request                      *)
(*   cancel, note   the two writes of a Pull Request closed unmerged       *)
(*   enter          a function of the service begins, see to[p]            *)
(*   match, head, revise        _identity: rows, provider head, new head   *)
(*   issue, facts, merged       what the provider says, record_merged      *)
(*   resolve, reload, clear     task to DONE, blocked_reason dropped       *)
(*   fetch, post, unlabel, close, confirm    Issue completion              *)
(*   card, event    the card, and the resolution event                     *)
(***************************************************************************)
EXTENDS Naturals, FiniteSets, TaskLifecycle

CONSTANTS
    Procs,       \* processes: worker pool, sync-status
    Settings     \* what may happen, by setting:
                 \*   procs      the processes that reconcile the task
                 \*   card       the task is linked to a Trello card
                 \*   superseded it has the marker factory-resolution: superseded
                 \*   people     what people at the provider may do
                 \*   heads, edits, faults   bounds: revisions of the branch,
                 \*              decisions of people, failed calls and crashes

Setting ==
    [procs : SUBSET Procs, card : BOOLEAN, superseded : BOOLEAN,
     people : SUBSET {"push", "merge", "close", "reopen", "ci", "issue",
                      "reopenIssue", "rework"},
     heads : Nat, edits : Nat, faults : Nat]

ASSUME FeedbackAssumption == Settings \subseteq Setting /\ IsFiniteSet(Procs)

VARIABLES
    setting,        \* what may still happen
    task, blocked,  \* tasks: status, whether blocked_reason is set
    run, runOk,     \* the latest run and whether it has SUCCEEDED
    row,            \* the pull_requests row: run, commit_sha, merged
    events,         \* resolution events, by reason
    pr, head, ci,   \* provider: state and head of the PR, CI and deployment
    issue, label,   \* provider: "open" or the reason, factory-ready
    comments,       \* provider: closure comments, by the reason they name
    card,           \* provider: phase shown by the card
    closed,         \* history: a person closed the Issue
    pc, to, loc,    \* processes: step, function, local values
    sent            \* publication: the commit the latest run has pushed and
                    \* its row does not have yet, or 0

store == <<task, blocked, run, runOk, row, events>>
provider == <<pr, head, ci, issue, label, comments, card, closed>>
local == <<pc, to, loc, sent>>
vars == <<setting, store, provider, local>>

HasCard == setting.card
Superseded == setting.superseded

Reasons == {"completed", "not_planned", "duplicate"}

(* Statuses _reconcile_human_reviews lists. *)
Reviewed == {"WAITING_HUMAN", "VALIDATING", "DONE", "FAILED", "CANCELLED"}

Steps == {"idle", "state", "cancel", "note", "enter", "match", "head", "revise",
          "issue", "facts", "merged", "resolve", "reload", "clear", "fetch", "post",
          "unlabel", "close", "confirm", "card", "event"}

Local == [st : TaskStatus, run : Nat, rrun : Nat, sha : Nat, seen : Nat,
          phase : {"WAITING_HUMAN", "CLOSED", "FAILED", "DONE"},
          issue : Reasons \union {"open", "unknown"},
          ready : BOOLEAN, complete : BOOLEAN,
          reason : Reasons]

Nothing == [st |-> "DONE", run |-> 0, rrun |-> 0, sha |-> 0, seen |-> 0,
            phase |-> "DONE", issue |-> "unknown", ready |-> FALSE,
            complete |-> FALSE,
            reason |-> "completed"]

Init ==
    /\ setting \in Settings
    /\ task \in {"WAITING_HUMAN", "VALIDATING"} /\ blocked \in BOOLEAN
    /\ run = 1 /\ runOk = TRUE
    /\ row = [run |-> 1, sha |-> 1, merged |-> FALSE] /\ events = {}
    /\ pr = "open" /\ head = 1 /\ ci = FALSE
    /\ issue = "open" /\ label = TRUE /\ card = "WAITING_HUMAN"
    /\ comments = [r \in {"completed", "not_planned"} |-> 0]
    /\ closed = FALSE
    /\ pc = [p \in Procs |-> "idle"] /\ to = [p \in Procs |-> "closure"]
    /\ loc = [p \in Procs |-> Nothing] /\ sent = 0

Goto(p, l) == pc' = [pc EXCEPT ![p] = l]

Keep(p, r) == loc' = [loc EXCEPT ![p] = r]

Step(p, from, l) == pc[p] = from /\ Goto(p, l) /\ UNCHANGED setting

(* A call fails: what follows is the code's answer to the exception. *)
Fails == setting.faults > 0 /\ setting' = [setting EXCEPT !.faults = @ - 1]

(* A step that only reads. *)
Reads(p, r) == Keep(p, r) /\ UNCHANGED <<store, provider>>

Enter(p, f) == pc' = [pc EXCEPT ![p] = "enter"] /\ to' = [to EXCEPT ![p] = f]

(* What follows the end of a function: reconcile_external and sync are     *)
(* followed by reconcile_provider_closure, which ends the pass.            *)
Return(p) ==
    IF to[p] = "closure" THEN Goto(p, "idle") /\ UNCHANGED to
                         ELSE Enter(p, "closure")

-----------------------------------------------------------------------------
(* runtime._reconcile_human_review_task *)

Begin(p) ==
    /\ Step(p, "idle", "state") /\ UNCHANGED to
    /\ p \in setting.procs /\ task \in Reviewed
    /\ Reads(p, [Nothing EXCEPT !.st = task, !.run = run])

(* Statuses an open Pull Request projects to the card; of a closed one,    *)
(* FAILED remains.                                                         *)
Projected == {"WAITING_HUMAN", "FAILED"}

(* The Pull Request's state decides; if it cannot be read, or the task is  *)
(* CANCELLED, only a closed Issue counts.                                  *)
ReadState(p) ==
    /\ pc[p] = "state" /\ UNCHANGED <<store, provider>>
    /\ \/ Fails /\ Enter(p, "closure") /\ UNCHANGED loc
       \/ /\ loc[p].st = "CANCELLED"
          /\ Enter(p, "closure") /\ UNCHANGED <<loc, setting>>
       \/ /\ loc[p].st # "CANCELLED" /\ UNCHANGED setting
          /\ \/ pr = "merged" /\ Enter(p, "external") /\ UNCHANGED loc
             \/ /\ pr = "closed" /\ loc[p].st \in {"WAITING_HUMAN", "VALIDATING"}
                /\ Goto(p, "cancel") /\ UNCHANGED <<to, loc>>
             \/ /\ \/ pr = "open" /\ loc[p].st \in Projected
                   \/ pr = "closed" /\ loc[p].st = "FAILED"
                /\ Enter(p, "sync") /\ Keep(p, [loc[p] EXCEPT !.phase = loc[p].st])
             \/ /\ \/ pr = "open" /\ loc[p].st \notin Projected
                   \/ pr = "closed" /\ loc[p].st = "DONE"
                /\ Enter(p, "closure") /\ UNCHANGED loc

(* The task is cancelled, or is already, with a reason that a second       *)
(* statement adds by writing the whole row back.                           *)
CancelTask(p) ==
    /\ pc[p] = "cancel" /\ UNCHANGED <<to, provider, setting>>
    /\ UNCHANGED <<blocked, run, runOk, row, events>>
    /\ IF task = "CANCELLED" \/ CanTransition(task, "CANCELLED")
       THEN /\ task' = "CANCELLED"
            /\ Goto(p, "note") /\ UNCHANGED loc
       ELSE UNCHANGED task /\ Goto(p, "idle") /\ UNCHANGED loc

NoteCancel(p) ==
    /\ pc[p] = "note" /\ Enter(p, "sync")
    /\ task' = "CANCELLED" /\ blocked' = TRUE
    /\ Keep(p, [loc[p] EXCEPT !.phase = "CLOSED"])
    /\ UNCHANGED <<run, runOk, row, events, provider, setting>>

-----------------------------------------------------------------------------
(* FeedbackReconciliationService._identity *)

Succeeded(r) == r < run \/ runOk

(* The task is read again, except by sync, and its run has succeeded. *)
EnterFunction(p) ==
    /\ pc[p] = "enter" /\ UNCHANGED <<store, provider, setting>>
    /\ LET st == IF to[p] = "sync" THEN loc[p].st ELSE task
       IN  /\ Keep(p, [loc[p] EXCEPT !.st = st])
           /\ IF to[p] = "sync" \/ Succeeded(loc[p].run)
              THEN Goto(p, "match") /\ UNCHANGED to
              ELSE Return(p)

(* The stored run is the latest and SUCCEEDED, and the Pull Request of the *)
(* branch is bound to it.                                                  *)
Matches(r) == r = run /\ Succeeded(r) /\ row.run = r

MatchRows(p) ==
    /\ pc[p] = "match" /\ UNCHANGED setting
    /\ Reads(p, [loc[p] EXCEPT !.rrun = row.run, !.sha = row.sha])
    /\ IF Matches(loc[p].run) THEN Goto(p, "head") /\ UNCHANGED to ELSE Return(p)

(* The functions, except sync, leave a task in the agent's or the          *)
(* operator's hands alone.                                                 *)
Identified(p) ==
    IF to[p] = "sync" THEN Goto(p, "card") /\ UNCHANGED to
    ELSE IF loc[p].st \in Reviewed THEN Goto(p, "issue") /\ UNCHANGED to
    ELSE Return(p)

(* A provider that fails makes no identity. *)
ReadHead(p) ==
    /\ pc[p] = "head"
    /\ Reads(p, [loc[p] EXCEPT !.seen = head])
    /\ \/ Fails /\ Return(p)
       \/ /\ UNCHANGED setting
          /\ IF head = loc[p].sha THEN Identified(p)
                                  ELSE Goto(p, "revise") /\ UNCHANGED to

(* Wrong variant: a new head keeps the recorded merge. *)
ReviseKeepingMerge(p) ==
    /\ pc[p] = "revise" /\ Identified(p)
    /\ row' = IF row.run = loc[p].rrun THEN [row EXCEPT !.sha = loc[p].seen] ELSE row
    /\ Keep(p, [loc[p] EXCEPT !.sha = row'.sha])
    /\ UNCHANGED <<task, blocked, run, runOk, events, provider, setting>>

(* record_provider_revision: a new head is not merged; a row of another    *)
(* run makes no identity.                                                  *)
ReviseHead(p) ==
    /\ pc[p] = "revise"
    /\ IF row.run = loc[p].rrun
       THEN /\ row' = [row EXCEPT !.sha = loc[p].seen, !.merged = FALSE]
            /\ Identified(p)
       ELSE UNCHANGED row /\ Return(p)
    /\ Keep(p, [loc[p] EXCEPT !.sha = row'.sha])
    /\ UNCHANGED <<task, blocked, run, runOk, events, provider, setting>>

-----------------------------------------------------------------------------
(* reconcile_external and reconcile_provider_closure *)

ReadIssue(p) ==
    /\ pc[p] = "issue"
    /\ \E seen \in {issue, "unknown"} :
           /\ IF seen = "unknown" THEN Fails ELSE UNCHANGED setting
           /\ Reads(p, [loc[p] EXCEPT !.issue = seen,
                            !.reason = IF seen \in Reasons THEN seen ELSE @])
           /\ CASE to[p] = "external" -> Goto(p, "facts") /\ UNCHANGED to
                [] to[p] = "closure" /\ seen \in Reasons ->
                       Goto(p, "resolve") /\ UNCHANGED to
                [] OTHER -> Return(p)

(* DeliveryEvidence: merged at exactly the identity's commit; complete     *)
(* with integration, CI and deployment.  A failed read verifies less.      *)
Evidence(sha) == [merged |-> pr = "merged" /\ head = sha,
                  complete |-> pr = "merged" /\ head = sha /\ ci]

(* merge_resolution, completed_issue or superseded. *)
Resolves(l) == l.complete \/ l.issue \in Reasons \/ Superseded

ReadFacts(p) ==
    /\ pc[p] = "facts"
    /\ \E m, c \in BOOLEAN :
           LET e == Evidence(loc[p].sha)
               l == [loc[p] EXCEPT !.complete = c]
           IN  /\ m => e.merged
               /\ c => m /\ e.complete
               /\ IF m = e.merged /\ c = e.complete THEN UNCHANGED setting
                                                    ELSE Fails
               /\ Reads(p, l)
               /\ IF m /\ (l.st = "WAITING_HUMAN" \/ c)
                  THEN Goto(p, "merged") /\ UNCHANGED to
                  ELSE IF Resolves(l)
                       THEN Goto(p, "resolve") /\ UNCHANGED to
                       ELSE Return(p)

(* record_merged: a row that left the identity refuses, which ends the     *)
(* pass.                                                                   *)
RecordMerged(p) ==
    /\ pc[p] = "merged"
    /\ UNCHANGED <<task, blocked, run, runOk, events, provider, loc, setting>>
    /\ IF row.run = loc[p].rrun /\ row.sha = loc[p].sha
       THEN /\ row' = [row EXCEPT !.merged = TRUE]
            /\ IF Resolves(loc[p]) THEN Goto(p, "resolve") /\ UNCHANGED to
                                   ELSE Return(p)
       ELSE UNCHANGED row /\ Goto(p, "idle") /\ UNCHANGED to

(* _resolve_done: a transition from the current status, which may be DONE  *)
(* already, or the terminal resolution from the status that was read.      *)
Resolvable(st) ==
    CASE st = "DONE" -> TRUE
      [] st \in {"FAILED", "CANCELLED"} -> task = st
      [] OTHER -> task = "DONE" \/ CanTransition(task, "DONE")

Resolve(p) ==
    /\ Step(p, "resolve", IF Resolvable(loc[p].st) THEN "reload" ELSE "idle")
    /\ task' = IF Resolvable(loc[p].st) /\ loc[p].st # "DONE" THEN "DONE" ELSE task
    /\ UNCHANGED <<blocked, run, runOk, row, events, provider, to, loc>>

(* Wrong variant: the Issue is not looked up. *)
AfterReloadClosed(p) == "card"

(* The calls that follow, as the function and the values read say. *)
AfterReload(p) ==
    IF /\ to[p] = "external" /\ loc[p].issue \notin Reasons
       /\ loc[p].complete \/ Superseded
    THEN "fetch"
    ELSE "card"

Reload(p) ==
    /\ Step(p, "reload", IF blocked THEN "clear" ELSE AfterReload(p))
    /\ Reads(p, [loc[p] EXCEPT !.st = task, !.phase = "DONE",
                   !.reason = IF loc[p].issue \in Reasons THEN @
                              ELSE IF Superseded THEN "not_planned" ELSE "completed"])
    /\ UNCHANGED to

ClearBlock(p) ==
    /\ Step(p, "clear", AfterReload(p))
    /\ task' = loc[p].st /\ blocked' = FALSE
    /\ UNCHANGED <<run, runOk, row, events, provider, to, loc>>

-----------------------------------------------------------------------------
(* GitHubIssueCompletionSink.complete and close *)

(* How the Issue is to be closed: delivery evidence goes before the marker. *)
Wanted(l) == IF l.complete THEN "completed" ELSE "not_planned"

FetchIssue(p) ==
    /\ Step(p, "fetch", IF ~loc[p].complete /\ issue = "not_planned"
                        THEN "card"
                        ELSE IF comments[Wanted(loc[p])] = 0
                             THEN "post" ELSE "unlabel")
    /\ Reads(p, [loc[p] EXCEPT !.issue = issue, !.ready = label])
    /\ UNCHANGED to

PostComment(p) ==
    /\ Step(p, "post", "unlabel")
    /\ comments' = [comments EXCEPT ![Wanted(loc[p])] = @ + 1]
    /\ UNCHANGED <<store, pr, head, ci, issue, label, card, closed, to, loc>>

Unlabel(p) ==
    /\ Step(p, "unlabel", IF loc[p].issue = Wanted(loc[p]) THEN "confirm" ELSE "close")
    /\ label' = (label /\ ~(loc[p].complete /\ loc[p].ready))
    /\ UNCHANGED <<store, pr, head, ci, issue, comments, card, closed, to, loc>>

CloseIssue(p) ==
    /\ Step(p, "close", "confirm")
    /\ issue' = Wanted(loc[p])
    /\ UNCHANGED <<store, pr, head, ci, label, comments, card, closed, to, loc>>

Confirm(p) ==
    /\ Step(p, "confirm",
            IF issue = Wanted(loc[p]) /\ (loc[p].complete => ~label)
            THEN "card" ELSE "idle")
    /\ UNCHANGED <<store, provider, to, loc>>

-----------------------------------------------------------------------------
(* TrelloWorkItemFeedbackSink.sync, record_resolution *)

(* Wrong variant: the event without the card. *)
SyncNothing(p) ==
    /\ pc[p] = "card" /\ UNCHANGED setting
    /\ IF to[p] = "sync" THEN Return(p) ELSE Goto(p, "event") /\ UNCHANGED to
    /\ UNCHANGED <<store, provider, loc>>

SyncCard(p) ==
    /\ pc[p] = "card" /\ UNCHANGED setting
    /\ card' = IF HasCard THEN loc[p].phase ELSE card
    /\ IF to[p] = "sync" THEN Return(p) ELSE Goto(p, "event") /\ UNCHANGED to
    /\ UNCHANGED <<store, pr, head, ci, issue, label, comments, closed, loc>>

(* One event per reason; an identity that no longer matches is refused and *)
(* ends the pass.                                                          *)
Recordable(p) == task = "DONE" /\ row.run = loc[p].rrun /\ row.sha = loc[p].sha

RecordResolution(p) ==
    /\ pc[p] = "event"
    /\ IF Recordable(p)
       THEN events' = events \union {loc[p].reason} /\ Return(p)
       ELSE Goto(p, "idle") /\ UNCHANGED <<events, to>>
    /\ UNCHANGED <<task, blocked, run, runOk, row, provider, loc, setting>>

(* A call fails, its answer is lost, or the process stops: the pass ends   *)
(* ("human review reconciliation deferred").                               *)
Abort(p) ==
    /\ Fails
    /\ pc[p] # "idle" /\ Goto(p, "idle")
    /\ UNCHANGED <<store, provider, to, loc, sent>>

-----------------------------------------------------------------------------
(* People at the provider, and the rest of the factory *)

Decide(what) ==
    /\ what \in setting.people /\ setting.edits > 0
    /\ setting' = [setting EXCEPT !.edits = @ - 1]
    /\ UNCHANGED local

Push ==
    /\ Decide("push") /\ pr = "open" /\ head < setting.heads
    /\ head' = head + 1 /\ ci' = FALSE
    /\ UNCHANGED <<store, pr, issue, label, comments, card, closed>>

MovePr(what, from, st) ==
    /\ Decide(what) /\ pr = from /\ pr' = st
    /\ UNCHANGED <<store, head, ci, issue, label, comments, card, closed>>

(* CI and deployment of the current head pass; this takes no decision. *)
Checks ==
    /\ "ci" \in setting.people /\ ~ci /\ ci' = TRUE
    /\ UNCHANGED <<store, pr, head, issue, label, comments, card, closed, local,
                   setting>>

PersonCloses ==
    /\ Decide("issue") /\ issue = "open"
    /\ issue' \in Reasons /\ closed' = TRUE
    /\ UNCHANGED <<store, pr, head, ci, label, comments, card>>

PersonReopens ==
    /\ Decide("reopenIssue") /\ issue # "open" /\ issue' = "open"
    /\ UNCHANGED <<store, pr, head, ci, label, comments, card, closed>>

(* A review asks for changes. *)
AskForChanges ==
    /\ Decide("rework") /\ task = "WAITING_HUMAN" /\ pr = "open"
    /\ task' = "CHANGES_REQUESTED"
    /\ UNCHANGED <<blocked, run, runOk, row, events, provider>>

(* The next run starts, and ends. *)
StartRun ==
    /\ task = "CHANGES_REQUESTED" /\ task' = "RUNNING"
    /\ run' = run + 1 /\ runOk' = FALSE
    /\ UNCHANGED <<blocked, row, events, provider, local, setting>>

EndRun ==
    /\ task = "RUNNING"
    /\ \/ task' = "VALIDATING" /\ runOk' = TRUE
       \/ task' = "FAILED" /\ UNCHANGED runOk
    /\ UNCHANGED <<blocked, run, row, events, provider, local, setting>>

(* Its publication, which Delivery has in detail: the push, the row, the   *)
(* two edges of the task.                                                  *)
PushRun ==
    /\ task = "VALIDATING" /\ row.run # run /\ sent = 0 /\ pr = "open"
    /\ head' = head + 1 /\ ci' = FALSE /\ sent' = head + 1
    /\ UNCHANGED <<store, pr, issue, label, comments, card, closed, pc, to, loc,
                   setting>>

RecordRun ==
    /\ sent # 0 /\ sent' = 0
    /\ row' = [run |-> run, sha |-> sent, merged |-> FALSE]
    /\ UNCHANGED <<task, blocked, run, runOk, events, provider, pc, to, loc, setting>>

PassOn ==
    /\ row.run = run
    /\ \/ task = "VALIDATING" /\ task' = "PR_OPEN"
       \/ task = "PR_OPEN" /\ task' = "WAITING_HUMAN"
    /\ UNCHANGED <<blocked, run, runOk, row, events, provider, local, setting>>

Rework == AskForChanges \/ StartRun \/ EndRun \/ PushRun \/ RecordRun

-----------------------------------------------------------------------------

Pass(p) ==
  /\ UNCHANGED sent
  /\ \/ Begin(p) \/ ReadState(p) \/ CancelTask(p) \/ NoteCancel(p)
     \/ EnterFunction(p) \/ MatchRows(p) \/ ReadHead(p) \/ ReviseHead(p)
     \/ ReadIssue(p) \/ ReadFacts(p) \/ RecordMerged(p)
     \/ Resolve(p) \/ Reload(p) \/ ClearBlock(p)
     \/ FetchIssue(p) \/ PostComment(p) \/ Unlabel(p) \/ CloseIssue(p) \/ Confirm(p)
     \/ SyncCard(p) \/ RecordResolution(p)

Next ==
    \/ \E p \in Procs : Pass(p) \/ Abort(p)
    \/ Push \/ MovePr("merge", "open", "merged") \/ MovePr("close", "open", "closed")
    \/ MovePr("reopen", "closed", "open")
    \/ Checks \/ PersonCloses \/ PersonReopens \/ Rework \/ PassOn

Spec == Init /\ [][Next]_vars

(* run and watch repeat their passes and select what is PR_OPEN; CI ends. *)
FairSpec ==
    Spec /\ WF_vars(Checks) /\ WF_vars(PassOn) /\ \A p \in Procs : WF_vars(Pass(p))

-----------------------------------------------------------------------------
(* Properties *)

TypeOK ==
    /\ setting \in Setting
    /\ task \in TaskStatus /\ blocked \in BOOLEAN
    /\ run \in Nat /\ runOk \in BOOLEAN
    /\ row \in [run : Nat, sha : Nat, merged : BOOLEAN] /\ events \subseteq Reasons
    /\ pr \in {"open", "merged", "closed"} /\ head \in Nat /\ ci \in BOOLEAN
    /\ issue \in Reasons \union {"open"} /\ label \in BOOLEAN
    /\ comments \in [{"completed", "not_planned"} -> Nat]
    /\ card \in {"WAITING_HUMAN", "CLOSED", "FAILED", "DONE"} /\ closed \in BOOLEAN
    /\ pc \in [Procs -> Steps] /\ to \in [Procs -> {"sync", "external", "closure"}]
    /\ loc \in [Procs -> Local] /\ sent \in Nat

(* A task is DONE only on a decision the provider has confirmed: a merge   *)
(* with complete evidence for exactly the merged head, an Issue that a     *)
(* person closed, or the superseded marker - whatever was pushed, reworked *)
(* or failed to be read meanwhile.                                         *)
DoneIsDecided ==
    task = "DONE" => (pr = "merged" /\ ci) \/ closed \/ Superseded

(* A stored merge is the merge of the stored commit: stale heads, new      *)
(* revisions and passes of other processes never leave merged = 1 beside a *)
(* commit that the provider did not merge.                                 *)
MergedIsExact == row.merged => pr = "merged" /\ row.sha = head

(* A resolution event is the last thing a delivery writes: the task is     *)
(* DONE, its block is gone and its card is complete, across crashes and    *)
(* repeated passes of one process.  (A second process may write an older   *)
(* snapshot later; DeliverySettles says that this is repaired.)            *)
EventIsLast ==
    Cardinality(setting.procs) = 1 /\ events # {} =>
        task = "DONE" /\ ~blocked /\ (HasCard => card = "DONE")

(* "Writes one marker-based closure comment" (README.md): repeated or      *)
(* interrupted completions do not comment again.  Looking for the comment  *)
(* and posting it are two calls, so that each process may post one.        *)
OneClosureComment ==
    \A r \in DOMAIN comments : comments[r] <= Cardinality(setting.procs)

(* A merged Pull Request whose checks pass is delivered, and stays so:     *)
(* "repeated runs repair a previously DONE task whose Issue or card is     *)
(* still open" (README.md), whatever failed in the passes before, unless a *)
(* person asked for changes and merged nevertheless.                       *)
DeliverySettles ==
    pr = "merged" /\ "rework" \notin setting.people ~>
        [](/\ task = "DONE" /\ ~blocked /\ issue \in Reasons
           /\ events # {} /\ (HasCard => card = "DONE"))

(* What the factory records as delivered is what the provider decided on,  *)
(* to the exact revision (feedback.py _identity, reconcile_external).      *)
DeliveryIsExact == DoneIsDecided /\ MergedIsExact

(* A completion that is interrupted and repeated still ends with its event *)
(* and does not repeat its comment (feedback.py, issue_completion.py).     *)
CompletionIsOrderly == EventIsLast /\ OneClosureComment
=============================================================================
