------------------------------ MODULE GitPublish ------------------------------
(***************************************************************************)
(* Publication of one task's validated workspace, command by command       *)
(* (orchestration/publication.py over integrations/workspace/              *)
(* git_publish.py, revision.py, integrations/github/pull_requests.py and   *)
(* the review gate of integrations/security and persistence/security.py).  *)
(*                                                                         *)
(* Trees stand for file contents, a commit is an index into commits.       *)
(* The state of a process, pc:                                             *)
(*   idle, guard, review, rows      before anything is written             *)
(*   match                          rework: the Pull Request is still open *)
(*   check, status, add, commit, sha, subject, tree, push     git          *)
(*   find, post, lookup, persist    a new Pull Request and its row         *)
(*   record                         rework: the row gets the new revision  *)
(*   opened, waiting                the two lifecycle edges                *)
(*   failed, block, note            the runtime's answer to a failure      *)
(***************************************************************************)
EXTENDS Naturals, Sequences, FiniteSets, TaskLifecycle

CONSTANTS
    Procs,       \* factory processes
    Trees, Base, \* contents; Base is the base branch's
    Valid,       \* contents that pass every required gate
    Settings,    \* what may happen, by setting:
                 \*   procs   the processes that handle the task
                 \*   pool    they run in pool mode
                 \*   start   where the first run is, see Validation
                 \*   flagged contents with a critical finding
                 \*   faults  call, lost, review, crash; left: how many
                 \*   world   what others do: edit, agentCommit, close, push,
                 \*           base, rework, override, gone; edits: how often
    MaxRuns      \* bound: runs of the task

Setting ==
    [procs : SUBSET Procs, pool : BOOLEAN, start : {"running", "legacy", "bound"},
     flagged : SUBSET Trees, faults : SUBSET {"call", "lost", "review", "crash"},
     left : Nat, edits : Nat,
     world : SUBSET {"edit", "agentCommit", "close", "push", "base", "rework",
                     "override", "gone"}]

None == "none"

ASSUME GitPublishAssumption ==
    /\ Base \in Trees /\ Valid \subseteq Trees /\ None \notin Trees
    /\ MaxRuns \in Nat \ {0}
    /\ Settings \subseteq Setting /\ IsFiniteSet(Procs)

VARIABLES
    setting,            \* what may still happen
    tree, index, head,  \* the worktree: files, staged files, HEAD
    place,              \* it is on its "own" branch, on an "other", or "absent"
    commits,            \* every commit: content, author, ancestors
    remote,             \* provider: head of the branch, 0 before the first push
    open,               \* provider: Pull Requests by number, TRUE while open
    base,               \* the base branch's commit, a counter
    task, reason,       \* tasks: status, blocked_reason
    run, validated,     \* the latest run (ended), validated_revision by run
    row,                \* the pull_requests row of the branch
    reviews,            \* review events: <<name, run, base commit>>
    pc, loc,            \* processes
    pushed              \* history: <<run, commit>> of every push

git == <<tree, index, head, place, commits>>
provider == <<remote, open>>
store == <<task, reason, run, validated, row, reviews>>
vars == <<setting, git, provider, base, store, pc, loc, pushed>>

Commit == [tree : Trees, by : {"base", "agent", "factory", "person"}, past : SUBSET Nat]
Steps == {"idle", "guard", "review", "rows", "match", "check", "status", "add",
          "commit", "sha", "subject", "tree", "push", "find", "post", "lookup",
          "persist", "record", "opened", "waiting", "failed", "block", "note"}
NoRow == [run |-> 0, number |-> 0, sha |-> 0]
Local == [run : Nat, st : TaskStatus, prior : Nat, number : Nat, sha : Nat,
          why : {"security", "publication"}]
Nothing == [run |-> 0, st |-> "DONE", prior |-> 0, number |-> 0, sha |-> 0,
            why |-> "publication"]

(* Nothing is published.  The status of the task and the revision bound to *)
(* its first run are the validation's.                                     *)
Init ==
    /\ setting \in Settings
    /\ tree \in Trees \ {Base} /\ index = Base /\ head = 1 /\ place = "own"
    /\ commits = << [tree |-> Base, by |-> "base", past |-> {}] >>
    /\ remote = 0 /\ open = << >> /\ base = 0
    /\ reason = "none" /\ run = 1
    /\ row = NoRow /\ reviews = {}
    /\ pc = [p \in Procs |-> "idle"] /\ loc = [p \in Procs |-> Nothing]
    /\ pushed = {}

Goto(p, l) == pc' = [pc EXCEPT ![p] = l]
Step(p, from, l) == pc[p] = from /\ Goto(p, l) /\ UNCHANGED <<base, setting>>
Set(p, r) == loc' = [loc EXCEPT ![p] = r]
Fault(f) == /\ f \in setting.faults /\ setting.left > 0
            /\ setting' = [setting EXCEPT !.left = @ - 1]

(* A step that goes on if ok and is refused otherwise, and only reads. *)
Requires(p, from, ok, l) ==
    /\ Step(p, from, IF ok THEN l ELSE "failed")
    /\ UNCHANGED <<git, provider, store, pushed>>

Ancestry(c) == commits[c].past \union {c}
Committed(t, who, parent) ==
    Append(commits, [tree |-> t, by |-> who, past |-> Ancestry(parent)])

(* find_open_pull_request: open, from this branch into the base. *)
OpenPrs == {n \in DOMAIN open : open[n]}

-----------------------------------------------------------------------------
(* PublicationService.publish: guard, review, rows *)

(* The runtime has the latest run of a task that is to be published. *)
Start(p) ==
    /\ Step(p, "idle", "guard")
    /\ p \in setting.procs /\ task \in {"VALIDATING", "PR_OPEN"}
    /\ validated[run] # None
    /\ Set(p, [Nothing EXCEPT !.run = run])
    /\ UNCHANGED <<git, provider, store, pushed>>

(* A bound revision means green gates; the run must still be the latest. *)
Publishable(r) == r = run /\ validated[r] # None

Guard(p) ==
    /\ Requires(p, "guard", Publishable(loc[p].run),
                IF task = "WAITING_HUMAN" THEN "rows" ELSE "review")
    /\ Set(p, [loc[p] EXCEPT !.st = task])

(* Wrong variant: a decision counts for every run. *)
OverriddenAnyRun(r) == \E k \in 1..run : <<"Overridden", k, base>> \in reviews

(* A decision counts for one run, its revision and its base. *)
Overridden(r) == <<"Overridden", r, base>> \in reviews

(* The scan of the worktree against the base. *)
Verdict == IF tree \in setting.flagged THEN "Blocked" ELSE "Passed"

(* _append: one event per name, run and base. *)
Recorded(name, r) == reviews \union {<<name, r, base>>}

(* review: the verdict is recorded, and without one the review failed. *)
Review(p) ==
    /\ pc[p] = "review" /\ UNCHANGED <<git, provider, base, pushed>>
    /\ UNCHANGED <<task, reason, run, validated, row>>
    /\ \/ /\ UNCHANGED setting
          /\ reviews' = Recorded(Verdict, loc[p].run)
          /\ IF Verdict = "Passed" \/ Overridden(loc[p].run)
             THEN Goto(p, "rows") /\ UNCHANGED loc
             ELSE Goto(p, "block") /\ Set(p, [loc[p] EXCEPT !.why = "security"])
       \/ /\ Fault("review")
          /\ reviews' = reviews \union {<<"Unavailable", loc[p].run, 0>>}
          /\ Goto(p, "block") /\ Set(p, [loc[p] EXCEPT !.why = "security"])

(* Wrong variant: any row of the branch is taken for this run's. *)
RowsOfBranch(p) ==
    /\ Requires(p, "rows", row # NoRow \/ loc[p].st = "VALIDATING",
                IF row # NoRow THEN "opened" ELSE "check")
    /\ UNCHANGED loc

(* _existing_pull_request: a row of this run was published before. *)
Existing(r) == row # NoRow /\ row.run = r

(* _rework_pull_request: a row of the branch under an earlier run. *)
UnderReview(r) == row # NoRow /\ row.run # r

(* No row makes this a first publication. *)
Rows(p) ==
    LET mine == Existing(loc[p].run)
        rework == UnderReview(loc[p].run)
        active == loc[p].st = "VALIDATING"
    IN  /\ Requires(p, "rows",
                    IF rework THEN row.run # run ELSE mine \/ active,
                    IF mine \/ ~active THEN "opened"
                    ELSE IF rework THEN "match" ELSE "check")
        /\ Set(p, IF rework THEN [loc[p] EXCEPT !.prior = row.run, !.number = row.number]
                            ELSE loc[p])

(* Rework: the open Pull Request of the branch is the stored one. *)
Match(p) ==
    /\ Requires(p, "match", loc[p].number \in OpenPrs, "check")
    /\ UNCHANGED loc

-----------------------------------------------------------------------------
(* GitWorkspacePublisher.publish *)

(* fingerprint: what add and commit would publish now. *)
Fingerprint == tree

(* The worktree is on its branch and holds the validated revision. *)
Check(p) ==
    /\ Requires(p, "check", place = "own" /\ Fingerprint = validated[loc[p].run],
                "status")
    /\ UNCHANGED loc

HasChanges == tree # index \/ index # commits[head].tree

(* Wrong variant: git status is not looked at. *)
StatusAlways(p) == Requires(p, "status", TRUE, "add") /\ UNCHANGED loc

(* A git status that exits with an error says that there are no changes    *)
(* (one that times out is CallFails).                                      *)
Status(p) ==
    /\ pc[p] = "status"
    /\ \/ Goto(p, IF HasChanges THEN "add" ELSE "sha") /\ UNCHANGED setting
       \/ Goto(p, "sha") /\ Fault("call")
    /\ UNCHANGED <<git, provider, base, store, loc, pushed>>

Add(p) ==
    /\ Step(p, "add", "commit")
    /\ index' = tree
    /\ UNCHANGED <<tree, head, place, commits, provider, store, loc, pushed>>

(* git refuses an empty commit. *)
CommitIndex(p) ==
    /\ Step(p, "commit", IF index # commits[head].tree THEN "sha" ELSE "failed")
    /\ IF index # commits[head].tree
       THEN commits' = Committed(index, "factory", head) /\ head' = Len(commits) + 1
       ELSE UNCHANGED <<commits, head>>
    /\ UNCHANGED <<tree, index, place, provider, store, loc, pushed>>

ReadSha(p) ==
    /\ Requires(p, "sha", TRUE, "subject")
    /\ Set(p, [loc[p] EXCEPT !.sha = head])

(* HEAD is read again for its message. *)
ReadSubject(p) ==
    /\ Requires(p, "subject", commits[head].by = "factory", "tree")
    /\ UNCHANGED loc

CheckTree(p) ==
    /\ Requires(p, "tree", commits[loc[p].sha].tree = validated[loc[p].run], "push")
    /\ UNCHANGED loc

(* The commit goes to the branch of the same name, without force. *)
Accepted(c) == remote = 0 \/ remote \in Ancestry(c)

Pushes(p, c) ==
    /\ remote' = IF Accepted(c) THEN c ELSE remote
    /\ pushed' = IF Accepted(c) THEN pushed \union {<<loc[p].run, c>>} ELSE pushed
    /\ UNCHANGED <<git, open, store, base>>

Push(p) ==
    /\ pc[p] = "push" /\ UNCHANGED loc
    /\ \/ /\ UNCHANGED setting
          /\ Goto(p, IF ~Accepted(loc[p].sha) THEN "failed"
                     ELSE IF loc[p].prior = 0 THEN "find" ELSE "record")
       \/ Fault("lost") /\ Goto(p, "failed")
    /\ Pushes(p, loc[p].sha)

-----------------------------------------------------------------------------
(* The Pull Request and its row *)

FindOpen(p) ==
    /\ Requires(p, "find", TRUE, IF OpenPrs # {} THEN "persist" ELSE "post")
    /\ Set(p, [loc[p] EXCEPT !.number = IF OpenPrs # {} THEN CHOOSE n \in OpenPrs : TRUE
                                                       ELSE 0])

(* The provider refuses a second open Pull Request of the branch; a create *)
(* without a usable answer is looked up.                                   *)
Post(p) ==
    /\ pc[p] = "post"
    /\ open' = IF OpenPrs = {} THEN Append(open, TRUE) ELSE open
    /\ \/ /\ UNCHANGED setting
          /\ Goto(p, IF OpenPrs = {} THEN "persist" ELSE "lookup")
          /\ Set(p, [loc[p] EXCEPT !.number = Len(open')])
       \/ Fault("lost") /\ Goto(p, "lookup") /\ UNCHANGED loc
    /\ UNCHANGED <<git, remote, base, store, pushed>>

Lookup(p) ==
    /\ Requires(p, "lookup", OpenPrs # {}, "persist")
    /\ Set(p, [loc[p] EXCEPT !.number = IF OpenPrs # {} THEN CHOOSE n \in OpenPrs : TRUE
                                                       ELSE 0])

(* A row that is there already must be this run's. *)
Persist(p) ==
    /\ Step(p, "persist", IF row = NoRow \/ row.run = loc[p].run THEN "opened" ELSE "failed")
    /\ row' = IF row = NoRow
              THEN [run |-> loc[p].run, number |-> loc[p].number, sha |-> loc[p].sha]
              ELSE row
    /\ UNCHANGED <<git, provider, task, reason, run, validated, reviews, loc, pushed>>

(* record_revision: the row still has the run it was read with. *)
Record(p) ==
    /\ Step(p, "record", IF row.run = loc[p].prior THEN "opened" ELSE "failed")
    /\ row' = IF row.run = loc[p].prior
              THEN [row EXCEPT !.run = loc[p].run, !.sha = loc[p].sha] ELSE row
    /\ UNCHANGED <<git, provider, task, reason, run, validated, reviews, loc, pushed>>

(* _reconcile: each edge only from its own source status. *)
Opened(p) ==
    /\ Step(p, "opened", "waiting")
    /\ task' = IF task = "VALIDATING" THEN "PR_OPEN" ELSE task
    /\ UNCHANGED <<git, provider, reason, run, validated, row, reviews, loc, pushed>>

Waiting(p) ==
    /\ Step(p, "waiting", "idle")
    /\ task' = IF task = "PR_OPEN" THEN "WAITING_HUMAN" ELSE task
    /\ UNCHANGED <<git, provider, reason, run, validated, row, reviews, loc, pushed>>

-----------------------------------------------------------------------------
(* Failures *)

(* A git, provider or store call fails. *)
CallFails(p) ==
    /\ pc[p] \in {"match", "check", "status", "add", "commit", "sha", "subject",
                  "tree", "push", "find", "post", "lookup", "persist", "record"}
    /\ Fault("call") /\ Goto(p, "failed")
    /\ UNCHANGED <<git, provider, base, store, loc, pushed>>

Crash(p) ==
    /\ pc[p] # "idle" /\ Fault("crash") /\ Goto(p, "idle")
    /\ UNCHANGED <<git, provider, base, store, loc, pushed>>

(* _block_failed_publication: only in pool mode, and only for a task whose *)
(* latest run is this one and has no row.                                  *)
Failed(p) ==
    /\ Step(p, "failed", IF setting.pool /\ task = "VALIDATING" /\ run = loc[p].run
                            /\ row.run # loc[p].run
                         THEN "block" ELSE "idle")
    /\ Set(p, [loc[p] EXCEPT !.why = "publication"])
    /\ UNCHANGED <<git, provider, store, pushed>>

(* _block: the transition, then the reason with the row as it was read. *)
Block(p) ==
    LET legal == task = "BLOCKED" \/ CanTransition(task, "BLOCKED")
    IN  /\ Step(p, "block", IF legal THEN "note" ELSE "idle")
        /\ task' = IF legal THEN "BLOCKED" ELSE task
        /\ UNCHANGED <<git, provider, reason, run, validated, row, reviews, loc, pushed>>

Note(p) ==
    /\ Step(p, "note", "idle")
    /\ task' = "BLOCKED" /\ reason' = loc[p].why
    /\ UNCHANGED <<git, provider, run, validated, row, reviews, loc, pushed>>

-----------------------------------------------------------------------------
(* The operator *)

(* retry: only the marker of a failed publication of the latest run; the   *)
(* reason stays in the row.                                                *)
Retry ==
    /\ task = "BLOCKED" /\ reason = "publication"
    /\ task' = "VALIDATING"
    /\ UNCHANGED <<git, provider, base, reason, run, validated, row, reviews, pc, loc,
                   pushed, setting>>

(* record_override: only a critical verdict that is recorded. *)
Decision(r) == IF Verdict = "Blocked" THEN {<<"Overridden", r, base>>} ELSE {}

(* security-override: the scan is repeated before the decision. *)
Override ==
    /\ "override" \in setting.world
    /\ task = "BLOCKED" /\ reason = "security"
    /\ reviews' = Recorded(Verdict, run) \union Decision(run)
    /\ task' = IF Verdict = "Blocked" THEN "VALIDATING" ELSE task
    /\ UNCHANGED <<git, provider, base, reason, run, validated, row, pc, loc, pushed,
                   setting>>

-----------------------------------------------------------------------------
(* What others do meanwhile *)

Other(what) ==
    /\ what \in setting.world /\ setting.edits > 0
    /\ setting' = [setting EXCEPT !.edits = @ - 1]
    /\ UNCHANGED <<pc, loc, pushed>>

(* A process the agent left behind edits files or commits. *)
Edit ==
    /\ Other("edit")
    /\ tree' \in Trees \ {tree}
    /\ UNCHANGED <<index, head, place, commits, provider, base, store>>

AgentCommits ==
    /\ Other("agentCommit") /\ tree # commits[head].tree
    /\ index' = tree /\ commits' = Committed(tree, "agent", head)
    /\ head' = Len(commits) + 1
    /\ UNCHANGED <<tree, place, provider, base, store>>

ClosePr ==
    /\ Other("close")
    /\ \E n \in OpenPrs : open' = [open EXCEPT ![n] = FALSE]
    /\ UNCHANGED <<git, remote, base, store>>

PersonPushes ==
    /\ Other("push") /\ remote # 0
    /\ \E t \in Trees : commits' = Committed(t, "person", remote)
    /\ remote' = Len(commits) + 1
    /\ UNCHANGED <<tree, index, head, place, open, base, store>>

BaseMoves ==
    /\ Other("base") /\ base' = base + 1
    /\ UNCHANGED <<git, provider, store>>

(* The worktree is lost, or switched, before it was validated. *)
Lose ==
    /\ "gone" \in setting.world /\ validated[run] = None
    /\ place = "own" /\ place' \in {"other", "absent"}
    /\ UNCHANGED <<setting, tree, index, head, commits, provider, base, store, pc, loc,
                   pushed>>

(* A review asks for changes: a further run in the same worktree ends with *)
(* green gates and a bound revision.                                       *)
Rework ==
    /\ Other("rework") /\ task = "WAITING_HUMAN" /\ run < MaxRuns
    /\ run' = run + 1 /\ task' = "VALIDATING"
    /\ tree' \in Valid /\ validated' = Append(validated, tree')
    /\ UNCHANGED <<index, head, place, commits, provider, base, reason, row, reviews>>

-----------------------------------------------------------------------------

Pass(p) ==
    \/ Start(p) \/ Guard(p) \/ Review(p) \/ Rows(p) \/ Match(p)
    \/ Check(p) \/ Status(p) \/ Add(p) \/ CommitIndex(p) \/ ReadSha(p)
    \/ ReadSubject(p) \/ CheckTree(p) \/ Push(p)
    \/ FindOpen(p) \/ Post(p) \/ Lookup(p) \/ Persist(p) \/ Record(p)
    \/ Opened(p) \/ Waiting(p) \/ Failed(p) \/ Block(p) \/ Note(p)

Others ==
    \/ Retry \/ Override
    \/ Edit \/ AgentCommits \/ ClosePr \/ PersonPushes \/ BaseMoves \/ Rework \/ Lose

-----------------------------------------------------------------------------
(* Properties *)

TypeOK ==
    /\ setting \in Setting
    /\ tree \in Trees /\ index \in Trees /\ place \in {"own", "other", "absent"}
    /\ commits \in Seq(Commit) /\ head \in DOMAIN commits
    /\ remote \in {0} \union DOMAIN commits /\ open \in Seq(BOOLEAN) /\ base \in Nat
    /\ task \in {"RUNNING", "READY", "VALIDATING", "PR_OPEN", "WAITING_HUMAN",
                 "BLOCKED"}
    /\ reason \in {"none", "security", "publication"}
    /\ run \in 1..MaxRuns /\ validated \in Seq(Trees \union {None}) /\ Len(validated) = run
    /\ row \in [run : Nat, number : Nat, sha : Nat]
    /\ reviews \subseteq {"Passed", "Blocked", "Overridden", "Unavailable"} \X Nat \X Nat
    /\ pc \in [Procs -> Steps] /\ loc \in [Procs -> Local]
    /\ pushed \subseteq (1..run) \X DOMAIN commits

(* Every commit the factory pushes holds exactly the content that passed   *)
(* the gates of its run, whatever is edited or committed between the       *)
(* checks, the commit and the push, and however often a pass is repeated.  *)
PublishedIsValidated ==
    \A x \in pushed : commits[x[2]].tree = validated[x[1]]

(* Nothing is pushed for a run without a recorded review of that run that  *)
(* passed, or was blocked and explicitly overridden.                       *)
PublishedWasReviewed ==
    \A x \in pushed : \E b \in 0..base :
        \/ <<"Passed", x[1], b>> \in reviews
        \/ {<<"Blocked", x[1], b>>, <<"Overridden", x[1], b>>} \subseteq reviews

(* The stored Pull Request names a push of its own run that is still in    *)
(* the branch: no push rewrites what a person or an earlier run put there, *)
(* and no crash or rework leaves a row for something else.                 *)
RowIsPublished ==
    row # NoRow => /\ <<row.run, row.sha>> \in pushed
                   /\ row.sha \in Ancestry(remote)
                   /\ row.number \in DOMAIN open

(* What a person pushed to the branch under review stays in it: the next   *)
(* run's push is refused rather than dropping it.                          *)
PersonsWorkKept ==
    \A c \in DOMAIN commits : commits[c].by = "person" => c \in Ancestry(remote)

(* "Drive an already-published task to WAITING_HUMAN" (publication.py): a  *)
(* person is asked to review the latest run, not an earlier one, as long as*)
(* one process handles the task.                                           *)
HumanSeesLatest ==
    Cardinality(setting.procs) = 1 /\ task = "WAITING_HUMAN" => row.run = run

(* Nobody else touches the worktree or the branch, and no crash separates  *)
(* the two writes of a block (runtime.py _block).                          *)
Undisturbed ==
    /\ setting.world \subseteq {"base", "rework", "override"}
    /\ "review" \notin setting.faults
    /\ "crash" \in setting.faults => ~setting.pool /\ setting.flagged = {}

(* A publication settles: each crash window A to F, each lost answer and   *)
(* each failed call is repaired by repeating the pass (publication.py).    *)
PublicationSettles ==
    (Undisturbed /\ task = "VALIDATING") ~> task \in {"WAITING_HUMAN", "READY"}
=============================================================================
