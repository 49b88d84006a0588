---------------------------- MODULE DeliveryProofs ----------------------------
(***************************************************************************)
(* What holds of validation and publication for any contents, gates,       *)
(* settings, runs and processes.                                           *)
(*                                                                         *)
(* The argument has four parts.                                            *)
(*                                                                         *)
(* History: commits are only added and know all their ancestors, and a     *)
(* push is accepted only over its ancestors; so what the branch held once  *)
(* it holds for ever (Ordered, Kept).                                      *)
(*                                                                         *)
(* Hands: what a process has in its local values was true when it was read *)
(* and cannot become false: a commit it made, a push it did, a Pull        *)
(* Request that exists, a review that is recorded (InHand, ReviewInHand).  *)
(*                                                                         *)
(* Revision: a validation is under way only while nothing is bound, so a   *)
(* bound revision never changes (Bound).  This needs that one process      *)
(* validates the run, or that it is bound already: two processes that      *)
(* validate it at once overwrite each other's row.                         *)
(*                                                                         *)
(* Gates: between the two fingerprints either nothing was written, and     *)
(* every green gate is green for the revision, or the second fingerprint   *)
(* differs (Gated).  This needs that the files change at most once before  *)
(* the revision is bound: a change that is undone is not noticed.          *)
(***************************************************************************)
EXTENDS Delivery, TLAPS, FiniteSetTheorems

(* Commits know their ancestors. *)
Ordered ==
    \A c \in DOMAIN commits :
        /\ commits[c].past \subseteq 1..(c - 1)
        /\ \A d \in commits[c].past : commits[d].past \subseteq commits[c].past

(* What was pushed is in the branch. *)
Kept ==
    /\ \A x \in pushed : remote # 0 /\ x[2] \in Ancestry(remote)
    /\ \A c \in DOMAIN commits :
          commits[c].by = "person" => remote # 0 /\ c \in Ancestry(remote)

(* What a process holds of the run, the commit and the Pull Request. *)
InHand(p) ==
    /\ pc[p] # "idle" => loc[p].run \in 1..run
    /\ pc[p] \in {"subject", "tree", "push"} => loc[p].sha \in DOMAIN commits
    /\ pc[p] \in {"find", "post", "lookup", "persist", "record"} =>
          <<loc[p].run, loc[p].sha>> \in pushed
    /\ pc[p] = "persist" => loc[p].number \in DOMAIN open
    /\ pc[p] = "record" => loc[p].prior # 0

(* The run's content passed a review, or a person decided on it. *)
Reviewed(r) ==
    \E b \in 0..base :
        \/ <<"Passed", r, b>> \in reviews
        \/ {<<"Blocked", r, b>>, <<"Overridden", r, b>>} \subseteq reviews

ReviewInHand(p) ==
    \/ pc[p] = "rows" /\ loc[p].st = "VALIDATING"
    \/ pc[p] \in {"match", "check", "status", "add", "commit", "sha", "subject", "tree",
                  "push"}
    => Reviewed(loc[p].run)

Hands == \A p \in Procs : InHand(p) /\ ReviewInHand(p)

(* Each gate of a validation runs once, in turn. *)
Counted ==
    \A p \in Procs :
        /\ vpc[p] \in {"repair", "before"} => vloc[p].gates = << >>
        /\ vpc[p] = "gate" => Len(vloc[p].gates) < Len(Specs)
        /\ vpc[p] = "after" => Len(vloc[p].gates) = Len(Specs)

PublishInv == /\ DeliveryTypeOK /\ Counted /\ Ordered /\ Kept /\ Hands
              /\ RowIsPublished /\ PublishedWasReviewed

-----------------------------------------------------------------------------

(* Nobody else validates the run. *)
Sole(s) == s.start = "bound" \/ \E p \in Procs : s.procs = {p}

Validating == {"repair", "before", "gate", "after", "store"}

(* A bound revision is green and final. *)
Bound ==
    /\ status = "RUNNING" => validated[1] = None
    /\ validated[1] # None => V!RequiredGreen(gates)
    /\ \A p \in Procs :
          /\ vpc[p] = "store" /\ vloc[p].before # None => V!RequiredGreen(vloc[p].gates)
          /\ pc[p] # "idle" \/ vpc[p] # "idle" => p \in setting.procs
    /\ setting.start = "bound" => validated[1] # None

BoundStays ==
    Sole(setting) =>
        /\ \A p \in Procs :
              /\ vpc[p] \in Validating => validated[1] = None
              /\ pc[p] # "idle" => vpc[p] = "idle" /\ validated[1] # None
              /\ pc[p] = "push" => commits[loc[p].sha].tree = validated[loc[p].run]
        /\ \A r \in 2..run : validated[r] # None
        /\ run > 1 \/ task \in {"PR_OPEN", "WAITING_HUMAN"} => validated[1] # None
        /\ PublishedIsValidated

(* What a process that works alone has behind it. *)
Alone(p) ==
    /\ task \in {"PR_OPEN", "WAITING_HUMAN"} => row.run = run
    /\ pc[p] # "idle" => task # "WAITING_HUMAN" /\ loc[p].run = run
    /\ pc[p] = "opened" => row.run = run
    /\ pc[p] \in {"guard", "review", "rows"} => task \in {"VALIDATING", "PR_OPEN"}
    /\ pc[p] \in {"review", "rows"} => loc[p].st = task

AloneIsCurrent == \A p \in Procs : setting.procs = {p} => Alone(p)

BoundInv == PublishInv /\ Bound /\ BoundStays /\ AloneIsCurrent

-----------------------------------------------------------------------------

(* The files change at most once before the revision is bound. *)
Quiet(s) == s.start = "bound" \/ s.edits <= 1 \/ "edit" \notin s.world

NoMoreEdits == setting.edits = 0 \/ "edit" \notin setting.world

(* What the gates of a validation under way say of the revision. *)
GatesTrue(p) ==
    LET l == vloc[p] IN
    /\ vpc[p] \in {"gate", "after"} =>
          /\ l.before \in Trees
          /\ \A i \in 1..Len(l.gates) : l.gates[i].required = (Specs[i] \in Required)
          /\ \/ /\ tree = l.before
                /\ \A i \in 1..Len(l.gates) :
                      l.gates[i].green => <<Specs[i], l.before>> \in Passing
             \/ tree # l.before /\ NoMoreEdits
    /\ vpc[p] = "store" => l.before \in Valid \union {None}

Gated ==
    /\ Sole(setting) /\ Quiet(setting)
    /\ \A p \in Procs : GatesTrue(p)
    /\ \A r \in 1..run : validated[r] \in Valid \union {None}

-----------------------------------------------------------------------------
(* Types and frames *)

(* A new commit goes to the end; it knows its parent and all its           *)
(* ancestors (git commit).                                                 *)
LEMMA CommitEffect ==
    ASSUME TypeOK, NEW t \in Trees, NEW who \in {"base", "agent", "factory", "person"},
           NEW parent \in DOMAIN commits, commits' = Committed(t, who, parent)
    PROVE  /\ commits' \in Seq(Commit) /\ Len(commits) \in Nat
           /\ DOMAIN commits = 1..Len(commits)
           /\ DOMAIN commits' = 1..(Len(commits) + 1)
           /\ \A c \in 1..Len(commits) : commits'[c] = commits[c]
           /\ commits'[Len(commits) + 1] = [tree |-> t, by |-> who, past |-> Ancestry(parent)]
<1>1. commits \in Seq(Commit) /\ Len(commits) \in Nat /\ DOMAIN commits = 1..Len(commits)
  BY DEF TypeOK
<1>2. commits[parent] \in Commit
  BY <1>1
<1>3. Ancestry(parent) \in SUBSET Nat
  BY <1>1, <1>2 DEF Ancestry, Commit
<1>4. [tree |-> t, by |-> who, past |-> Ancestry(parent)] \in Commit
  BY <1>3 DEF Commit
<1> QED
  BY <1>1, <1>4 DEF Committed

(* What may happen besides its budgets never changes; edits only decrease. *)
SameSetting ==
    /\ setting'.procs = setting.procs /\ setting'.start = setting.start
    /\ setting'.world = setting.world /\ setting'.edits <= setting.edits

(* A fault uses up one of the setting's. *)
LEMMA FaultType ==
    ASSUME TypeOK, NEW f, Fault(f)
    PROVE  setting' \in Setting /\ SameSetting
<1>1. setting' = [setting EXCEPT !.left = setting.left - 1] /\ setting.left > 0
  BY DEF Fault
<1>2. setting \in Setting
  BY DEF TypeOK
<1>3. setting.left - 1 \in Nat
  BY <1>1, <1>2 DEF Setting
<1> QED
  BY <1>1, <1>2, <1>3 DEF Setting, SameSetting

(* A change by others uses up one of its edits. *)
LEMMA EditType ==
    ASSUME TypeOK, setting.edits > 0, setting' = [setting EXCEPT !.edits = @ - 1]
    PROVE  setting' \in Setting /\ SameSetting /\ setting'.edits = setting.edits - 1
<1>1. setting' = [setting EXCEPT !.edits = setting.edits - 1]
  OBVIOUS
<1>2. setting \in Setting
  BY DEF TypeOK
<1>3. setting.edits - 1 \in Nat /\ setting.edits \in Nat
  BY <1>1, <1>2 DEF Setting
<1> QED
  BY <1>1, <1>2, <1>3 DEF Setting, SameSetting

(* A process goes on. *)
LEMMA GotoType ==
    ASSUME TypeOK, NEW p \in Procs, NEW l \in Steps, Goto(p, l)
    PROVE  /\ pc' \in [Procs -> Steps] /\ pc'[p] = l
           /\ \A q \in Procs \ {p} : pc'[q] = pc[q]
  BY DEF TypeOK, Goto

(* The values a process keeps. *)
LEMMA SetType ==
    ASSUME TypeOK, NEW p \in Procs, NEW r \in Local, Set(p, r)
    PROVE  /\ loc' \in [Procs -> Local] /\ loc'[p] = r
           /\ \A q \in Procs \ {p} : loc'[q] = loc[q]
  BY DEF TypeOK, Set

(* A step of a publication is typed and leaves the other processes alone. *)
Framed(p) ==
    /\ TypeOK' /\ SameSetting
    /\ \A q \in Procs \ {p} : pc'[q] = pc[q] /\ loc'[q] = loc[q]

(* What a process keeps of a step that only reads. *)
LocalStep(p) ==
    /\ setting' \in Setting /\ SameSetting
    /\ pc' \in [Procs -> Steps] /\ loc' \in [Procs -> Local]
    /\ \A q \in Procs \ {p} : pc'[q] = pc[q] /\ loc'[q] = loc[q]

(* A setting that is left alone is the same setting. *)
LEMMA SettingStays ==
    ASSUME TypeOK, UNCHANGED setting
    PROVE  setting' \in Setting /\ SameSetting
<1>1. setting \in Setting
  BY DEF TypeOK
<1>2. setting.edits \in Nat
  BY <1>1 DEF Setting
<1> QED
  BY <1>1, <1>2 DEF SameSetting

(* Steps of the publication before git (publication.py). *)
LEMMA EarlyLocal ==
    ASSUME TypeOK, NEW p \in Procs,
           Start(p) \/ Guard(p) \/ Review(p) \/ Rows(p) \/ Match(p)
    PROVE  LocalStep(p)
<1> USE DEF LocalStep
<1>0. loc[p] \in Local /\ task \in TaskStatus /\ run \in Nat
      /\ row.run \in Nat /\ row.number \in Nat
  BY DEF TypeOK, TaskStatus
<1>1. CASE Start(p)
  <2>1. [Nothing EXCEPT !.run = run] \in Local
    BY <1>0 DEF Nothing, Local, TaskStatus
  <2> QED
    BY <1>1, <2>1, SettingStays, GotoType, SetType DEF Start, Step, Steps
<1>2. CASE Guard(p)
  <2>1. [loc[p] EXCEPT !.st = task] \in Local
    BY <1>0 DEF Local
  <2>2. PICK l \in Steps : Goto(p, l)
    BY <1>2 DEF Guard, Requires, Step, Steps
  <2> QED
    BY <1>2, <2>1, <2>2, SettingStays, GotoType, SetType DEF Guard, Requires, Step
<1>3. CASE Review(p)
  <2>1. [loc[p] EXCEPT !.why = "security"] \in Local
    BY <1>0 DEF Local
  <2>2. setting' \in Setting /\ SameSetting
    BY <1>3, SettingStays, FaultType DEF Review
  <2>3. CASE Goto(p, "rows") /\ UNCHANGED loc
    BY <2>2, <2>3, GotoType DEF Steps, TypeOK
  <2>4. CASE Goto(p, "block") /\ Set(p, [loc[p] EXCEPT !.why = "security"])
    BY <2>1, <2>2, <2>4, GotoType, SetType DEF Steps
  <2> QED
    BY <1>3, <2>3, <2>4 DEF Review
<1>4. CASE Rows(p)
  <2>1. [loc[p] EXCEPT !.prior = row.run, !.number = row.number] \in Local
    BY <1>0 DEF Local
  <2>2. PICK l \in Steps : Goto(p, l)
    BY <1>4 DEF Rows, Requires, Step, Steps
  <2>3. PICK r \in Local : Set(p, r)
    BY <1>0, <1>4, <2>1 DEF Rows
  <2> QED
    BY <1>4, <2>2, <2>3, SettingStays, GotoType, SetType DEF Rows, Requires, Step
<1>5. CASE Match(p)
  <2>2. PICK l \in Steps : Goto(p, l)
    BY <1>5 DEF Match, Requires, Step, Steps
  <2> QED
    BY <1>5, <2>2, SettingStays, GotoType DEF Match, Requires, Step, TypeOK
<1> QED
  BY <1>1, <1>2, <1>3, <1>4, <1>5

(* Steps of git (git_publish.py). *)
LEMMA GitLocal ==
    ASSUME TypeOK, NEW p \in Procs,
           \/ Check(p) \/ Status(p) \/ Add(p) \/ CommitIndex(p) \/ ReadSha(p)
           \/ ReadSubject(p) \/ CheckTree(p) \/ Push(p)
    PROVE  LocalStep(p)
<1> USE DEF LocalStep
<1>0. loc[p] \in Local /\ head \in Nat /\ loc \in [Procs -> Local]
  BY DEF TypeOK
<1>1. CASE Check(p) \/ Add(p) \/ CommitIndex(p) \/ ReadSubject(p) \/ CheckTree(p)
  <2>1. PICK l \in Steps : Goto(p, l)
    BY <1>1 DEF Check, Add, CommitIndex, ReadSubject, CheckTree, Requires, Step, Steps
  <2>2. UNCHANGED <<setting, loc>>
    BY <1>1 DEF Check, Add, CommitIndex, ReadSubject, CheckTree, Requires, Step
  <2> QED
    BY <1>0, <2>1, <2>2, SettingStays, GotoType
<1>2. CASE ReadSha(p)
  <2>1. [loc[p] EXCEPT !.sha = head] \in Local
    BY <1>0 DEF Local
  <2>2. PICK l \in Steps : Goto(p, l)
    BY <1>2 DEF ReadSha, Requires, Step, Steps
  <2> QED
    BY <1>2, <2>1, <2>2, SettingStays, GotoType, SetType DEF ReadSha, Requires, Step
<1>3. CASE Status(p) \/ Push(p)
  <2>1. PICK l \in Steps : Goto(p, l)
    BY <1>3 DEF Status, Push, Steps
  <2>2. UNCHANGED loc
    BY <1>3 DEF Status, Push
  <2>3. setting' \in Setting /\ SameSetting
    BY <1>3, SettingStays, FaultType DEF Status, Push
  <2> QED
    BY <1>0, <2>1, <2>2, <2>3, GotoType
<1> QED
  BY <1>1, <1>2, <1>3

(* Steps of the Pull Request, the lifecycle and failures. *)
LEMMA LateLocal ==
    ASSUME TypeOK, NEW p \in Procs,
           \/ FindOpen(p) \/ Post(p) \/ Lookup(p) \/ Persist(p) \/ Record(p)
           \/ Opened(p) \/ Waiting(p) \/ Failed(p) \/ Block(p) \/ Note(p)
           \/ CallFails(p) \/ Crash(p)
    PROVE  LocalStep(p)
<1> USE DEF LocalStep
<1>0. loc[p] \in Local /\ loc \in [Procs -> Local]
      /\ open \in Seq(BOOLEAN) /\ Len(open) \in Nat
  BY DEF TypeOK
<1>n. OpenPrs # {} => (CHOOSE n \in OpenPrs : TRUE) \in Nat
  BY <1>0 DEF OpenPrs
<1>1. CASE FindOpen(p) \/ Lookup(p)
  <2> DEFINE n == IF OpenPrs # {} THEN CHOOSE n \in OpenPrs : TRUE ELSE 0
  <2>0. n \in Nat
    BY <1>n
  <2>a. Set(p, [loc[p] EXCEPT !.number = n])
    BY <1>1 DEF FindOpen, Lookup
  <2> HIDE DEF n
  <2>1. [loc[p] EXCEPT !.number = n] \in Local
    BY <1>0, <2>0 DEF Local
  <2>2. PICK l \in Steps : Goto(p, l)
    BY <1>1 DEF FindOpen, Lookup, Requires, Step, Steps
  <2> QED
    BY <1>1, <2>1, <2>2, <2>a, SettingStays, GotoType, SetType
       DEF FindOpen, Lookup, Requires, Step
<1>2. CASE Post(p)
  <2>0. Len(open') \in Nat
    BY <1>0, <1>2 DEF Post
  <2>1. [loc[p] EXCEPT !.number = Len(open')] \in Local
    BY <1>0, <2>0 DEF Local
  <2>2. PICK l \in Steps : Goto(p, l)
    BY <1>2 DEF Post, Steps
  <2>3. setting' \in Setting /\ SameSetting
    BY <1>2, SettingStays, FaultType DEF Post
  <2>4. UNCHANGED loc \/ Set(p, [loc[p] EXCEPT !.number = Len(open')])
    BY <1>2 DEF Post
  <2> QED
    BY <1>0, <2>1, <2>2, <2>3, <2>4, GotoType, SetType
<1>3. CASE Persist(p) \/ Record(p) \/ Opened(p) \/ Waiting(p) \/ Block(p) \/ Note(p)
  <2>1. PICK l \in Steps : Goto(p, l)
    BY <1>3 DEF Persist, Record, Opened, Waiting, Block, Note, Step, Steps
  <2>2. UNCHANGED <<setting, loc>>
    BY <1>3 DEF Persist, Record, Opened, Waiting, Block, Note, Step
  <2> QED
    BY <1>0, <2>1, <2>2, SettingStays, GotoType
<1>4. CASE Failed(p)
  <2>1. [loc[p] EXCEPT !.why = "publication"] \in Local
    BY <1>0 DEF Local
  <2>2. PICK l \in Steps : Goto(p, l)
    BY <1>4 DEF Failed, Step, Steps
  <2> QED
    BY <1>4, <2>1, <2>2, SettingStays, GotoType, SetType DEF Failed, Step
<1>5. CASE CallFails(p) \/ Crash(p)
  <2>1. PICK l \in Steps : Goto(p, l)
    BY <1>5 DEF CallFails, Crash, Steps
  <2>2. setting' \in Setting /\ SameSetting /\ UNCHANGED loc
    BY <1>5, FaultType DEF CallFails, Crash
  <2> QED
    BY <1>0, <2>1, <2>2, GotoType
<1> QED
  BY <1>1, <1>2, <1>3, <1>4, <1>5

(* The steps of a publication that change nothing but the process. *)
Reading(p) ==
    \/ Start(p) \/ Guard(p) \/ Rows(p) \/ Match(p) \/ Check(p) \/ Status(p)
    \/ ReadSha(p) \/ ReadSubject(p) \/ CheckTree(p) \/ FindOpen(p) \/ Lookup(p)
    \/ Failed(p) \/ CallFails(p) \/ Crash(p)

shared == <<git, provider, base, store, pushed>>

(* They leave everything else as it is. *)
LEMMA ReadingIsLocal ==
    ASSUME NEW p \in Procs, Reading(p)
    PROVE  UNCHANGED shared
  BY DEF Reading, Start, Guard, Rows, Match, Check, Status, ReadSha, ReadSubject,
         CheckTree, FindOpen, Lookup, Failed, CallFails, Crash, Requires, Step, shared

PublicationStep(p) == Pass(p) \/ CallFails(p) \/ Crash(p)

(* A step of a publication keeps to its process's place. *)
LEMMA PublicationLocal ==
    ASSUME TypeOK, NEW p \in Procs, PublicationStep(p)
    PROVE  LocalStep(p)
  BY EarlyLocal, GitLocal, LateLocal DEF PublicationStep, Pass

(* Every step of a publication is typed. *)
LEMMA PublicationFrame ==
    ASSUME TypeOK, NEW p \in Procs, InHand(p), PublicationStep(p)
    PROVE  Framed(p)
<1>1. LocalStep(p)
  BY PublicationLocal
<1> SUFFICES TypeOK'
  BY <1>1 DEF LocalStep, Framed
<1>2. CASE Reading(p)
  BY <1>1, <1>2, ReadingIsLocal
     DEF TypeOK, LocalStep, shared, git, provider, store
<1> USE DEF TypeOK, LocalStep, git, provider, store
<1>0. loc[p] \in Local
  OBVIOUS
<1>3. CASE Review(p)
  <2>1. reviews' \subseteq {"Passed", "Blocked", "Overridden", "Unavailable"} \X Nat \X Nat
    <3>1. loc[p].run \in Nat /\ base \in Nat
      BY <1>0 DEF Local
    <3>2. /\ <<Verdict, loc[p].run, base>> \in
                {"Passed", "Blocked", "Overridden", "Unavailable"} \X Nat \X Nat
          /\ <<"Unavailable", loc[p].run, 0>> \in
                {"Passed", "Blocked", "Overridden", "Unavailable"} \X Nat \X Nat
      BY <3>1 DEF Verdict
    <3> QED
      BY <1>3, <3>2 DEF Review, Recorded
  <2>2. UNCHANGED <<git, provider, base, pushed, task, reason, run, validated, row>>
    BY <1>3 DEF Review
  <2> QED
    BY <1>1, <2>1, <2>2
<1>4. CASE Add(p)
  BY <1>1, <1>4 DEF Add, Step
<1>5. CASE CommitIndex(p)
  <2>1. UNCHANGED <<tree, index, place, provider, base, store, pushed>>
    BY <1>5 DEF CommitIndex, Step
  <2>2. CASE UNCHANGED <<commits, head>>
    BY <1>1, <2>1, <2>2
  <2>3. CASE commits' = Committed(index, "factory", head) /\ head' = Len(commits) + 1
    <3>1. /\ commits' \in Seq(Commit) /\ Len(commits) \in Nat
          /\ DOMAIN commits = 1..Len(commits)
          /\ DOMAIN commits' = 1..(Len(commits) + 1)
      BY <2>3, CommitEffect
    <3>2. head' \in DOMAIN commits' /\ DOMAIN commits \subseteq DOMAIN commits'
      BY <2>3, <3>1
    <3>3. pushed' \subseteq (1..run') \X DOMAIN commits'
      BY <2>1, <3>2
    <3> QED
      BY <1>1, <2>1, <3>1, <3>2, <3>3
  <2> QED
    BY <1>5, <2>2, <2>3 DEF CommitIndex
<1>6. CASE Push(p)
  <2>1. UNCHANGED <<git, open, store, base>>
    BY <1>6 DEF Push, Pushes
  <2>2. loc[p].run \in 1..run /\ loc[p].sha \in DOMAIN commits
    BY <1>6 DEF Push, InHand
  <2>3. remote' \in {0} \union DOMAIN commits
    BY <1>6, <2>2 DEF Push, Pushes
  <2>4. pushed' \subseteq (1..run) \X DOMAIN commits
    BY <1>6, <2>2 DEF Push, Pushes
  <2> QED
    BY <1>1, <2>1, <2>3, <2>4
<1>7. CASE Post(p)
  <2>1. UNCHANGED <<git, remote, base, store, pushed>>
    BY <1>7 DEF Post
  <2>2. open' \in Seq(BOOLEAN)
    <3>1. open \in Seq(BOOLEAN) /\ Append(open, TRUE) \in Seq(BOOLEAN)
      OBVIOUS
    <3> QED
      BY <1>7, <3>1 DEF Post
  <2> QED
    BY <1>1, <2>1, <2>2
<1>8. CASE Persist(p) \/ Record(p)
  <2>1. UNCHANGED <<git, provider, base, task, reason, run, validated, reviews, pushed>>
    BY <1>8 DEF Persist, Record, Step
  <2>2. row' \in [run : Nat, number : Nat, sha : Nat]
    <3>1. /\ row \in [run : Nat, number : Nat, sha : Nat]
          /\ loc[p].run \in Nat /\ loc[p].number \in Nat /\ loc[p].sha \in Nat
      BY <1>0 DEF Local
    <3>2. CASE row' = row
      BY <3>1, <3>2
    <3>3. CASE row' = [run |-> loc[p].run, number |-> loc[p].number, sha |-> loc[p].sha]
      BY <3>1, <3>3
    <3>4. CASE row' = [row EXCEPT !.run = loc[p].run, !.sha = loc[p].sha]
      BY <3>1, <3>4
    <3> QED
      BY <1>8, <3>2, <3>3, <3>4 DEF Persist, Record
  <2> QED
    BY <1>1, <2>1, <2>2
<1>9. CASE Opened(p) \/ Waiting(p) \/ Block(p)
  <2>1. UNCHANGED <<git, provider, base, reason, run, validated, row, reviews, pushed>>
    BY <1>9 DEF Opened, Waiting, Block, Step
  <2>2. task' \in {task, "PR_OPEN", "WAITING_HUMAN", "BLOCKED"}
    BY <1>9 DEF Opened, Waiting, Block
  <2> QED
    BY <1>1, <2>1, <2>2
<1>10. CASE Note(p)
  <2>1. UNCHANGED <<git, provider, base, run, validated, row, reviews, pushed>>
    BY <1>10 DEF Note, Step
  <2>2. task' = "BLOCKED" /\ reason' \in {"security", "publication"}
    BY <1>0, <1>10 DEF Note, Local
  <2> QED
    BY <1>1, <2>1, <2>2
<1> QED
  BY <1>2, <1>3, <1>4, <1>5, <1>6, <1>7, <1>8, <1>9, <1>10
     DEF PublicationStep, Pass, Reading

(* What others and the operator do is typed and leaves the processes alone. *)
LEMMA OthersFrame ==
    ASSUME TypeOK, Others
    PROVE  TypeOK' /\ SameSetting /\ UNCHANGED <<pc, loc, pushed>>
<1> USE DEF git, provider, store
<1>1. CASE Retry
  BY <1>1, SettingStays DEF Retry, TypeOK
<1>2. CASE Override
  <2>1. reviews' \subseteq {"Passed", "Blocked", "Overridden", "Unavailable"} \X Nat \X Nat
    <3>1. run \in Nat /\ base \in Nat
      BY DEF TypeOK
    <3>2. /\ <<Verdict, run, base>> \in
                {"Passed", "Blocked", "Overridden", "Unavailable"} \X Nat \X Nat
          /\ <<"Overridden", run, base>> \in
                {"Passed", "Blocked", "Overridden", "Unavailable"} \X Nat \X Nat
      BY <3>1 DEF Verdict
    <3> QED
      BY <1>2, <3>2 DEF Override, Recorded, Decision, TypeOK
  <2>2. task' \in {task, "VALIDATING"}
    BY <1>2 DEF Override
  <2>3. UNCHANGED <<git, provider, base, reason, run, validated, row, pc, loc, pushed,
                    setting>>
    BY <1>2 DEF Override
  <2> QED
    BY <2>1, <2>2, <2>3, SettingStays DEF TypeOK
<1>o. ASSUME NEW w, Other(w)
      PROVE  setting' \in Setting /\ SameSetting /\ UNCHANGED <<pc, loc, pushed>>
  BY <1>o, EditType DEF Other
<1>3. CASE Edit
  BY <1>3, <1>o DEF Edit, TypeOK
<1>c. DOMAIN commits = 1..Len(commits) /\ Len(commits) \in Nat
  BY DEF TypeOK
<1>4. CASE AgentCommits
  <2>1. /\ commits' \in Seq(Commit)
        /\ DOMAIN commits' = 1..(Len(commits) + 1)
    BY <1>4, CommitEffect DEF AgentCommits, TypeOK
  <2>2. DOMAIN commits \subseteq DOMAIN commits' /\ head' \in DOMAIN commits'
    BY <1>4, <1>c, <2>1 DEF AgentCommits
  <2>3. index' \in Trees /\ UNCHANGED <<tree, place, provider, base, store>>
    BY <1>4 DEF AgentCommits, TypeOK
  <2>4. setting' \in Setting /\ SameSetting /\ UNCHANGED <<pc, loc, pushed>>
    BY <1>4, <1>o DEF AgentCommits
  <2>5. pushed' \subseteq (1..run') \X DOMAIN commits'
    BY <2>2, <2>3, <2>4 DEF TypeOK
  <2> QED
    BY <2>1, <2>2, <2>3, <2>4, <2>5 DEF TypeOK
<1>5. CASE ClosePr
  <2>1. PICK n \in OpenPrs : open' = [open EXCEPT ![n] = FALSE]
    BY <1>5 DEF ClosePr
  <2>2. open' \in Seq(BOOLEAN)
    BY <2>1 DEF TypeOK, OpenPrs
  <2> QED
    BY <1>5, <1>o, <2>2 DEF ClosePr, TypeOK
<1>6. CASE PersonPushes
  <2>0. PICK t \in Trees : commits' = Committed(t, "person", remote)
    BY <1>6 DEF PersonPushes
  <2>1. /\ commits' \in Seq(Commit)
        /\ DOMAIN commits' = 1..(Len(commits) + 1)
    BY <1>6, <2>0, CommitEffect DEF PersonPushes, TypeOK
  <2>2. DOMAIN commits \subseteq DOMAIN commits' /\ remote' \in DOMAIN commits'
    BY <1>6, <1>c, <2>1 DEF PersonPushes
  <2>3. UNCHANGED <<tree, index, head, place, open, base, store>>
    BY <1>6 DEF PersonPushes
  <2>4. setting' \in Setting /\ SameSetting /\ UNCHANGED <<pc, loc, pushed>>
    BY <1>6, <1>o DEF PersonPushes
  <2>5. pushed' \subseteq (1..run') \X DOMAIN commits'
    BY <2>2, <2>3, <2>4 DEF TypeOK
  <2> QED
    BY <2>1, <2>2, <2>3, <2>4, <2>5 DEF TypeOK
<1>7. CASE BaseMoves
  BY <1>7, <1>o DEF BaseMoves, TypeOK
<1>8. CASE Rework
  <2>1. UNCHANGED <<index, head, place, commits, provider, base, reason, row, reviews>>
    BY <1>8 DEF Rework
  <2>2. setting' \in Setting /\ SameSetting /\ UNCHANGED <<pc, loc, pushed>>
    BY <1>8, <1>o DEF Rework
  <2>3. tree' \in Trees /\ task' = "VALIDATING"
    BY <1>8, GitPublishAssumption DEF Rework
  <2>4. run' = run + 1 /\ run < MaxRuns /\ run \in 1..MaxRuns /\ MaxRuns \in Nat
    BY <1>8, GitPublishAssumption DEF Rework, TypeOK
  <2>5. run' \in 1..MaxRuns /\ 1..run \subseteq 1..run'
    BY <2>4
  <2>6. validated' \in Seq(Trees \union {None}) /\ Len(validated') = run'
    <3>1. validated \in Seq(Trees \union {None}) /\ Len(validated) = run
      BY DEF TypeOK
    <3>2. validated' = Append(validated, tree')
      BY <1>8 DEF Rework
    <3> QED
      BY <2>3, <2>4, <3>1, <3>2
  <2>7. pushed' \subseteq (1..run') \X DOMAIN commits'
    BY <2>1, <2>2, <2>5 DEF TypeOK
  <2> QED
    BY <2>1, <2>2, <2>3, <2>5, <2>6, <2>7 DEF TypeOK
<1>9. CASE Lose
  BY <1>9, SettingStays DEF Lose, TypeOK
<1> QED
  BY <1>1, <1>2, <1>3, <1>4, <1>5, <1>6, <1>7, <1>8, <1>9 DEF Others

-----------------------------------------------------------------------------
(* The same for validation *)

VLocal == [gates : Seq(V!Gate), before : Trees \union {None}]

VLocalStep(p) ==
    /\ setting' \in Setting /\ SameSetting
    /\ vpc' \in [Procs -> V!Steps] /\ vloc' \in [Procs -> VLocal]
    /\ \A q \in Procs \ {p} : vpc'[q] = vpc[q] /\ vloc'[q] = vloc[q]

(* A fault of a validation. *)
LEMMA VFaultType ==
    ASSUME TypeOK, NEW f, V!Fault(f)
    PROVE  setting' \in Setting /\ SameSetting
<1>1. Fault(f)
  BY DEF V!Fault, Fault
<1> QED
  BY <1>1, FaultType

(* A validation goes on. *)
LEMMA VGotoType ==
    ASSUME V!TypeOK, NEW p \in Procs, NEW l \in V!Steps, V!Goto(p, l)
    PROVE  /\ vpc' \in [Procs -> V!Steps] /\ vpc'[p] = l
           /\ \A q \in Procs \ {p} : vpc'[q] = vpc[q]
  BY DEF V!TypeOK, V!Goto

(* The values a validation keeps. *)
LEMMA VSetType ==
    ASSUME V!TypeOK, NEW p \in Procs, NEW r \in VLocal, V!Set(p, r)
    PROVE  /\ vloc' \in [Procs -> VLocal] /\ vloc'[p] = r
           /\ \A q \in Procs \ {p} : vloc'[q] = vloc[q]
  BY DEF V!TypeOK, V!Set, VLocal, V!None, None

(* A validation ends without a revision. *)
LEMMA VRejectsType ==
    ASSUME V!TypeOK, NEW p \in Procs, NEW gs \in Seq(V!Gate), V!Rejects(p, gs)
    PROVE  /\ vpc' \in [Procs -> V!Steps] /\ vloc' \in [Procs -> VLocal]
           /\ vpc'[p] = "store" /\ vloc'[p] = [gates |-> gs, before |-> None]
           /\ \A q \in Procs \ {p} : vpc'[q] = vpc[q] /\ vloc'[q] = vloc[q]
<1>1. [gates |-> gs, before |-> None] \in VLocal
  BY DEF VLocal
<1>2. V!Goto(p, "store") /\ V!Set(p, [gates |-> gs, before |-> None])
  BY DEF V!Rejects, V!None, None
<1> QED
  BY <1>1, <1>2, VGotoType, VSetType DEF V!Steps

(* The integrity failure is a gate result (tracking.py). *)
LEMMA IntegrityType ==
    /\ << V!Integrity >> \in Seq(V!Gate)
    /\ \A gs \in Seq(V!Gate) : Append(gs, V!Integrity) \in Seq(V!Gate)
<1>1. V!Integrity \in V!Gate
  BY DEF V!Integrity, V!Gate
<1> QED
  BY <1>1

(* What a gate run adds to the results. *)
GateResult(n, g) == [name |-> Specs[n], green |-> g, required |-> Specs[n] \in Required]

(* LocalQualityGateRunner.run adds one result and goes on. *)
LEMMA RunGateEffect ==
    ASSUME TypeOK, V!TypeOK, NEW p \in Procs, V!RunGate(p),
           Len(vloc[p].gates) < Len(Specs)
    PROVE  /\ setting' \in Setting /\ SameSetting
           /\ vpc' = [vpc EXCEPT ![p] =
                        IF Len(vloc[p].gates) + 1 = Len(Specs) THEN "after" ELSE "gate"]
           /\ Len(vloc[p].gates) + 1 \in DOMAIN Specs
           /\ \E g \in BOOLEAN :
                /\ g => <<Specs[Len(vloc[p].gates) + 1], tree>> \in Passing
                /\ vloc' = [vloc EXCEPT ![p] =
                      [vloc[p] EXCEPT !.gates =
                          Append(vloc[p].gates, GateResult(Len(vloc[p].gates) + 1, g))]]
                /\ [vloc[p] EXCEPT !.gates =
                          Append(vloc[p].gates, GateResult(Len(vloc[p].gates) + 1, g))]
                      \in VLocal
<1>0. /\ vloc[p] \in VLocal /\ vloc[p].gates \in Seq(V!Gate)
      /\ Len(vloc[p].gates) \in Nat
      /\ Specs \in Seq(STRING) /\ Len(Specs) \in Nat
  BY DeliveryAssumption DEF V!TypeOK, VLocal, V!None, None
<1> DEFINE n == Len(vloc[p].gates) + 1
<1>1. n \in 1..Len(Specs)
  BY <1>0
<1>2. n \in DOMAIN Specs /\ Specs[n] \in STRING
  BY <1>0, <1>1
<1>3. \A g \in BOOLEAN : GateResult(n, g) \in V!Gate
  <2> SUFFICES ASSUME NEW g \in BOOLEAN PROVE GateResult(n, g) \in V!Gate
    OBVIOUS
  <2>1. (Specs[n] \in Required) \in BOOLEAN
    OBVIOUS
  <2> HIDE DEF n
  <2> QED
    BY <1>2, <2>1 DEF GateResult, V!Gate
<1>4. \A g \in BOOLEAN :
         [vloc[p] EXCEPT !.gates = Append(vloc[p].gates, GateResult(n, g))] \in VLocal
  <2> SUFFICES ASSUME NEW g \in BOOLEAN
               PROVE  [vloc[p] EXCEPT !.gates = Append(vloc[p].gates, GateResult(n, g))]
                          \in VLocal
    OBVIOUS
  <2>1. GateResult(n, g) \in V!Gate
    BY <1>3
  <2> HIDE DEF n
  <2>2. Append(vloc[p].gates, GateResult(n, g)) \in Seq(V!Gate)
    BY <1>0, <2>1
  <2> QED
    BY <1>0, <2>2 DEF VLocal
<1>5. /\ vpc' = [vpc EXCEPT ![p] = IF n = Len(Specs) THEN "after" ELSE "gate"]
      /\ \E g \in BOOLEAN :
            /\ g => <<Specs[n], tree>> \in Passing
            /\ vloc' = [vloc EXCEPT ![p] =
                  [vloc[p] EXCEPT !.gates = Append(vloc[p].gates, GateResult(n, g))]]
            /\ UNCHANGED setting \/ V!Fault("call")
  BY DEF V!RunGate, V!Goto, V!Set, GateResult
<1>6. setting' \in Setting /\ SameSetting
  BY <1>5, VFaultType, SettingStays
<1> HIDE DEF n
<1>7. n = Len(vloc[p].gates) + 1
  BY DEF n
<1> QED
  BY <1>2, <1>4, <1>5, <1>6, <1>7

(* Steps of a validation that change nothing but the process (tracking.py  *)
(* refresh up to the second fingerprint).                                  *)
VReading(p) ==
    \/ V!Refresh(p) \/ V!Repair(p) \/ V!Before(p) \/ V!RunGate(p) \/ V!After(p)
    \/ V!Crash(p)

vshared == <<tree, place, ended, status, gates, validated, task>>

(* What one of them does with its process. *)
VEffect(p) ==
    /\ VLocalStep(p) /\ UNCHANGED vshared
    /\ vpc'[p] = "repair" => /\ V!NeedsValidation /\ vpc[p] = "idle"
                             /\ p \in setting.procs
    /\ vpc'[p] \in {"repair", "before"} => vloc'[p].gates = << >>
    /\ vpc'[p] = "gate" => Len(vloc'[p].gates) < Len(Specs)
    /\ vpc'[p] = "after" => Len(vloc'[p].gates) = Len(Specs)
    /\ vpc[p] = "idle" => p \in setting.procs
    /\ vpc'[p] \in {"before", "gate", "after", "store"} => vpc[p] \in Validating
    /\ vpc'[p] = "store" /\ vloc'[p].before # None =>
          /\ vpc[p] = "after" /\ UNCHANGED vloc
          /\ tree = vloc[p].before /\ V!RequiredGreen(vloc[p].gates)
    /\ vpc'[p] \in {"gate", "after"} =>
          \/ /\ vloc'[p].before = tree /\ vloc'[p].gates = << >>
          \/ /\ vpc[p] = "gate"
             /\ \E g \in BOOLEAN :
                  /\ g => <<Specs[Len(vloc[p].gates) + 1], tree>> \in Passing
                  /\ vloc'[p].before = vloc[p].before
                  /\ vloc'[p].gates =
                        Append(vloc[p].gates, GateResult(Len(vloc[p].gates) + 1, g))

(* A step of a validation before its write, and a crash. *)
LEMMA VReadingEffect ==
    ASSUME TypeOK, V!TypeOK, Counted, NEW p \in Procs, VReading(p)
    PROVE  VEffect(p)
<1> USE DEF VEffect, VLocalStep, Validating
<1>0. /\ vloc[p] \in VLocal /\ vloc \in [Procs -> VLocal] /\ vpc \in [Procs -> V!Steps]
      /\ vloc[p].gates \in Seq(V!Gate) /\ tree \in Trees
  BY DEF V!TypeOK, VLocal, V!None, None, TypeOK
<1>u. UNCHANGED vshared
  BY DEF VReading, V!Refresh, V!Repair, V!Before, V!RunGate, V!After, V!Crash, V!world,
         V!store, vshared
<1>i. << V!Integrity >> \in Seq(V!Gate) /\ Append(vloc[p].gates, V!Integrity) \in Seq(V!Gate)
  BY <1>0, IntegrityType
<1>r. ASSUME NEW gs \in Seq(V!Gate), V!Rejects(p, gs), setting' \in Setting, SameSetting,
             vpc[p] \in Validating
      PROVE  VEffect(p)
  <2>1. /\ vpc' \in [Procs -> V!Steps] /\ vloc' \in [Procs -> VLocal]
        /\ vpc'[p] = "store" /\ vloc'[p] = [gates |-> gs, before |-> None]
        /\ \A q \in Procs \ {p} : vpc'[q] = vpc[q] /\ vloc'[q] = vloc[q]
    BY <1>r, VRejectsType
  <2> QED
    BY <1>r, <1>u, <2>1
<1>1. CASE V!Refresh(p)
  <2>1. V!Nothing \in VLocal /\ V!Nothing.gates = << >>
    BY DEF V!Nothing, VLocal, V!None, None
  <2>2. vloc' \in [Procs -> VLocal] /\ vloc'[p] = V!Nothing
        /\ \A q \in Procs \ {p} : vloc'[q] = vloc[q]
    BY <1>1, <2>1, VSetType DEF V!Refresh
  <2>3. PICK l \in {"repair", "drive"} : V!Goto(p, l) /\ (l = "repair" => V!NeedsValidation)
    BY <1>1 DEF V!Refresh
  <2>4. vpc' \in [Procs -> V!Steps] /\ vpc'[p] = l
        /\ \A q \in Procs \ {p} : vpc'[q] = vpc[q]
    BY <2>3, VGotoType DEF V!Steps
  <2>5. vpc[p] = "idle" /\ p \in setting.procs /\ UNCHANGED setting
    BY <1>1 DEF V!Refresh
  <2> QED
    BY <1>u, <2>1, <2>2, <2>3, <2>4, <2>5, SettingStays
<1>2. CASE V!Repair(p)
  <2>1. setting' \in Setting /\ SameSetting /\ vpc[p] = "repair"
    BY <1>2, SettingStays, VFaultType DEF V!Repair
  <2>2. CASE V!Rejects(p, << V!Integrity >>)
    BY <1>i, <1>r, <2>1, <2>2
  <2>3. CASE V!Goto(p, "before") /\ UNCHANGED vloc
    <3>1. vpc' \in [Procs -> V!Steps] /\ vpc'[p] = "before"
          /\ \A q \in Procs \ {p} : vpc'[q] = vpc[q]
      BY <2>3, VGotoType DEF V!Steps
    <3>2. vloc[p].gates = << >>
      BY <2>1 DEF Counted
    <3> QED
      BY <1>0, <1>u, <2>1, <2>3, <3>1, <3>2
  <2> QED
    BY <1>2, <2>2, <2>3 DEF V!Repair
<1>3. CASE V!Before(p)
  <2>1. setting' \in Setting /\ SameSetting /\ vpc[p] = "before"
    BY <1>3, SettingStays, VFaultType DEF V!Before
  <2>2. CASE V!Rejects(p, << V!Integrity >>)
    BY <1>i, <1>r, <2>1, <2>2
  <2>3. CASE /\ V!Goto(p, IF Specs = << >> THEN "after" ELSE "gate")
             /\ V!Set(p, [vloc[p] EXCEPT !.before = tree])
    <3>0. Specs \in Seq(STRING) /\ Len(Specs) \in Nat
      BY DeliveryAssumption
    <3>1. PICK l \in {"after", "gate"} : V!Goto(p, l) /\ (l = "after" <=> Specs = << >>)
      BY <2>3
    <3>2. vpc' \in [Procs -> V!Steps] /\ vpc'[p] = l
          /\ \A q \in Procs \ {p} : vpc'[q] = vpc[q]
      BY <3>1, VGotoType DEF V!Steps
    <3>3. [vloc[p] EXCEPT !.before = tree] \in VLocal
      BY <1>0 DEF VLocal
    <3>4. vloc' \in [Procs -> VLocal] /\ vloc'[p] = [vloc[p] EXCEPT !.before = tree]
          /\ \A q \in Procs \ {p} : vloc'[q] = vloc[q]
      BY <2>3, <3>3, VSetType
    <3>5. vloc'[p].before = tree /\ vloc'[p].gates = vloc[p].gates
      BY <1>0, <3>4 DEF VLocal
    <3>6. vloc[p].gates = << >>
      BY <2>1 DEF Counted
    <3>7. /\ l = "gate" => 0 < Len(Specs)
          /\ l = "after" => 0 = Len(Specs)
      BY <3>0, <3>1
    <3> QED
      BY <1>u, <2>1, <3>1, <3>2, <3>4, <3>5, <3>6, <3>7
  <2> QED
    BY <1>3, <2>2, <2>3 DEF V!Before
<1>4. CASE V!RunGate(p)
  <2>0. vpc[p] = "gate" /\ Len(vloc[p].gates) < Len(Specs)
    BY <1>4 DEF V!RunGate, Counted
  <2> DEFINE n == Len(vloc[p].gates) + 1
  <2>1. /\ setting' \in Setting /\ SameSetting
        /\ vpc' = [vpc EXCEPT ![p] = IF n = Len(Specs) THEN "after" ELSE "gate"]
        /\ \E g \in BOOLEAN :
              /\ g => <<Specs[n], tree>> \in Passing
              /\ vloc' = [vloc EXCEPT ![p] =
                    [vloc[p] EXCEPT !.gates = Append(vloc[p].gates, GateResult(n, g))]]
              /\ [vloc[p] EXCEPT !.gates = Append(vloc[p].gates, GateResult(n, g))]
                    \in VLocal
    BY <1>4, <2>0, RunGateEffect
  <2>a. n \in Nat /\ n <= Len(Specs) /\ Len(Specs) \in Nat /\ n = Len(vloc[p].gates) + 1
    BY <1>0, <2>0, DeliveryAssumption
  <2> HIDE DEF n
  <2>2. PICK g \in BOOLEAN :
           /\ g => <<Specs[n], tree>> \in Passing
           /\ vloc' = [vloc EXCEPT ![p] =
                    [vloc[p] EXCEPT !.gates = Append(vloc[p].gates, GateResult(n, g))]]
           /\ [vloc[p] EXCEPT !.gates = Append(vloc[p].gates, GateResult(n, g))] \in VLocal
    BY <2>1
  <2>3. /\ vpc'[p] = IF n = Len(Specs) THEN "after" ELSE "gate"
        /\ vpc' \in [Procs -> V!Steps] /\ \A q \in Procs \ {p} : vpc'[q] = vpc[q]
    BY <1>0, <2>1 DEF V!Steps
  <2>4. /\ vloc' \in [Procs -> VLocal] /\ \A q \in Procs \ {p} : vloc'[q] = vloc[q]
        /\ vloc'[p] = [vloc[p] EXCEPT !.gates = Append(vloc[p].gates, GateResult(n, g))]
    BY <1>0, <2>2
  <2>5. /\ vloc'[p].before = vloc[p].before
        /\ vloc'[p].gates = Append(vloc[p].gates, GateResult(n, g))
    BY <1>0, <2>4 DEF VLocal
  <2>6. Len(vloc'[p].gates) = n
    <3>1. vloc'[p].gates \in Seq(V!Gate)
      BY <2>4 DEF VLocal
    <3> QED
      BY <1>0, <2>5, <2>a
  <2> QED
    BY <1>u, <2>0, <2>1, <2>2, <2>3, <2>4, <2>5, <2>6, <2>a
<1>5. CASE V!After(p)
  <2>1. setting' \in Setting /\ SameSetting /\ vpc[p] = "after"
    BY <1>5, SettingStays, VFaultType DEF V!After
  <2>2. CASE V!Rejects(p, Append(vloc[p].gates, V!Integrity))
    BY <1>i, <1>r, <2>1, <2>2
  <2>3. CASE V!Rejects(p, vloc[p].gates)
    BY <1>0, <1>r, <2>1, <2>3
  <2>4. CASE /\ V!Goto(p, "store") /\ UNCHANGED vloc
             /\ tree = vloc[p].before /\ V!RequiredGreen(vloc[p].gates)
    <3>1. vpc' \in [Procs -> V!Steps] /\ vpc'[p] = "store"
          /\ \A q \in Procs \ {p} : vpc'[q] = vpc[q]
      BY <2>4, VGotoType DEF V!Steps
    <3> QED
      BY <1>0, <1>u, <2>1, <2>4, <3>1
  <2> QED
    BY <1>5, <2>2, <2>3, <2>4 DEF V!After
<1>6. CASE V!Crash(p)
  <2>1. setting' \in Setting /\ SameSetting /\ vpc[p] # "idle" /\ UNCHANGED vloc
    BY <1>6, VFaultType DEF V!Crash
  <2>2. vpc' \in [Procs -> V!Steps] /\ vpc'[p] = "idle"
        /\ \A q \in Procs \ {p} : vpc'[q] = vpc[q]
    BY <1>6, VGotoType DEF V!Crash, V!Steps
  <2> QED
    BY <1>0, <1>u, <2>1, <2>2
<1> QED
  BY <1>1, <1>2, <1>3, <1>4, <1>5, <1>6 DEF VReading

(* update_run binds the result of a validation (tracking.py). *)
LEMMA StoreEffect ==
    ASSUME TypeOK, V!TypeOK, NEW p \in Procs, V!Store(p)
    PROVE  /\ vpc[p] = "store" /\ vpc'[p] = "drive" /\ VLocalStep(p) /\ UNCHANGED vloc
           /\ status' = "SUCCEEDED" /\ gates' = vloc[p].gates
           /\ validated' \in Seq(Trees \union {None}) /\ Len(validated') = Len(validated)
           /\ validated'[1] = vloc[p].before
           /\ \A r \in 2..Len(validated) : validated'[r] = validated[r]
           /\ UNCHANGED <<setting, tree, place, ended, task>>
<1>0. /\ vloc[p] \in VLocal /\ vloc \in [Procs -> VLocal]
      /\ vloc[p].before \in Trees \union {None}
  BY DEF V!TypeOK, VLocal, V!None, None
<1>1. validated \in Seq(Trees \union {None}) /\ Len(validated) = run /\ run \in Nat /\ run >= 1
  BY DEF TypeOK
<1>2. validated' = [validated EXCEPT ![1] = vloc[p].before]
  BY DEF V!Store
<1>3. /\ validated' \in Seq(Trees \union {None}) /\ Len(validated') = Len(validated)
      /\ validated'[1] = vloc[p].before
      /\ \A r \in 2..Len(validated) : validated'[r] = validated[r]
  <2> DEFINE S == Trees \union {None}
  <2>1. validated \in [1..Len(validated) -> S] /\ vloc[p].before \in S
    BY <1>0, <1>1
  <2> HIDE DEF S
  <2>2. validated' \in [1..Len(validated) -> S]
    BY <1>2, <2>1
  <2>3. validated' \in Seq(S) /\ Len(validated') = Len(validated)
    BY <1>1, <2>2
  <2> QED
    BY <1>1, <1>2, <2>1, <2>3 DEF S
<1>4. vpc' \in [Procs -> V!Steps] /\ vpc'[p] = "drive"
      /\ \A q \in Procs \ {p} : vpc'[q] = vpc[q]
  BY VGotoType DEF V!Store, V!Steps
<1> QED
  BY <1>0, <1>3, <1>4, SettingStays DEF V!Store, VLocalStep, V!world

(* _drive_task *)
LEMMA DriveEffect ==
    ASSUME TypeOK, V!TypeOK, NEW p \in Procs, V!Drive(p)
    PROVE  /\ vpc[p] = "drive" /\ vpc'[p] = "idle" /\ VLocalStep(p) /\ UNCHANGED vloc
           /\ task' = "VALIDATING" \/ UNCHANGED task
           /\ task' # task => task \in {"RUNNING", "BLOCKED"}
           /\ UNCHANGED <<setting, tree, place, ended, status, gates, validated>>
<1>1. vpc' \in [Procs -> V!Steps] /\ vpc'[p] = "idle"
      /\ \A q \in Procs \ {p} : vpc'[q] = vpc[q]
  BY VGotoType DEF V!Drive, V!Steps
<1>2. vloc \in [Procs -> VLocal]
  BY DEF V!TypeOK, VLocal, V!None, None
<1>3. V!CanTransition(task, "VALIDATING") => task \in {"RUNNING", "BLOCKED"}
  BY DEF V!CanTransition, V!Transitions
<1> QED
  BY <1>1, <1>2, <1>3, SettingStays DEF V!Drive, VLocalStep, V!world

(* A gate that rewrites files. *)
LEMMA GateWritesEffect ==
    ASSUME TypeOK, V!TypeOK, NEW p \in Procs, V!GateWrites(p)
    PROVE  /\ tree' \in Trees /\ tree' # tree /\ setting' \in Setting /\ SameSetting
           /\ "edit" \in setting.world /\ setting.edits > 0
           /\ setting'.edits = setting.edits - 1
           /\ vpc[p] = "gate"
           /\ UNCHANGED <<place, ended, status, gates, validated, task, vpc, vloc>>
  BY EditType DEF V!GateWrites, V!store

-----------------------------------------------------------------------------
(* The steps of Delivery, by what they change *)

Publishes(p) == PublicationStep(p) /\ UNCHANGED validation
                /\ (pc[p] = "idle" => vpc[p] = "idle")

ValidationReads(p) == UNCHANGED publication /\ VReading(p)
                      /\ (vpc[p] = "idle" => pc[p] = "idle" /\ run = 1)

(* Validation and publication take turns; everything else is others'. *)
LEMMA DeliverySteps ==
    ASSUME DeliveryNext
    PROVE  \/ \E p \in Procs : Publishes(p)
           \/ Others /\ UNCHANGED validation
           \/ \E p \in Procs : ValidationReads(p)
           \/ \E p \in Procs : UNCHANGED publication /\ run = 1 /\ pc[p] = "idle" /\ V!Store(p)
           \/ \E p \in Procs : UNCHANGED publication /\ pc[p] = "idle" /\ V!Drive(p)
           \/ \E p \in Procs : UNCHANGED publication /\ V!GateWrites(p)
           \/ UNCHANGED publication /\ V!EngineEnds
           \/ UNCHANGED publication /\ V!Requeue
<1>1. ASSUME NEW p \in Procs, ValidationPass(p)
      PROVE  \/ ValidationReads(p)
             \/ UNCHANGED publication /\ run = 1 /\ pc[p] = "idle" /\ V!Store(p)
             \/ UNCHANGED publication /\ pc[p] = "idle" /\ V!Drive(p)
  BY <1>1 DEF ValidationPass, V!Pass, ValidationReads, VReading
<1>2. ASSUME NEW p \in Procs, PublicationPass(p) PROVE Publishes(p)
  BY <1>2 DEF PublicationPass, Publishes, PublicationStep
<1>3. ASSUME NEW p \in Procs, Failure(p)
      PROVE  \/ Publishes(p) \/ ValidationReads(p)
             \/ UNCHANGED publication /\ V!GateWrites(p)
  <2>1. CASE UNCHANGED validation /\ (CallFails(p) \/ Crash(p))
    <3>1. pc[p] # "idle"
      BY <2>1 DEF CallFails, Crash
    <3> QED
      BY <2>1, <3>1 DEF Publishes, PublicationStep
  <2>2. CASE UNCHANGED publication /\ V!Crash(p)
    <3>1. vpc[p] # "idle"
      BY <2>2 DEF V!Crash
    <3> QED
      BY <2>2, <3>1 DEF ValidationReads, VReading
  <2> QED
    BY <1>3, <2>1, <2>2 DEF Failure
<1> QED
  BY <1>1, <1>2, <1>3 DEF DeliveryNext, Requeue, Environment

(* Both parts stay typed, and the gates are counted. *)
LEMMA DeliveryTyped ==
    ASSUME DeliveryTypeOK, Counted, Hands, DeliveryNext
    PROVE  DeliveryTypeOK' /\ Counted' /\ SameSetting
<1>0. TypeOK /\ V!TypeOK
  BY DEF DeliveryTypeOK
<1>v. ASSUME NEW p \in Procs, VLocalStep(p), status' \in {"RUNNING", "SUCCEEDED"},
             gates' \in Seq(V!Gate)
      PROVE  V!TypeOK'
  BY <1>v DEF V!TypeOK, VLocalStep, VLocal, V!None, None
<1>p. ASSUME UNCHANGED publication, setting' \in Setting, tree' \in Trees, UNCHANGED place,
             task' \in {task, "VALIDATING", "READY"},
             validated' \in Seq(Trees \union {None}), Len(validated') = Len(validated)
      PROVE  TypeOK'
  BY <1>0, <1>p DEF TypeOK, publication, provider
<1>1. ASSUME NEW p \in Procs, Publishes(p)
      PROVE  DeliveryTypeOK' /\ Counted' /\ SameSetting
  <2>1. TypeOK' /\ SameSetting
    BY <1>0, <1>1, PublicationFrame DEF Publishes, Framed, Hands
  <2>2. V!TypeOK' /\ Counted'
    BY <1>0, <1>1 DEF Publishes, validation, V!TypeOK, Counted
  <2> QED
    BY <2>1, <2>2 DEF DeliveryTypeOK
<1>2. CASE Others /\ UNCHANGED validation
  <2>1. TypeOK' /\ SameSetting
    BY <1>0, <1>2, OthersFrame
  <2>2. V!TypeOK' /\ Counted'
    BY <1>0, <1>2 DEF validation, V!TypeOK, Counted
  <2> QED
    BY <2>1, <2>2 DEF DeliveryTypeOK
<1>3. ASSUME NEW p \in Procs, ValidationReads(p)
      PROVE  DeliveryTypeOK' /\ Counted' /\ SameSetting
  <2>1. VEffect(p)
    BY <1>0, <1>3, VReadingEffect DEF ValidationReads
  <2>2. V!TypeOK'
    BY <1>0, <1>v, <2>1 DEF VEffect, vshared, V!TypeOK
  <2>3. TypeOK'
    BY <1>0, <1>3, <1>p, <2>1 DEF VEffect, vshared, VLocalStep, TypeOK, ValidationReads
  <2>4. Counted'
    BY <2>1 DEF VEffect, VLocalStep, Counted
  <2> QED
    BY <2>1, <2>2, <2>3, <2>4 DEF DeliveryTypeOK, VEffect, VLocalStep
<1>4. ASSUME NEW p \in Procs, UNCHANGED publication, V!Store(p)
      PROVE  DeliveryTypeOK' /\ Counted' /\ SameSetting
  <2>1. /\ vpc'[p] = "drive" /\ VLocalStep(p) /\ UNCHANGED vloc
        /\ status' = "SUCCEEDED" /\ gates' = vloc[p].gates
        /\ validated' \in Seq(Trees \union {None}) /\ Len(validated') = Len(validated)
        /\ UNCHANGED <<setting, tree, place, ended, task>>
    BY <1>0, <1>4, StoreEffect
  <2>2. vloc[p].gates \in Seq(V!Gate)
    BY <1>0 DEF V!TypeOK
  <2>3. V!TypeOK'
    BY <1>v, <2>1, <2>2
  <2>4. TypeOK'
    BY <1>0, <1>4, <1>p, <2>1 DEF TypeOK
  <2>5. Counted'
    BY <2>1 DEF VLocalStep, Counted
  <2> QED
    BY <2>1, <2>3, <2>4, <2>5 DEF DeliveryTypeOK, VLocalStep
<1>5. ASSUME NEW p \in Procs, UNCHANGED publication, V!Drive(p)
      PROVE  DeliveryTypeOK' /\ Counted' /\ SameSetting
  <2>1. /\ vpc'[p] = "idle" /\ VLocalStep(p) /\ UNCHANGED vloc
        /\ task' = "VALIDATING" \/ UNCHANGED task
        /\ UNCHANGED <<setting, tree, place, ended, status, gates, validated>>
    BY <1>0, <1>5, DriveEffect
  <2>2. V!TypeOK'
    BY <1>0, <1>v, <2>1 DEF V!TypeOK
  <2>3. TypeOK'
    BY <1>0, <1>5, <1>p, <2>1 DEF TypeOK
  <2>4. Counted'
    BY <2>1 DEF VLocalStep, Counted
  <2> QED
    BY <2>1, <2>2, <2>3, <2>4 DEF DeliveryTypeOK, VLocalStep
<1>6. ASSUME NEW p \in Procs, UNCHANGED publication, V!GateWrites(p)
      PROVE  DeliveryTypeOK' /\ Counted' /\ SameSetting
  <2>1. /\ tree' \in Trees /\ setting' \in Setting /\ SameSetting
        /\ UNCHANGED <<place, ended, status, gates, validated, task, vpc, vloc>>
    BY <1>0, <1>6, GateWritesEffect
  <2>2. V!TypeOK' /\ Counted'
    BY <1>0, <2>1 DEF V!TypeOK, Counted
  <2>3. TypeOK'
    BY <1>0, <1>6, <1>p, <2>1 DEF TypeOK
  <2> QED
    BY <2>1, <2>2, <2>3 DEF DeliveryTypeOK
<1>7. CASE UNCHANGED publication /\ (V!EngineEnds \/ V!Requeue)
  <2>1. /\ UNCHANGED <<setting, tree, place, status, gates, validated, vpc, vloc>>
        /\ task' \in {task, "READY"}
    BY <1>7 DEF V!EngineEnds, V!Requeue, V!store, V!world
  <2>2. V!TypeOK' /\ Counted'
    BY <1>0, <2>1 DEF V!TypeOK, Counted
  <2>3. TypeOK'
    BY <1>0, <1>7, <1>p, <2>1 DEF TypeOK
  <2> QED
    BY <1>0, <2>1, <2>2, <2>3, SettingStays DEF DeliveryTypeOK
<1> QED
  BY <1>1, <1>2, <1>3, <1>4, <1>5, <1>6, <1>7, DeliverySteps

-----------------------------------------------------------------------------
(* What only grows *)

Grows ==
    /\ DOMAIN commits \subseteq DOMAIN commits'
    /\ \A c \in DOMAIN commits : commits'[c] = commits[c]
    /\ pushed \subseteq pushed' /\ reviews \subseteq reviews' /\ base <= base'
    /\ DOMAIN open \subseteq DOMAIN open' /\ run <= run'

(* The steps that add nothing. *)
LEMMA SameGrows ==
    ASSUME TypeOK, UNCHANGED <<commits, pushed, reviews, base, open, run>>
    PROVE  Grows
<1>1. base \in Nat /\ run \in Nat
  BY DEF TypeOK
<1> QED
  BY <1>1 DEF Grows

(* Commits, pushes, reviews and Pull Requests are never taken back. *)
LEMMA HistoryGrows ==
    ASSUME DeliveryTypeOK, DeliveryNext
    PROVE  Grows
<1>0. TypeOK
  BY DEF DeliveryTypeOK
<1>n. /\ base \in Nat /\ run \in Nat /\ commits \in Seq(Commit)
      /\ DOMAIN commits = 1..Len(commits) /\ Len(commits) \in Nat
      /\ open \in Seq(BOOLEAN)
  BY <1>0 DEF TypeOK
<1>1. ASSUME NEW p \in Procs, Publishes(p) PROVE Grows
  <2>1. CASE Reading(p)
    BY <1>0, <2>1, ReadingIsLocal, SameGrows DEF shared, git, provider, store
  <2>2. CASE Add(p) \/ Persist(p) \/ Record(p) \/ Opened(p) \/ Waiting(p) \/ Block(p) \/ Note(p)
    BY <1>0, <2>2, SameGrows DEF Add, Persist, Record, Opened, Waiting, Block, Note, Step,
           git, provider, store
  <2>3. CASE Review(p)
    BY <1>n, <2>3 DEF Review, Recorded, Grows, git, provider
  <2>4. CASE CommitIndex(p)
    <3>1. UNCHANGED <<pushed, reviews, base, open, run>>
      BY <2>4 DEF CommitIndex, Step, provider, store
    <3>2. CASE UNCHANGED commits
      BY <1>0, <3>1, <3>2, SameGrows
    <3>3. CASE commits' = Committed(index, "factory", head)
      <4>1. /\ DOMAIN commits' = 1..(Len(commits) + 1)
            /\ \A c \in 1..Len(commits) : commits'[c] = commits[c]
        BY <1>0, <3>3, CommitEffect DEF TypeOK
      <4> QED
        BY <1>n, <3>1, <4>1 DEF Grows
    <3> QED
      BY <2>4, <3>2, <3>3 DEF CommitIndex
  <2>5. CASE Push(p)
    BY <1>n, <2>5 DEF Push, Pushes, Grows, git, store
  <2>6. CASE Post(p)
    <3>1. UNCHANGED <<commits, pushed, reviews, base, run>>
      BY <2>6 DEF Post, git, store
    <3>2. DOMAIN open \subseteq DOMAIN open'
      <4>1. open' = open \/ open' = Append(open, TRUE)
        BY <2>6 DEF Post
      <4>2. ASSUME NEW S, NEW q \in Seq(S), NEW e \in S
            PROVE  DOMAIN q \subseteq DOMAIN Append(q, e)
        OBVIOUS
      <4>3. TRUE \in BOOLEAN
        OBVIOUS
      <4> QED
        BY <1>n, <4>1, <4>2, <4>3
    <3> QED
      BY <1>n, <3>1, <3>2 DEF Grows
  <2> QED
    BY <1>1, <2>1, <2>2, <2>3, <2>4, <2>5, <2>6
       DEF Publishes, PublicationStep, Pass, Reading
<1>2. CASE Others
  <2>1. CASE Retry \/ Edit \/ Lose
    BY <1>0, <2>1, SameGrows DEF Retry, Edit, Lose, Other, git, provider, store
  <2>2. CASE Override
    BY <1>n, <2>2 DEF Override, Recorded, Grows, git, provider
  <2>3. ASSUME NEW t \in Trees, NEW who \in {"agent", "person"}, NEW c \in DOMAIN commits,
               commits' = Committed(t, who, c), UNCHANGED <<pushed, open, base, store>>
        PROVE  Grows
    <3>1. /\ DOMAIN commits' = 1..(Len(commits) + 1)
          /\ \A d \in 1..Len(commits) : commits'[d] = commits[d]
      BY <1>0, <2>3, CommitEffect
    <3> QED
      BY <1>n, <2>3, <3>1 DEF Grows, store
  <2>4. CASE AgentCommits
    <3>1. tree \in Trees /\ head \in DOMAIN commits
      BY <1>0 DEF TypeOK
    <3> QED
      BY <2>3, <2>4, <3>1 DEF AgentCommits, Other, provider
  <2>5. CASE PersonPushes
    <3>1. remote \in DOMAIN commits
      BY <1>0, <2>5 DEF TypeOK, PersonPushes
    <3> QED
      BY <2>3, <2>5, <3>1 DEF PersonPushes, Other
  <2>6. CASE ClosePr
    <3>1. UNCHANGED <<commits, pushed, reviews, base, run>> /\ DOMAIN open' = DOMAIN open
      BY <1>n, <2>6 DEF ClosePr, Other, git, store
    <3> QED
      BY <1>n, <3>1 DEF Grows
  <2>7. CASE BaseMoves
    BY <1>n, <2>7 DEF BaseMoves, Other, Grows, git, provider, store
  <2>8. CASE Rework
    BY <1>n, <2>8 DEF Rework, Other, Grows, provider
  <2> QED
    BY <1>2, <2>1, <2>2, <2>4, <2>5, <2>6, <2>7, <2>8 DEF Others
<1>3. CASE UNCHANGED publication
  BY <1>0, <1>3, SameGrows DEF publication, provider
<1> QED
  BY <1>1, <1>2, <1>3, DeliverySteps DEF ValidationReads

(* A new commit keeps the ancestry in order. *)
LEMMA OrderedCommit ==
    ASSUME TypeOK, Ordered, NEW t \in Trees,
           NEW who \in {"base", "agent", "factory", "person"},
           NEW parent \in DOMAIN commits, commits' = Committed(t, who, parent)
    PROVE  Ordered'
<1>1. /\ Len(commits) \in Nat /\ DOMAIN commits = 1..Len(commits)
      /\ DOMAIN commits' = 1..(Len(commits) + 1)
      /\ \A c \in 1..Len(commits) : commits'[c] = commits[c]
      /\ commits'[Len(commits) + 1] = [tree |-> t, by |-> who, past |-> Ancestry(parent)]
  BY CommitEffect
<1> SUFFICES ASSUME NEW c \in 1..(Len(commits) + 1)
             PROVE  /\ commits'[c].past \subseteq 1..(c - 1)
                    /\ \A d \in commits'[c].past : commits'[d].past \subseteq commits'[c].past
  BY <1>1 DEF Ordered
<1>2. CASE c \in 1..Len(commits)
  <2>1. /\ commits[c].past \subseteq 1..(c - 1)
        /\ \A d \in commits[c].past : commits[d].past \subseteq commits[c].past
    BY <1>1, <1>2 DEF Ordered
  <2>2. \A d \in commits[c].past : d \in 1..Len(commits)
    BY <1>1, <1>2, <2>1
  <2> QED
    BY <1>1, <1>2, <2>1, <2>2
<1>3. CASE c = Len(commits) + 1
  <2>1. /\ commits[parent].past \subseteq 1..(parent - 1)
        /\ \A d \in commits[parent].past : commits[d].past \subseteq commits[parent].past
    BY DEF Ordered
  <2>2. commits'[c].past = commits[parent].past \union {parent}
    BY <1>1, <1>3 DEF Ancestry
  <2>3. parent \in 1..Len(commits) /\ commits[parent].past \subseteq 1..Len(commits)
    BY <1>1, <2>1
  <2>4. \A d \in commits'[c].past : d \in 1..Len(commits)
    BY <2>2, <2>3
  <2>5. commits'[c].past \subseteq 1..(c - 1)
    BY <1>1, <1>3, <2>4
  <2>6. \A d \in commits'[c].past : commits'[d].past \subseteq commits'[c].past
    BY <1>1, <2>1, <2>2, <2>3, <2>4
  <2> QED
    BY <2>5, <2>6
<1> QED
  BY <1>1, <1>2, <1>3

(* No push rewrites the branch: what was pushed, by the factory or by a    *)
(* person, stays in it (git push without force).                           *)
LEMMA BranchKept ==
    ASSUME TypeOK, Ordered, Kept, Grows, NEW c \in DOMAIN commits,
           remote' = c, remote = 0 \/ remote \in Ancestry(c),
           UNCHANGED commits, \A x \in pushed' : x \in pushed \/ x[2] = c
    PROVE  Kept'
<1>1. c # 0 /\ DOMAIN commits = 1..Len(commits) /\ Len(commits) \in Nat
  BY DEF TypeOK
<1>2. remote # 0 => Ancestry(remote) \subseteq Ancestry(c)
  BY DEF Ordered, Ancestry
<1> QED
  BY <1>1, <1>2 DEF Kept, Ancestry

(* History stays in order and the branch keeps what it has. *)
LEMMA HistoryKept ==
    ASSUME DeliveryTypeOK, Ordered, Kept, Hands, DeliveryNext
    PROVE  Ordered' /\ Kept'
<1>0. TypeOK /\ Grows
  BY HistoryGrows DEF DeliveryTypeOK
<1>n. /\ commits \in Seq(Commit)
      /\ DOMAIN commits = 1..Len(commits) /\ Len(commits) \in Nat
  BY <1>0 DEF TypeOK
<1>s. ASSUME UNCHANGED <<commits, remote, pushed>> PROVE Ordered' /\ Kept'
  BY <1>s DEF Ordered, Kept, Ancestry
<1>c. ASSUME NEW t \in Trees, NEW who \in {"agent", "factory"}, NEW c \in DOMAIN commits,
             commits' = Committed(t, who, c), UNCHANGED <<remote, pushed>>
      PROVE  Ordered' /\ Kept'
  <2>1. /\ DOMAIN commits' = 1..(Len(commits) + 1)
        /\ \A d \in 1..Len(commits) : commits'[d] = commits[d]
        /\ commits'[Len(commits) + 1] = [tree |-> t, by |-> who, past |-> Ancestry(c)]
    BY <1>0, <1>c, CommitEffect
  <2>a. commits'[Len(commits) + 1].by # "person"
    BY <2>1
  <2>2. remote # 0 => Ancestry(remote)' = Ancestry(remote)
    BY <1>0, <1>c, <1>n, <2>1 DEF TypeOK, Ancestry
  <2>3. Kept'
    BY <1>c, <1>n, <2>1, <2>2, <2>a DEF Kept
  <2> QED
    BY <1>0, <1>c, <2>3, OrderedCommit
<1>1. ASSUME NEW p \in Procs, Publishes(p) PROVE Ordered' /\ Kept'
  <2>1. CASE CommitIndex(p)
    <3>1. UNCHANGED <<remote, pushed>> /\ index \in Trees /\ head \in DOMAIN commits
      BY <1>0, <2>1 DEF CommitIndex, provider, TypeOK
    <3> QED
      BY <1>c, <1>s, <2>1, <3>1 DEF CommitIndex
  <2>2. CASE Push(p)
    <3>1. loc[p].sha \in DOMAIN commits
      BY <2>2 DEF Push, Hands, InHand
    <3>2. UNCHANGED commits
      BY <2>2 DEF Push, Pushes, git
    <3>3. CASE Accepted(loc[p].sha)
      <4>1. remote' = loc[p].sha /\ pushed' = pushed \union {<<loc[p].run, loc[p].sha>>}
        BY <2>2, <3>3 DEF Push, Pushes
      <4>2. Kept'
        BY <1>0, <3>1, <3>2, <3>3, <4>1, BranchKept DEF Accepted
      <4> QED
        BY <3>2, <4>2 DEF Ordered
    <3>4. CASE ~Accepted(loc[p].sha)
      BY <1>s, <2>2, <3>2, <3>4 DEF Push, Pushes
    <3> QED
      BY <3>3, <3>4
  <2>3. CASE ~CommitIndex(p) /\ ~Push(p)
    <3>1. CASE Reading(p)
      BY <1>s, <3>1, ReadingIsLocal DEF shared, git, provider
    <3>2. CASE \/ Review(p) \/ Add(p) \/ Post(p) \/ Persist(p) \/ Record(p) \/ Opened(p)
               \/ Waiting(p) \/ Block(p) \/ Note(p)
      BY <1>s, <3>2 DEF Review, Add, Post, Persist, Record, Opened, Waiting, Block, Note,
             git, provider
    <3> QED
      BY <1>1, <2>3, <3>1, <3>2 DEF Publishes, PublicationStep, Pass, Reading
  <2> QED
    BY <2>1, <2>2, <2>3
<1>2. CASE Others
  <2>1. CASE AgentCommits
    <3>1. UNCHANGED <<remote, pushed>> /\ tree \in Trees /\ head \in DOMAIN commits
      BY <1>0, <2>1 DEF AgentCommits, Other, provider, TypeOK
    <3> QED
      BY <1>c, <2>1, <3>1 DEF AgentCommits
  <2>2. CASE PersonPushes
    <3>0. PICK t \in Trees : commits' = Committed(t, "person", remote)
      BY <2>2 DEF PersonPushes
    <3>1. remote \in DOMAIN commits /\ remote # 0 /\ remote' = Len(commits) + 1
          /\ UNCHANGED pushed
      BY <1>0, <2>2 DEF PersonPushes, Other, TypeOK
    <3>2. /\ DOMAIN commits' = 1..(Len(commits) + 1)
          /\ \A d \in 1..Len(commits) : commits'[d] = commits[d]
          /\ commits'[Len(commits) + 1] =
                [tree |-> t, by |-> "person", past |-> Ancestry(remote)]
      BY <1>0, <3>0, <3>1, CommitEffect
    <3>a. commits'[Len(commits) + 1].past = Ancestry(remote)
      BY <3>2
    <3>3. Ancestry(remote)' = Ancestry(remote) \union {Len(commits) + 1}
      BY <3>1, <3>a DEF Ancestry
    <3>4. Kept'
      BY <1>n, <3>1, <3>2, <3>3 DEF Kept
    <3> QED
      BY <1>0, <3>0, <3>1, <3>4, OrderedCommit
  <2>3. CASE ~AgentCommits /\ ~PersonPushes
    BY <1>2, <1>s, <2>3 DEF Others, Retry, Override, Edit, ClosePr, BaseMoves, Rework, Lose,
           Other, git, provider
  <2> QED
    BY <2>1, <2>2, <2>3
<1>3. CASE UNCHANGED publication
  BY <1>3, <1>s DEF publication, provider
<1> QED
  BY <1>1, <1>2, <1>3, DeliverySteps DEF ValidationReads

-----------------------------------------------------------------------------
(* What a process holds *)

(* A recorded review stays recorded. *)
LEMMA ReviewStays ==
    ASSUME TypeOK, TypeOK', Grows, NEW r, Reviewed(r)
    PROVE  Reviewed(r)'
<1>1. base \in Nat /\ base' \in Nat
  BY DEF TypeOK
<1> QED
  BY <1>1 DEF Grows, Reviewed

(* So does the review a process relies on. *)
LEMMA ReviewOfProcess ==
    ASSUME TypeOK, TypeOK', Grows, NEW p \in Procs, Reviewed(loc[p].run),
           loc'[p].run = loc[p].run
    PROVE  Reviewed(loc[p].run)'
<1>1. PICK r : r = loc[p].run
  OBVIOUS
<1>2. Reviewed(r)'
  BY <1>1, ReviewStays
<1> QED
  BY <1>1, <1>2

(* A process that steps on with what it has keeps true hands. *)
LEMMA HandStays ==
    ASSUME TypeOK, TypeOK', Grows, NEW p \in Procs, InHand(p), ReviewInHand(p),
           loc'[p].run = loc[p].run, loc'[p].sha = loc[p].sha,
           loc'[p].prior = loc[p].prior, loc'[p].st = loc[p].st,
           pc[p] # "idle",
           pc'[p] \in {"subject", "tree", "push"} => loc[p].sha \in DOMAIN commits,
           pc'[p] \in {"find", "post", "lookup", "persist", "record"} =>
               <<loc[p].run, loc[p].sha>> \in pushed',
           pc'[p] = "persist" => loc'[p].number \in DOMAIN open',
           pc'[p] = "record" => loc[p].prior # 0,
           \/ pc'[p] = "rows" /\ loc[p].st = "VALIDATING"
           \/ pc'[p] \in {"match", "check", "status", "add", "commit", "sha", "subject",
                          "tree", "push"}
           => Reviewed(loc[p].run)'
    PROVE  InHand(p)' /\ ReviewInHand(p)'
<1>1. loc'[p].run \in 1..run'
  <2>1. loc[p].run \in 1..run /\ run \in Nat /\ run' \in Nat /\ run <= run'
    BY DEF InHand, TypeOK, Grows
  <2> QED
    BY <2>1
<1>2. InHand(p)'
  BY <1>1 DEF InHand, Grows
<1>3. ReviewInHand(p)'
  BY DEF ReviewInHand
<1> QED
  BY <1>2, <1>3

(* Each step of a publication takes in hand what it has made sure of.      *)
LEMMA OwnHands ==
    ASSUME DeliveryTypeOK, Hands, RowIsPublished, DeliveryNext,
           DeliveryTypeOK', NEW p \in Procs, Publishes(p)
    PROVE  InHand(p)' /\ ReviewInHand(p)'
<1>0. /\ TypeOK /\ TypeOK' /\ Grows /\ InHand(p) /\ ReviewInHand(p)
      /\ loc[p] \in Local /\ pc[p] \in Steps
  BY HistoryGrows DEF DeliveryTypeOK, Hands, TypeOK
<1>r. Reviewed(loc[p].run) /\ loc'[p].run = loc[p].run => Reviewed(loc[p].run)'
  BY <1>0, ReviewOfProcess
<1>1. CASE Start(p)
  <2>1. pc'[p] = "guard" /\ loc'[p] = [Nothing EXCEPT !.run = run]
    BY <1>0, <1>1 DEF Start, Step, Goto, Set, TypeOK
  <2>2. loc'[p].run = run
    BY <2>1 DEF Nothing
  <2>3. run \in 1..run' /\ UNCHANGED run
    BY <1>0, <1>1 DEF TypeOK, Start, store
  <2> QED
    BY <2>1, <2>2, <2>3 DEF InHand, ReviewInHand
<1>2. CASE Guard(p)
  <2>1. /\ pc[p] = "guard" /\ pc'[p] \in {"failed", "rows", "review"}
        /\ pc'[p] = "rows" => task = "WAITING_HUMAN"
        /\ loc'[p] = [loc[p] EXCEPT !.st = task]
    BY <1>0, <1>2 DEF Guard, Requires, Step, Goto, Set, TypeOK
  <2>2. /\ loc'[p].run = loc[p].run /\ loc'[p].st = task
    BY <1>0, <2>1 DEF Local
  <2>3. loc'[p].run \in 1..run'
    BY <1>0, <1>2, <2>1, <2>2 DEF InHand, Guard, Requires, store
  <2> QED
    BY <2>1, <2>2, <2>3 DEF InHand, ReviewInHand
<1>3. CASE Review(p)
  <2>1. pc[p] = "review" /\ pc'[p] \in {"rows", "block"}
    BY <1>0, <1>3 DEF Review, Goto, TypeOK
  <2>2. loc'[p] = loc[p] \/ loc'[p] = [loc[p] EXCEPT !.why = "security"]
    BY <1>0, <1>3 DEF Review, Set, TypeOK
  <2>3. /\ loc'[p].run = loc[p].run /\ loc'[p].sha = loc[p].sha
        /\ loc'[p].prior = loc[p].prior /\ loc'[p].st = loc[p].st
    BY <1>0, <2>2 DEF Local
  <2>4. pc'[p] = "rows" => Reviewed(loc[p].run)'
    <3> SUFFICES ASSUME pc'[p] = "rows" PROVE Reviewed(loc[p].run)'
      OBVIOUS
    <3>1. /\ reviews' = Recorded(Verdict, loc[p].run)
          /\ Verdict = "Passed" \/ Overridden(loc[p].run)
          /\ UNCHANGED base
      BY <1>0, <1>3 DEF Review, Goto, TypeOK
    <3>2. base \in 0..base /\ loc'[p].run = loc[p].run
      BY <1>0, <2>3 DEF TypeOK
    <3>3. CASE Verdict = "Passed"
      BY <3>1, <3>2, <3>3 DEF Reviewed, Recorded
    <3>4. CASE Verdict # "Passed"
      <4>1. Verdict = "Blocked"
        BY <3>4 DEF Verdict
      <4> QED
        BY <3>1, <3>2, <4>1 DEF Reviewed, Recorded, Overridden
    <3> QED
      BY <3>3, <3>4
  <2>5. loc'[p].run \in 1..run'
    BY <1>0, <1>3, <2>1, <2>3 DEF InHand, Review
  <2> QED
    BY <2>1, <2>3, <2>4, <2>5 DEF InHand, ReviewInHand
<1>4. CASE Rows(p)
  <2>1. /\ pc[p] = "rows"
        /\ pc'[p] \in {"failed", "opened", "match", "check"}
        /\ pc'[p] \in {"match", "check"} => loc[p].st = "VALIDATING"
    BY <1>0, <1>4 DEF Rows, Requires, Step, Goto, TypeOK
  <2>2. loc'[p] = loc[p]
        \/ loc'[p] = [loc[p] EXCEPT !.prior = row.run, !.number = row.number]
    BY <1>0, <1>4 DEF Rows, Set, TypeOK
  <2>3. loc'[p].run = loc[p].run
    BY <1>0, <2>2 DEF Local
  <2>4. loc'[p].run \in 1..run'
    BY <1>0, <1>4, <2>1, <2>3 DEF InHand, Rows, Requires, store
  <2>5. pc'[p] \in {"match", "check"} => Reviewed(loc[p].run)'
    BY <1>0, <1>r, <2>1, <2>3 DEF ReviewInHand
  <2> QED
    BY <2>1, <2>4, <2>5 DEF InHand, ReviewInHand
<1>5. CASE Match(p) \/ Check(p) \/ Status(p) \/ Add(p) \/ CommitIndex(p)
  <2>1. /\ pc[p] \in {"match", "check", "status", "add", "commit"}
        /\ pc'[p] \in {"failed", "check", "status", "add", "commit", "sha"}
        /\ UNCHANGED loc
    BY <1>0, <1>5 DEF Match, Check, Status, Add, CommitIndex, Requires, Step, Goto, TypeOK
  <2>2. Reviewed(loc[p].run)
    BY <1>0, <2>1 DEF ReviewInHand
  <2> QED
    BY <1>0, <1>r, <2>1, <2>2, HandStays
<1>6. CASE ReadSha(p)
  <2>1. /\ pc[p] = "sha" /\ pc'[p] = "subject" /\ loc'[p] = [loc[p] EXCEPT !.sha = head]
    BY <1>0, <1>6 DEF ReadSha, Requires, Step, Goto, Set, TypeOK
  <2>2. loc'[p].run = loc[p].run /\ loc'[p].sha = head
    BY <1>0, <2>1 DEF Local
  <2>3. head \in DOMAIN commits' /\ loc'[p].run \in 1..run'
    BY <1>0, <1>6, <2>1, <2>2 DEF TypeOK, InHand, ReadSha, Requires, git, store
  <2>4. Reviewed(loc[p].run)'
    BY <1>0, <1>r, <2>1, <2>2 DEF ReviewInHand
  <2> QED
    BY <2>1, <2>2, <2>3, <2>4 DEF InHand, ReviewInHand
<1>7. CASE ReadSubject(p) \/ CheckTree(p)
  <2>1. /\ pc[p] \in {"subject", "tree"} /\ pc'[p] \in {"failed", "tree", "push"}
        /\ UNCHANGED loc
    BY <1>0, <1>7 DEF ReadSubject, CheckTree, Requires, Step, Goto, TypeOK
  <2>2. Reviewed(loc[p].run) /\ loc[p].sha \in DOMAIN commits
    BY <1>0, <2>1 DEF ReviewInHand, InHand
  <2> QED
    BY <1>0, <1>r, <2>1, <2>2, HandStays
<1>8. CASE Push(p)
  <2>1. /\ pc[p] = "push" /\ pc'[p] \in {"failed", "find", "record"} /\ UNCHANGED loc
        /\ pc'[p] # "failed" => Accepted(loc[p].sha)
        /\ pc'[p] = "record" => loc[p].prior # 0
    BY <1>0, <1>8 DEF Push, Goto, TypeOK
  <2>2. pc'[p] # "failed" => <<loc[p].run, loc[p].sha>> \in pushed'
    BY <1>8, <2>1 DEF Push, Pushes
  <2> QED
    BY <1>0, <2>1, <2>2, HandStays
<1>9. CASE FindOpen(p) \/ Lookup(p)
  <2> DEFINE n == IF OpenPrs # {} THEN CHOOSE n \in OpenPrs : TRUE ELSE 0
  <2>1. /\ pc[p] \in {"find", "lookup"} /\ pc'[p] \in {"persist", "post", "failed"}
        /\ pc'[p] = "persist" => OpenPrs # {}
        /\ loc'[p] = [loc[p] EXCEPT !.number = n]
    BY <1>0, <1>9 DEF FindOpen, Lookup, Requires, Step, Goto, Set, TypeOK
  <2>2. OpenPrs # {} => n \in DOMAIN open
    BY DEF OpenPrs
  <2> HIDE DEF n
  <2>3. /\ loc'[p].run = loc[p].run /\ loc'[p].sha = loc[p].sha /\ loc'[p].number = n
        /\ loc'[p].prior = loc[p].prior /\ loc'[p].st = loc[p].st
    BY <1>0, <2>1 DEF Local
  <2>4. pc'[p] = "persist" => loc'[p].number \in DOMAIN open'
    BY <1>0, <2>1, <2>2, <2>3 DEF Grows
  <2>5. <<loc[p].run, loc[p].sha>> \in pushed'
    BY <1>0, <2>1 DEF InHand, Grows
  <2> QED
    BY <1>0, <2>1, <2>3, <2>4, <2>5, HandStays
<1>10. CASE Post(p)
  <2>1. /\ pc[p] = "post" /\ pc'[p] \in {"persist", "lookup"}
        /\ pc'[p] = "persist" => OpenPrs = {} /\ loc'[p] = [loc[p] EXCEPT !.number = Len(open')]
        /\ loc'[p] = loc[p] \/ loc'[p] = [loc[p] EXCEPT !.number = Len(open')]
    BY <1>0, <1>10 DEF Post, Goto, Set, TypeOK
  <2>2. /\ loc'[p].run = loc[p].run /\ loc'[p].sha = loc[p].sha
        /\ loc'[p].prior = loc[p].prior /\ loc'[p].st = loc[p].st
        /\ pc'[p] = "persist" => loc'[p].number = Len(open')
    BY <1>0, <2>1 DEF Local
  <2>3. pc'[p] = "persist" => loc'[p].number \in DOMAIN open'
    <3>1. pc'[p] = "persist" => open' = Append(open, TRUE)
      BY <1>10, <2>1 DEF Post
    <3>2. ASSUME NEW S, NEW q \in Seq(S), NEW e \in S
          PROVE  Len(Append(q, e)) \in DOMAIN Append(q, e)
      OBVIOUS
    <3>3. TRUE \in BOOLEAN /\ open \in Seq(BOOLEAN)
      BY <1>0 DEF TypeOK
    <3> QED
      BY <2>2, <3>1, <3>2, <3>3
  <2>4. <<loc[p].run, loc[p].sha>> \in pushed'
    BY <1>0, <2>1 DEF InHand, Grows
  <2> QED
    BY <1>0, <2>1, <2>2, <2>3, <2>4, HandStays
<1>11. CASE \/ Persist(p) \/ Record(p) \/ Opened(p) \/ Waiting(p) \/ Block(p) \/ Note(p)
            \/ CallFails(p) \/ Crash(p)
  <2>1. /\ pc[p] # "idle" /\ UNCHANGED loc
        /\ pc'[p] \in {"opened", "waiting", "failed", "note", "idle"}
    BY <1>0, <1>11 DEF Persist, Record, Opened, Waiting, Block, Note, CallFails, Crash,
           Step, Goto, TypeOK
  <2> QED
    BY <1>0, <2>1, HandStays
<1>12. CASE Failed(p)
  <2>1. /\ pc[p] = "failed" /\ pc'[p] \in {"block", "idle"}
        /\ loc'[p] = [loc[p] EXCEPT !.why = "publication"]
    BY <1>0, <1>12 DEF Failed, Step, Goto, Set, TypeOK
  <2>2. /\ loc'[p].run = loc[p].run /\ loc'[p].sha = loc[p].sha
        /\ loc'[p].prior = loc[p].prior /\ loc'[p].st = loc[p].st
    BY <1>0, <2>1 DEF Local
  <2> QED
    BY <1>0, <2>1, <2>2, HandStays
<1> QED
  BY <1>1, <1>2, <1>3, <1>4, <1>5, <1>6, <1>7, <1>8, <1>9, <1>10, <1>11, <1>12
     DEF Publishes, PublicationStep, Pass

(* Nobody takes anything out of another process's hands. *)
LEMMA HandsKept ==
    ASSUME DeliveryTypeOK, Counted, Hands, RowIsPublished, DeliveryNext
    PROVE  Hands'
<1>0. TypeOK /\ DeliveryTypeOK' /\ TypeOK' /\ Grows
  BY HistoryGrows, DeliveryTyped DEF DeliveryTypeOK
<1>1. ASSUME NEW q \in Procs, pc'[q] = pc[q], loc'[q] = loc[q]
      PROVE  InHand(q)' /\ ReviewInHand(q)'
  <2>0. InHand(q) /\ ReviewInHand(q)
    BY DEF Hands
  <2>1. CASE pc[q] = "idle"
    BY <1>1, <2>1 DEF InHand, ReviewInHand
  <2>2. CASE pc[q] # "idle"
    <3>1. Reviewed(loc[q].run) => Reviewed(loc[q].run)'
      BY <1>0, <1>1, ReviewOfProcess
    <3> QED
      BY <1>0, <1>1, <2>0, <2>2, <3>1, HandStays DEF InHand, ReviewInHand, Grows
  <2> QED
    BY <2>1, <2>2
<1>2. ASSUME NEW p \in Procs, Publishes(p) PROVE Hands'
  <2>1. InHand(p)' /\ ReviewInHand(p)'
    BY <1>0, <1>2, OwnHands
  <2>2. Framed(p)
    BY <1>0, <1>2, PublicationFrame DEF Publishes, Hands
  <2> QED
    BY <1>1, <2>1, <2>2 DEF Framed, Hands
<1>3. CASE UNCHANGED <<pc, loc>>
  BY <1>1, <1>3 DEF Hands
<1> QED
  BY <1>0, <1>2, <1>3, DeliverySteps, OthersFrame DEF ValidationReads, publication

-----------------------------------------------------------------------------
(* The row and the reviews *)

(* A row that is left alone still names a push of its own run. *)
LEMMA SameRow ==
    ASSUME Grows, Kept', RowIsPublished, UNCHANGED row
    PROVE  RowIsPublished'
<1> SUFFICES ASSUME row # NoRow
             PROVE  /\ <<row.run, row.sha>> \in pushed'
                    /\ (row.sha \in Ancestry(remote))'
                    /\ row.number \in DOMAIN open'
  BY DEF RowIsPublished
<1>1. <<row.run, row.sha>> \in pushed /\ row.number \in DOMAIN open
  BY DEF RowIsPublished
<1>2. <<row.run, row.sha>> \in pushed'
  BY <1>1 DEF Grows
<1>3. (row.sha \in Ancestry(remote))'
  <2>1. \A x \in pushed' : (x[2] \in Ancestry(remote))'
    BY DEF Kept
  <2> QED
    BY <1>2, <2>1
<1> QED
  BY <1>1, <1>2, <1>3 DEF Grows

(* The row is written only for a push in hand (persist_pull_request,       *)
(* record_revision).                                                       *)
LEMMA RowKept ==
    ASSUME DeliveryTypeOK, Hands, RowIsPublished, Kept', DeliveryNext
    PROVE  RowIsPublished'
<1>0. TypeOK /\ Grows
  BY HistoryGrows DEF DeliveryTypeOK
<1>1. ASSUME NEW p \in Procs, Publishes(p) PROVE RowIsPublished'
  <2>0. loc[p] \in Local /\ InHand(p) /\ row \in [run : Nat, number : Nat, sha : Nat]
    BY <1>0 DEF TypeOK, Hands
  <2>1. CASE UNCHANGED row
    BY <1>0, <2>1, SameRow
  <2>2. ASSUME row' # row, Persist(p) \/ Record(p)
        PROVE  RowIsPublished'
    <3>1. <<loc[p].run, loc[p].sha>> \in pushed'
      BY <1>0, <2>0, <2>2 DEF InHand, Persist, Record, Step, Grows
    <3>2. row'.run = loc[p].run /\ row'.sha = loc[p].sha /\ row'.number \in DOMAIN open'
      <4>1. CASE Persist(p)
        <5>1. /\ row' = [run |-> loc[p].run, number |-> loc[p].number, sha |-> loc[p].sha]
              /\ loc[p].number \in DOMAIN open
          BY <2>0, <2>2, <4>1 DEF Persist, Step, InHand
        <5> QED
          BY <1>0, <5>1 DEF Grows
      <4>2. CASE Record(p)
        <5>1. /\ row' = [row EXCEPT !.run = loc[p].run, !.sha = loc[p].sha]
              /\ row.run = loc[p].prior /\ loc[p].prior # 0
          BY <2>0, <2>2, <4>2 DEF Record, Step, InHand
        <5>2. row # NoRow
          BY <5>1 DEF NoRow
        <5>3. row.number \in DOMAIN open
          BY <5>2 DEF RowIsPublished
        <5> QED
          BY <1>0, <2>0, <5>1, <5>3 DEF Grows
      <4> QED
        BY <2>2, <4>1, <4>2
    <3>3. (row.sha \in Ancestry(remote))'
      <4>1. \A x \in pushed' : (x[2] \in Ancestry(remote))'
        BY DEF Kept
      <4> QED
        BY <3>1, <3>2, <4>1
    <3> QED
      BY <3>1, <3>2, <3>3 DEF RowIsPublished
  <2>3. Persist(p) \/ Record(p) \/ UNCHANGED row
    <3>1. CASE Reading(p)
      BY <3>1, ReadingIsLocal DEF shared, store
    <3>2. CASE \/ Review(p) \/ Add(p) \/ CommitIndex(p) \/ Push(p) \/ Post(p) \/ Opened(p)
               \/ Waiting(p) \/ Block(p) \/ Note(p)
      BY <3>2 DEF Review, Add, CommitIndex, Push, Pushes, Post, Opened, Waiting, Block, Note,
             store
    <3> QED
      BY <1>1, <3>1, <3>2 DEF Publishes, PublicationStep, Pass, Reading
  <2> QED
    BY <2>1, <2>2, <2>3
<1>2. CASE Others
  <2>1. UNCHANGED row
    BY <1>2 DEF Others, Retry, Override, Edit, AgentCommits, ClosePr, PersonPushes, BaseMoves,
           Rework, Lose, store
  <2> QED
    BY <1>0, <2>1, SameRow
<1>3. CASE UNCHANGED publication
  BY <1>0, <1>3, SameRow DEF publication
<1> QED
  BY <1>1, <1>2, <1>3, DeliverySteps DEF ValidationReads

(* What is pushed was reviewed before (publication.py: the gate before     *)
(* any write).                                                             *)
LEMMA ReviewsKept ==
    ASSUME DeliveryTypeOK, Counted, Hands, PublishedWasReviewed, DeliveryNext
    PROVE  PublishedWasReviewed'
<1>0. TypeOK /\ TypeOK' /\ Grows
  BY HistoryGrows, DeliveryTyped DEF DeliveryTypeOK
<1>1. \A x \in pushed : Reviewed(x[1])
  BY DEF PublishedWasReviewed, Reviewed
<1>2. \A x \in pushed : Reviewed(x[1])'
  BY <1>0, <1>1, ReviewStays
<1>3. ASSUME NEW p \in Procs, Publishes(p), pushed' # pushed
      PROVE  PublishedWasReviewed'
  <2>1. CASE Reading(p)
    BY <1>3, <2>1, ReadingIsLocal DEF shared
  <2>2. CASE Push(p)
    <3>1. pushed' = pushed \union {<<loc[p].run, loc[p].sha>>} /\ UNCHANGED loc
      BY <1>3, <2>2 DEF Push, Pushes
    <3>2. Reviewed(loc[p].run)
      BY <2>2 DEF Push, Hands, ReviewInHand
    <3>3. PICK r : r = loc[p].run
      OBVIOUS
    <3>4. Reviewed(r)'
      BY <1>0, <3>2, <3>3, ReviewStays
    <3>5. \A x \in pushed' : Reviewed(x[1])'
      BY <1>2, <3>1, <3>3, <3>4
    <3> QED
      BY <3>5 DEF PublishedWasReviewed, Reviewed
  <2>3. CASE \/ Review(p) \/ Add(p) \/ CommitIndex(p) \/ Post(p) \/ Persist(p) \/ Record(p)
             \/ Opened(p) \/ Waiting(p) \/ Block(p) \/ Note(p)
    BY <1>3, <2>3 DEF Review, Add, CommitIndex, Post, Persist, Record, Opened, Waiting,
           Block, Note
  <2> QED
    BY <1>3, <2>1, <2>2, <2>3 DEF Publishes, PublicationStep, Pass, Reading
<1>4. CASE pushed' = pushed
  BY <1>2, <1>4 DEF PublishedWasReviewed, Reviewed
<1> QED
  BY <1>0, <1>3, <1>4, DeliverySteps, OthersFrame DEF ValidationReads, publication

(* The invariant of the publication is inductive. *)
LEMMA PublishInvKept ==
    ASSUME PublishInv, DeliveryNext
    PROVE  PublishInv' /\ SameSetting
<1>1. DeliveryTypeOK' /\ Counted' /\ SameSetting
  BY DeliveryTyped DEF PublishInv
<1>2. Ordered' /\ Kept'
  BY HistoryKept DEF PublishInv
<1>3. Hands' /\ RowIsPublished' /\ PublishedWasReviewed'
  BY <1>2, HandsKept, RowKept, ReviewsKept DEF PublishInv
<1> QED
  BY <1>1, <1>2, <1>3 DEF PublishInv

-----------------------------------------------------------------------------
(* The revision bound to a run *)

(* Only update_run changes a stored revision; a rework adds one. *)
RevisionsStay ==
    /\ UNCHANGED <<status, gates>> /\ run' >= run
    /\ \A r \in 1..run : validated'[r] = validated[r]
    /\ \A r \in (run + 1)..run' : validated'[r] \in Valid

(* A publication leaves them alone. *)
LEMMA RevisionsOfPublication ==
    ASSUME TypeOK, NEW p \in Procs, Publishes(p)
    PROVE  RevisionsStay /\ UNCHANGED <<validated, run, vpc, vloc, status, gates, tree>>
<1>1. UNCHANGED <<validated, run, tree>>
  <2>1. CASE Reading(p)
    BY <2>1, ReadingIsLocal DEF shared, store, git
  <2>2. CASE \/ Review(p) \/ Add(p) \/ CommitIndex(p) \/ Push(p) \/ Post(p) \/ Opened(p)
             \/ Waiting(p) \/ Block(p) \/ Note(p) \/ Persist(p) \/ Record(p)
    BY <2>2 DEF Review, Add, CommitIndex, Push, Pushes, Post, Opened, Waiting, Block, Note,
             Persist, Record, store, git
  <2> QED
    BY <2>1, <2>2 DEF Publishes, PublicationStep, Pass, Reading
<1>2. UNCHANGED <<vpc, vloc, status, gates>>
  BY DEF Publishes, validation
<1>3. run \in Nat
  BY DEF TypeOK
<1> QED
  BY <1>1, <1>2, <1>3 DEF RevisionsStay

(* Others bind a revision only with a new run. *)
LEMMA RevisionsOfOthers ==
    ASSUME TypeOK, Others, UNCHANGED validation
    PROVE  /\ RevisionsStay /\ UNCHANGED <<vpc, vloc, status, gates>>
           /\ run' # run => Rework
<1>1. UNCHANGED <<vpc, vloc, status, gates>>
  BY DEF validation
<1>2. run \in Nat /\ run >= 1
      /\ validated \in Seq(Trees \union {None}) /\ Len(validated) = run
  BY DEF TypeOK
<1>3. CASE Rework
  <2>1. run' = run + 1 /\ tree' \in Valid /\ validated' = Append(validated, tree')
    BY <1>3 DEF Rework
  <2>2. tree' \in Trees \union {None}
    BY <2>1, GitPublishAssumption
  <2> DEFINE S == Trees \union {None}
  <2>3. tree' \in S /\ validated \in Seq(S)
    BY <1>2, <2>2
  <2> HIDE DEF S
  <2>4. /\ \A r \in 1..run : validated'[r] = validated[r]
        /\ validated'[run + 1] = tree'
    BY <1>2, <2>1, <2>3
  <2> QED
    BY <1>1, <1>2, <1>3, <2>1, <2>4 DEF RevisionsStay
<1>4. CASE ~Rework
  <2>1. UNCHANGED <<validated, run>>
    BY <1>4 DEF Others, Retry, Override, Edit, AgentCommits, ClosePr, PersonPushes, BaseMoves,
           Lose, store
  <2> QED
    BY <1>1, <1>2, <2>1 DEF RevisionsStay
<1> QED
  BY <1>3, <1>4

(* A setting that is sole stays so. *)
LEMMA SoleStays ==
    ASSUME SameSetting
    PROVE  Sole(setting)' <=> Sole(setting)
  BY DEF SameSetting, Sole

(* Of two processes of a sole validation one is the other. *)
LEMMA SoleIsOne ==
    ASSUME Sole(setting), setting.start # "bound",
           NEW p \in setting.procs, NEW q \in setting.procs
    PROVE  p = q
  BY DEF Sole

(* Steps that bind nothing keep what is bound, for any processes. *)
LEMMA SameBound ==
    ASSUME TypeOK, Bound, SameSetting, RevisionsStay,
           \A p \in Procs :
              /\ vpc'[p] = "store" /\ vloc'[p].before # None =>
                    V!RequiredGreen(vloc'[p].gates)
              /\ pc'[p] # "idle" \/ vpc'[p] # "idle" => p \in setting.procs
    PROVE  Bound'
<1>1. 1 \in 1..run
  BY DEF TypeOK
<1>2. validated'[1] = validated[1]
  BY <1>1 DEF RevisionsStay
<1> QED
  BY <1>2 DEF Bound, RevisionsStay, SameSetting, V!RequiredGreen

(* What is bound is green, and stays bound unless a validation is under    *)
(* way (tracking.py).                                                      *)
LEMMA BoundKept ==
    ASSUME PublishInv, Bound, BoundStays, DeliveryNext
    PROVE  Bound'
<1>0. TypeOK /\ V!TypeOK /\ SameSetting /\ Counted
  BY PublishInvKept DEF PublishInv, DeliveryTypeOK
<1>b. \A p \in Procs :
         /\ vpc[p] = "store" /\ vloc[p].before # None => V!RequiredGreen(vloc[p].gates)
         /\ pc[p] # "idle" \/ vpc[p] # "idle" => p \in setting.procs
  BY DEF Bound
<1>1. ASSUME NEW p \in Procs, Publishes(p) PROVE Bound'
  <2>1. RevisionsStay /\ UNCHANGED <<vpc, vloc>>
    BY <1>0, <1>1, RevisionsOfPublication
  <2>2. \A q \in Procs \ {p} : pc'[q] = pc[q]
    BY <1>0, <1>1, PublicationLocal DEF Publishes, LocalStep
  <2>3. pc[p] = "idle" => p \in setting.procs
    BY <1>1 DEF Publishes, PublicationStep, Pass, Start, Guard, Review, Rows, Match, Check,
           Status, Add, CommitIndex, ReadSha, ReadSubject, CheckTree, Push, FindOpen, Post,
           Lookup, Persist, Record, Opened, Waiting, Failed, Block, Note, CallFails, Crash,
           Requires, Step
  <2> QED
    BY <1>0, <1>b, <2>1, <2>2, <2>3, SameBound
<1>2. CASE Others /\ UNCHANGED validation
  <2>1. RevisionsStay /\ UNCHANGED <<vpc, vloc, pc>>
    BY <1>0, <1>2, RevisionsOfOthers, OthersFrame
  <2> QED
    BY <1>0, <1>b, <2>1, SameBound
<1>r. run \in Nat
  BY <1>0 DEF TypeOK
<1>s. UNCHANGED <<status, gates, validated, run>> => RevisionsStay
  BY <1>r DEF RevisionsStay
<1>3. ASSUME NEW p \in Procs, ValidationReads(p) PROVE Bound'
  <2>1. VEffect(p) /\ UNCHANGED <<pc, run>>
    BY <1>0, <1>3, VReadingEffect DEF ValidationReads, publication
  <2>2. RevisionsStay
    BY <1>s, <2>1 DEF VEffect, vshared
  <2>3. /\ vpc'[p] = "store" /\ vloc'[p].before # None => V!RequiredGreen(vloc'[p].gates)
        /\ vpc'[p] # "idle" => p \in setting.procs
    BY <1>b, <2>1 DEF VEffect
  <2>4. \A q \in Procs \ {p} : vpc'[q] = vpc[q] /\ vloc'[q] = vloc[q]
    BY <2>1 DEF VEffect, VLocalStep
  <2> QED
    BY <1>0, <1>b, <2>1, <2>2, <2>3, <2>4, SameBound
<1>4. ASSUME NEW p \in Procs, UNCHANGED publication, V!Store(p) PROVE Bound'
  <2>1. /\ vpc[p] = "store" /\ vpc'[p] = "drive" /\ VLocalStep(p) /\ UNCHANGED vloc
        /\ status' = "SUCCEEDED" /\ gates' = vloc[p].gates
        /\ validated'[1] = vloc[p].before
    BY <1>0, <1>4, StoreEffect
  <2>2. UNCHANGED pc
    BY <1>4 DEF publication
  <2>3. validated'[1] # None => V!RequiredGreen(gates)'
    BY <1>b, <2>1 DEF V!RequiredGreen
  <2>4. setting'.start # "bound"
    BY <1>0, <2>1 DEF BoundStays, Bound, Sole, SameSetting, Validating
  <2>5. \A q \in Procs \ {p} : vpc'[q] = vpc[q]
    BY <2>1 DEF VLocalStep
  <2>6. \A q \in Procs :
          /\ vpc'[q] = "store" /\ vloc'[q].before # None => V!RequiredGreen(vloc'[q].gates)
          /\ pc'[q] # "idle" \/ vpc'[q] # "idle" => q \in setting'.procs
    BY <1>0, <1>b, <2>1, <2>2, <2>5 DEF SameSetting
  <2> QED
    BY <2>1, <2>3, <2>4, <2>6 DEF Bound, V!RequiredGreen
<1>5. ASSUME NEW p \in Procs, UNCHANGED publication, V!Drive(p) PROVE Bound'
  <2>1. /\ vpc[p] = "drive" /\ vpc'[p] = "idle" /\ VLocalStep(p) /\ UNCHANGED vloc
        /\ UNCHANGED <<status, gates, validated>>
    BY <1>0, <1>5, DriveEffect
  <2>2. UNCHANGED <<pc, run>>
    BY <1>5 DEF publication
  <2>3. \A q \in Procs \ {p} : vpc'[q] = vpc[q]
    BY <2>1 DEF VLocalStep
  <2>4. RevisionsStay
    BY <1>s, <2>1, <2>2
  <2> QED
    BY <1>0, <1>b, <2>1, <2>2, <2>3, <2>4, SameBound
<1>6. CASE UNCHANGED <<status, gates, validated, run, vpc, vloc, pc>>
  BY <1>0, <1>6, <1>b, <1>s, SameBound
<1>7. ASSUME NEW p \in Procs, UNCHANGED publication, V!GateWrites(p) PROVE Bound'
  BY <1>0, <1>6, <1>7, GateWritesEffect DEF publication
<1>8. CASE UNCHANGED publication /\ (V!EngineEnds \/ V!Requeue)
  BY <1>6, <1>8 DEF publication, V!EngineEnds, V!Requeue, V!store, V!world
<1> QED
  BY <1>1, <1>2, <1>3, <1>4, <1>5, <1>7, <1>8, DeliverySteps

(* Steps that bind nothing keep the revisions of the processes.            *)
LEMMA SameStays ==
    ASSUME TypeOK, TypeOK', BoundStays, Sole(setting), Grows, RevisionsStay,
           run' > 1 \/ task' \in {"PR_OPEN", "WAITING_HUMAN"} => validated[1] # None,
           \A x \in pushed' \ pushed : commits'[x[2]].tree = validated'[x[1]],
           \A p \in Procs :
              /\ vpc'[p] \in Validating => validated[1] = None
              /\ pc'[p] # "idle" => vpc'[p] = "idle" /\ validated[1] # None
              /\ pc'[p] = "push" => commits'[loc'[p].sha].tree = validated'[loc'[p].run]
    PROVE  BoundStays'
<1>0. /\ run \in Nat /\ run >= 1 /\ run' \in Nat /\ run' >= run
      /\ pushed \subseteq (1..run) \X DOMAIN commits
  BY DEF TypeOK, RevisionsStay
<1>1. validated'[1] = validated[1]
  BY <1>0 DEF RevisionsStay
<1>2. \A r \in 2..run' : validated'[r] # None
  <2> SUFFICES ASSUME NEW r \in 2..run' PROVE validated'[r] # None
    OBVIOUS
  <2>1. CASE r \in 2..run
    BY <1>0, <2>1 DEF BoundStays, RevisionsStay
  <2>2. CASE r \in (run + 1)..run'
    BY <2>2, GitPublishAssumption DEF RevisionsStay
  <2> QED
    BY <1>0, <2>1, <2>2
<1>3. PublishedIsValidated'
  <2> SUFFICES ASSUME NEW x \in pushed' PROVE commits'[x[2]].tree = validated'[x[1]]
    BY DEF PublishedIsValidated
  <2>1. CASE x \in pushed
    <3>1. x[1] \in 1..run /\ x[2] \in DOMAIN commits
      BY <1>0, <2>1
    <3>2. commits[x[2]].tree = validated[x[1]]
      BY <2>1 DEF BoundStays, PublishedIsValidated
    <3> QED
      BY <3>1, <3>2 DEF Grows, RevisionsStay
  <2> QED
    BY <2>1
<1> QED
  BY <1>1, <1>2, <1>3 DEF BoundStays

(* A process with a checked commit holds it until the push.                *)
LEMMA CheckedStays ==
    ASSUME TypeOK, BoundStays, Hands, Sole(setting), Grows, RevisionsStay, NEW p \in Procs,
           pc[p] = "push", loc'[p] = loc[p]
    PROVE  commits'[loc'[p].sha].tree = validated'[loc'[p].run]
<1>1. loc[p].sha \in DOMAIN commits /\ loc[p].run \in 1..run
  BY DEF Hands, InHand
<1>2. commits[loc[p].sha].tree = validated[loc[p].run]
  BY DEF BoundStays
<1> QED
  BY <1>1, <1>2 DEF Grows, RevisionsStay

(* A validation is under way only while nothing is bound, so what is bound *)
(* stays bound, when one process validates (tracking.py, publication.py).  *)
LEMMA BoundStaysKept ==
    ASSUME PublishInv, Bound, BoundStays, DeliveryNext
    PROVE  BoundStays'
<1>0. /\ TypeOK /\ V!TypeOK /\ TypeOK' /\ SameSetting /\ Counted /\ Hands /\ Grows
  BY PublishInvKept, HistoryGrows DEF PublishInv, DeliveryTypeOK
<1> SUFFICES ASSUME Sole(setting) PROVE BoundStays'
  BY <1>0, SoleStays DEF BoundStays
<1>b. \A p \in Procs :
         /\ vpc[p] \in Validating => validated[1] = None
         /\ pc[p] # "idle" => vpc[p] = "idle" /\ validated[1] # None
  BY DEF BoundStays
<1>t. run > 1 \/ task \in {"PR_OPEN", "WAITING_HUMAN"} => validated[1] # None
  BY DEF BoundStays
<1>n. run \in Nat /\ run >= 1
  BY <1>0 DEF TypeOK
<1>s. UNCHANGED <<status, gates, validated, run>> => RevisionsStay
  BY <1>n DEF RevisionsStay
<1>1. ASSUME NEW p \in Procs, Publishes(p) PROVE BoundStays'
  <2>1. RevisionsStay /\ UNCHANGED <<vpc, run, validated>>
    BY <1>0, <1>1, RevisionsOfPublication
  <2>2. \A q \in Procs \ {p} : pc'[q] = pc[q] /\ loc'[q] = loc[q]
    BY <1>0, <1>1, PublicationLocal DEF Publishes, LocalStep
  <2>3. validated[1] # None /\ vpc[p] = "idle"
    <3>1. CASE pc[p] = "idle"
      <4>1. Start(p)
        BY <1>1, <3>1 DEF Publishes, PublicationStep, Pass, Start, Guard, Review, Rows, Match,
               Check, Status, Add, CommitIndex, ReadSha, ReadSubject, CheckTree, Push,
               FindOpen, Post, Lookup, Persist, Record, Opened, Waiting, Failed, Block, Note,
               CallFails, Crash, Requires, Step
      <4>2. validated[run] # None
        BY <4>1 DEF Start
      <4> QED
        BY <1>1, <1>n, <1>t, <3>1, <4>2 DEF Publishes
    <3> QED
      BY <1>b, <3>1
  <2>4. CheckTree(p) \/ pc'[p] # "push"
    <3>1. CASE PublicationStep(p) /\ ~CheckTree(p)
      <4>1. pc \in [Procs -> Steps]
        BY <1>0 DEF TypeOK
      <4> QED
        BY <3>1, <4>1 DEF PublicationStep, Pass, Start, Guard, Review, Rows, Match,
               Check, Status, Add, CommitIndex, ReadSha, ReadSubject, Push,
               FindOpen, Post, Lookup, Persist, Record, Opened, Waiting, Failed, Block, Note,
               CallFails, Crash, Requires, Step, Goto
    <3> QED
      BY <1>1, <3>1 DEF Publishes
  <2>5. CheckTree(p) /\ pc'[p] = "push" =>
            commits'[loc'[p].sha].tree = validated'[loc'[p].run]
    <3>1. CheckTree(p) /\ pc'[p] = "push" =>
             /\ commits[loc[p].sha].tree = validated[loc[p].run]
             /\ UNCHANGED <<commits, loc, validated>>
      BY <1>0 DEF CheckTree, Requires, Step, Goto, TypeOK, git, store
    <3> QED
      BY <3>1
  <2>6. \A q \in Procs : pc'[q] = "push" =>
            commits'[loc'[q].sha].tree = validated'[loc'[q].run]
    BY <1>0, <2>1, <2>2, <2>4, <2>5, CheckedStays
  <2>7. \A x \in pushed' \ pushed : commits'[x[2]].tree = validated'[x[1]]
    <3>1. CASE Reading(p)
      BY <3>1, ReadingIsLocal DEF shared
    <3>2. CASE Push(p)
      <4>1. \A x \in pushed' \ pushed : x = <<loc[p].run, loc[p].sha>>
        BY <3>2 DEF Push, Pushes
      <4>2. pc[p] = "push" /\ UNCHANGED loc
        BY <3>2 DEF Push
      <4>3. commits'[loc'[p].sha].tree = validated'[loc'[p].run]
        BY <1>0, <2>1, <4>2, CheckedStays
      <4> QED
        BY <4>1, <4>2, <4>3
    <3>3. CASE \/ Review(p) \/ Add(p) \/ CommitIndex(p) \/ Post(p) \/ Persist(p) \/ Record(p)
               \/ Opened(p) \/ Waiting(p) \/ Block(p) \/ Note(p)
      BY <3>3 DEF Review, Add, CommitIndex, Post, Persist, Record, Opened, Waiting,
             Block, Note
    <3> QED
      BY <1>1, <3>1, <3>2, <3>3 DEF Publishes, PublicationStep, Pass, Reading
  <2> QED
    BY <1>0, <1>b, <2>1, <2>2, <2>3, <2>6, <2>7, SameStays
<1>2. CASE Others /\ UNCHANGED validation
  <2>1. RevisionsStay /\ UNCHANGED <<vpc, pc, loc, pushed>> /\ (run' # run => Rework)
    BY <1>0, <1>2, RevisionsOfOthers, OthersFrame
  <2>2. run' > 1 \/ task' \in {"PR_OPEN", "WAITING_HUMAN"} => validated[1] # None
    <3>1. CASE Rework
      BY <1>t, <3>1 DEF Rework
    <3>2. CASE ~Rework
      <4>1. UNCHANGED task \/ task' = "VALIDATING"
        BY <1>2, <3>2 DEF Others, Retry, Override, Edit, AgentCommits, ClosePr, PersonPushes,
               BaseMoves, Lose, store
      <4> QED
        BY <1>t, <2>1, <3>2, <4>1
    <3> QED
      BY <3>1, <3>2
  <2>3. \A q \in Procs : pc'[q] = "push" =>
            commits'[loc'[q].sha].tree = validated'[loc'[q].run]
    BY <1>0, <2>1, CheckedStays
  <2> QED
    BY <1>0, <1>b, <2>1, <2>2, <2>3, SameStays
<1>p. ASSUME UNCHANGED publication, RevisionsStay,
             task' \in {"PR_OPEN", "WAITING_HUMAN"} => UNCHANGED task,
             \A q \in Procs :
                /\ vpc'[q] \in Validating => validated[1] = None
                /\ pc[q] # "idle" => vpc'[q] = "idle"
      PROVE  BoundStays'
  <2>1. UNCHANGED <<run, pc, loc, pushed>>
    BY <1>p DEF publication
  <2>2. \A q \in Procs : pc'[q] = "push" =>
            commits'[loc'[q].sha].tree = validated'[loc'[q].run]
    BY <1>0, <1>p, <2>1, CheckedStays
  <2> QED
    BY <1>0, <1>b, <1>p, <1>t, <2>1, <2>2, SameStays
<1>3. ASSUME NEW p \in Procs, ValidationReads(p) PROVE BoundStays'
  <2>1. VEffect(p) /\ UNCHANGED run
    BY <1>0, <1>3, VReadingEffect DEF ValidationReads, publication
  <2>2. RevisionsStay /\ UNCHANGED task
    BY <1>s, <2>1 DEF VEffect, vshared
  <2>3. \A q \in Procs \ {p} : vpc'[q] = vpc[q]
    BY <2>1 DEF VEffect, VLocalStep
  <2>4. V!NeedsValidation => validated[1] = None
    BY DEF V!NeedsValidation, V!Revalidates, Bound, V!None, None
  <2>5. vpc'[p] \in Validating => validated[1] = None
    BY <1>b, <2>1, <2>4 DEF VEffect, Validating
  <2>6. pc[p] = "idle"
    BY <1>3, <1>b DEF ValidationReads
  <2> QED
    BY <1>3, <1>b, <1>p, <2>2, <2>3, <2>5, <2>6 DEF ValidationReads
<1>4. ASSUME NEW p \in Procs, UNCHANGED publication, run = 1, V!Store(p) PROVE BoundStays'
  <2>1. /\ vpc[p] = "store" /\ vpc'[p] = "drive" /\ VLocalStep(p) /\ UNCHANGED task
    BY <1>0, <1>4, StoreEffect
  <2>2. validated[1] = None
    BY <1>b, <2>1 DEF Validating
  <2>3. UNCHANGED <<pc, run, pushed>>
    BY <1>4 DEF publication
  <2>4. setting.start # "bound"
    BY <2>2 DEF Bound
  <2>5. \A q \in Procs : vpc'[q] \notin Validating
    <3> SUFFICES ASSUME NEW q \in Procs, vpc'[q] \in Validating PROVE FALSE
      OBVIOUS
    <3>1. q # p /\ vpc[q] # "idle"
      BY <2>1 DEF Validating, VLocalStep
    <3>2. p \in setting.procs /\ q \in setting.procs
      BY <2>1, <3>1 DEF Bound
    <3> QED
      BY <2>4, <3>1, <3>2, SoleIsOne
  <2>6. \A q \in Procs : pc'[q] = "idle"
    BY <1>b, <2>2, <2>3
  <2>7. pushed = {}
    <3> SUFFICES ASSUME NEW x \in pushed PROVE FALSE
      OBVIOUS
    <3>1. x[1] = 1 /\ x[2] \in DOMAIN commits
      BY <1>0, <1>4, SMTT(30) DEF TypeOK
    <3>2. commits[x[2]].tree = None
      BY <2>2, <3>1 DEF BoundStays, PublishedIsValidated
    <3>3. commits[x[2]] \in Commit
      BY <1>0, <3>1 DEF TypeOK
    <3> QED
      BY <3>2, <3>3, GitPublishAssumption DEF Commit
  <2>8. ~(run' > 1 \/ task' \in {"PR_OPEN", "WAITING_HUMAN"}) /\ 2..run' = {}
    BY <1>4, <1>t, <2>1, <2>2, <2>3
  <2> QED
    BY <2>3, <2>5, <2>6, <2>7, <2>8 DEF BoundStays, PublishedIsValidated
<1>5. ASSUME NEW p \in Procs, UNCHANGED publication, V!Drive(p) PROVE BoundStays'
  <2>1. /\ vpc'[p] = "idle" /\ VLocalStep(p)
        /\ task' = "VALIDATING" \/ UNCHANGED task
        /\ UNCHANGED <<status, gates, validated>>
    BY <1>0, <1>5, DriveEffect
  <2>2. \A q \in Procs \ {p} : vpc'[q] = vpc[q]
    BY <2>1 DEF VLocalStep
  <2>3. RevisionsStay
    BY <1>5, <1>s, <2>1 DEF publication
  <2>4. "idle" \notin Validating
    BY DEF Validating
  <2> QED
    BY <1>5, <1>b, <1>p, <2>1, <2>2, <2>3, <2>4
<1>6. ASSUME NEW p \in Procs, UNCHANGED publication, V!GateWrites(p) PROVE BoundStays'
  <2>1. UNCHANGED <<status, gates, validated, run, task, vpc>>
    BY <1>0, <1>6, GateWritesEffect DEF publication
  <2> QED
    BY <1>6, <1>b, <1>p, <1>s, <2>1
<1>7. CASE UNCHANGED publication /\ (V!EngineEnds \/ V!Requeue)
  <2>1. /\ UNCHANGED <<status, gates, validated, run, vpc>>
        /\ task' = "READY" \/ UNCHANGED task
    BY <1>7 DEF publication, V!EngineEnds, V!Requeue, V!store, V!world
  <2> QED
    BY <1>7, <1>b, <1>p, <1>s, <2>1
<1> QED
  BY <1>1, <1>2, <1>3, <1>4, <1>5, <1>6, <1>7, DeliverySteps

(* Only the processes of the setting publish. *)
LEMMA PublishesIsOurs ==
    ASSUME Bound, NEW p \in Procs, Publishes(p)
    PROVE  p \in setting.procs /\ (pc[p] = "idle" => Start(p))
<1>1. pc[p] = "idle" => Start(p)
  BY DEF Publishes, PublicationStep, Pass, Start, Guard, Review, Rows, Match, Check,
         Status, Add, CommitIndex, ReadSha, ReadSubject, CheckTree, Push, FindOpen, Post,
         Lookup, Persist, Record, Opened, Waiting, Failed, Block, Note, CallFails, Crash,
         Requires, Step
<1> QED
  BY <1>1 DEF Start, Bound

(* A step of the one process that publishes keeps to the latest run. *)
LEMMA AloneSteps ==
    ASSUME TypeOK, NEW p \in Procs, Alone(p), Publishes(p), pc[p] = "idle" => Start(p)
    PROVE  Alone(p)'
<1>0. /\ loc[p] \in Local /\ run \in Nat /\ row \in [run : Nat, number : Nat, sha : Nat]
      /\ pc \in [Procs -> Steps] /\ loc \in [Procs -> Local] /\ UNCHANGED run
  BY RevisionsOfPublication DEF TypeOK
<1>a. /\ task \in {"PR_OPEN", "WAITING_HUMAN"} => row.run = run
      /\ pc[p] # "idle" => task # "WAITING_HUMAN" /\ loc[p].run = run
      /\ pc[p] = "opened" => row.run = run
      /\ pc[p] \in {"guard", "review", "rows"} => task \in {"VALIDATING", "PR_OPEN"}
      /\ pc[p] \in {"review", "rows"} => loc[p].st = task
  BY DEF Alone
<1>1. CASE Start(p)
  <2>1. /\ pc'[p] = "guard" /\ loc'[p] = [Nothing EXCEPT !.run = run]
        /\ UNCHANGED <<task, row>> /\ task \in {"VALIDATING", "PR_OPEN"}
    BY <1>0, <1>1 DEF Start, Step, Goto, Set, store
  <2>2. loc'[p].run = run
    BY <2>1 DEF Nothing
  <2> QED
    BY <1>0, <1>a, <2>1, <2>2 DEF Alone
<1>2. CASE Guard(p)
  <2>1. /\ pc[p] = "guard" /\ pc'[p] \in {"failed", "rows", "review"}
        /\ loc'[p] = [loc[p] EXCEPT !.st = task]
        /\ UNCHANGED <<task, row>>
    BY <1>0, <1>2 DEF Guard, Requires, Step, Goto, Set, store
  <2>2. /\ loc'[p].run = loc[p].run /\ loc'[p].st = task
    BY <1>0, <2>1 DEF Local
  <2> QED
    BY <1>0, <1>a, <2>1, <2>2 DEF Alone
<1>3. CASE Review(p)
  <2>1. /\ pc[p] = "review" /\ pc'[p] \in {"rows", "block"} /\ UNCHANGED <<task, row>>
        /\ loc'[p] = loc[p] \/ loc'[p] = [loc[p] EXCEPT !.why = "security"]
    BY <1>0, <1>3 DEF Review, Goto, Set
  <2>2. loc'[p].run = loc[p].run /\ loc'[p].st = loc[p].st
    BY <1>0, <2>1 DEF Local
  <2> QED
    BY <1>0, <1>a, <2>1, <2>2 DEF Alone
<1>4. CASE Rows(p)
  <2>1. /\ pc[p] = "rows" /\ UNCHANGED <<task, row>>
        /\ pc'[p] \in {"failed", "opened", "match", "check"}
        /\ pc'[p] = "opened" =>
              row.run = loc[p].run \/ loc[p].st # "VALIDATING"
    BY <1>0, <1>4 DEF Rows, Requires, Step, Goto, store, Existing, UnderReview
  <2>2. \/ loc'[p] = loc[p]
        \/ loc'[p] = [loc[p] EXCEPT !.prior = row.run, !.number = row.number]
    BY <1>0, <1>4 DEF Rows, Set
  <2>3. loc'[p].run = loc[p].run
    BY <1>0, <2>2 DEF Local
  <2> QED
    BY <1>0, <1>a, <2>1, <2>3 DEF Alone
<1>5. CASE Persist(p) \/ Record(p)
  <2>1. /\ pc[p] \in {"persist", "record"} /\ pc'[p] \in {"opened", "failed"}
        /\ UNCHANGED <<task, loc>>
    BY <1>0, <1>5 DEF Persist, Record, Step, Goto
  <2>2. CASE Persist(p)
    <3>1. /\ row = NoRow =>
               row' = [run |-> loc[p].run, number |-> loc[p].number, sha |-> loc[p].sha]
          /\ row # NoRow => row' = row
          /\ pc'[p] = "opened" => row = NoRow \/ row.run = loc[p].run
      BY <1>0, <2>2 DEF Persist, Step, Goto
    <3>2. row'.run = loc[p].run \/ (row' = row /\ pc'[p] # "opened")
      BY <3>1
    <3> QED
      BY <1>0, <1>a, <2>1, <3>2 DEF Alone
  <2>3. CASE Record(p)
    <3>1. /\ row.run = loc[p].prior =>
               row' = [row EXCEPT !.run = loc[p].run, !.sha = loc[p].sha]
          /\ row.run # loc[p].prior => row' = row
          /\ pc'[p] = "opened" => row.run = loc[p].prior
      BY <1>0, <2>3 DEF Record, Step, Goto
    <3>2. row'.run = loc[p].run \/ (row' = row /\ pc'[p] # "opened")
      BY <1>0, <3>1
    <3> QED
      BY <1>0, <1>a, <2>1, <3>2 DEF Alone
  <2> QED
    BY <1>5, <2>2, <2>3
<1>6. CASE Opened(p) \/ Waiting(p)
  <2>1. /\ UNCHANGED <<row, loc>>
        /\ \/ /\ pc[p] = "opened" /\ pc'[p] = "waiting"
              /\ task' = IF task = "VALIDATING" THEN "PR_OPEN" ELSE task
           \/ /\ pc[p] = "waiting" /\ pc'[p] = "idle"
              /\ task' = IF task = "PR_OPEN" THEN "WAITING_HUMAN" ELSE task
    BY <1>0, <1>6 DEF Opened, Waiting, Step, Goto
  <2> QED
    BY <1>0, <1>a, <2>1 DEF Alone
<1>7. CASE Block(p) \/ Note(p)
  <2>1. /\ UNCHANGED <<row, loc>> /\ pc[p] # "idle" /\ pc'[p] \in {"note", "idle"}
        /\ task' \in {"BLOCKED", task}
    BY <1>0, <1>7 DEF Block, Note, Step, Goto
  <2> QED
    BY <1>0, <1>a, <2>1 DEF Alone
<1>l. ASSUME pc[p] # "idle", UNCHANGED <<task, row>>, loc'[p].run = loc[p].run,
             pc'[p] \notin {"opened", "guard", "review", "rows"}
      PROVE  Alone(p)'
  BY <1>0, <1>a, <1>l DEF Alone
<1>8. CASE \/ Match(p) \/ Check(p) \/ Status(p) \/ Add(p) \/ CommitIndex(p)
           \/ ReadSubject(p) \/ CheckTree(p) \/ CallFails(p) \/ Crash(p)
  <2>1. /\ pc[p] # "idle" /\ UNCHANGED <<task, row, loc>>
        /\ pc'[p] \notin {"opened", "guard", "review", "rows"}
    BY <1>0, <1>8 DEF Match, Check, Status, Add, CommitIndex, ReadSubject, CheckTree, CallFails,
           Crash, Requires, Step, Goto, store
  <2> QED
    BY <1>l, <2>1
<1>9. CASE Push(p)
  <2>1. /\ pc[p] # "idle" /\ UNCHANGED <<task, row, loc>>
        /\ pc'[p] \notin {"opened", "guard", "review", "rows"}
    BY <1>0, <1>9 DEF Push, Pushes, Goto, store
  <2> QED
    BY <1>l, <2>1
<1>10. CASE ReadSha(p)
  <2>1. /\ pc[p] # "idle" /\ UNCHANGED <<task, row>> /\ loc'[p] = [loc[p] EXCEPT !.sha = head]
        /\ pc'[p] \notin {"opened", "guard", "review", "rows"}
    BY <1>0, <1>10 DEF ReadSha, Requires, Step, Goto, Set, store
  <2>2. loc'[p].run = loc[p].run
    BY <1>0, <2>1 DEF Local
  <2> QED
    BY <1>l, <2>1, <2>2
<1>11. CASE FindOpen(p) \/ Lookup(p)
  <2> DEFINE n == IF OpenPrs # {} THEN CHOOSE n \in OpenPrs : TRUE ELSE 0
  <2>1. loc' = [loc EXCEPT ![p] = [loc[p] EXCEPT !.number = n]]
    BY <1>11 DEF FindOpen, Lookup, Set
  <2> HIDE DEF n
  <2>2. /\ pc[p] # "idle" /\ UNCHANGED <<task, row>>
        /\ pc'[p] \notin {"opened", "guard", "review", "rows"}
    BY <1>0, <1>11 DEF FindOpen, Lookup, Requires, Step, Goto, store
  <2>3. loc'[p].run = loc[p].run
    BY <1>0, <2>1 DEF Local
  <2> QED
    BY <1>l, <2>2, <2>3
<1>12. CASE Post(p)
  <2>1. /\ pc[p] # "idle" /\ UNCHANGED <<task, row>>
        /\ pc'[p] \notin {"opened", "guard", "review", "rows"}
        /\ loc'[p] = loc[p] \/ loc'[p] = [loc[p] EXCEPT !.number = Len(open')]
    BY <1>0, <1>12 DEF Post, Goto, Set, store
  <2>2. loc'[p].run = loc[p].run
    BY <1>0, <2>1 DEF Local
  <2> QED
    BY <1>l, <2>1, <2>2
<1>13. CASE Failed(p)
  <2>1. /\ pc[p] # "idle" /\ UNCHANGED <<task, row>>
        /\ pc'[p] \notin {"opened", "guard", "review", "rows"}
        /\ loc'[p] = [loc[p] EXCEPT !.why = "publication"]
    BY <1>0, <1>13 DEF Failed, Step, Goto, Set, store
  <2>2. loc'[p].run = loc[p].run
    BY <1>0, <2>1 DEF Local
  <2> QED
    BY <1>l, <2>1, <2>2
<1> QED
  BY <1>1, <1>2, <1>3, <1>4, <1>5, <1>6, <1>7, <1>8, <1>9, <1>10, <1>11, <1>12, <1>13
     DEF Publishes, PublicationStep, Pass

(* A process that works alone publishes the latest run (publication.py     *)
(* _reconcile).                                                            *)
LEMMA AloneKept ==
    ASSUME PublishInv, Bound, BoundStays, AloneIsCurrent, DeliveryNext
    PROVE  AloneIsCurrent'
<1>0. TypeOK /\ V!TypeOK /\ SameSetting /\ Counted
  BY PublishInvKept DEF PublishInv, DeliveryTypeOK
<1> SUFFICES ASSUME NEW p \in Procs, setting.procs = {p} PROVE Alone(p)'
  BY <1>0 DEF AloneIsCurrent, SameSetting
<1>a. Alone(p) /\ Sole(setting)
  BY DEF AloneIsCurrent, Sole
<1>f. ASSUME UNCHANGED <<task, row, run, pc, loc>> PROVE Alone(p)'
  BY <1>a, <1>f DEF Alone
<1>1. ASSUME NEW q \in Procs, Publishes(q) PROVE Alone(p)'
  <2>1. q = p
    BY <1>1, PublishesIsOurs
  <2> QED
    BY <1>0, <1>1, <1>a, <2>1, AloneSteps, PublishesIsOurs
<1>2. CASE Others /\ UNCHANGED validation
  <2>1. UNCHANGED <<pc, loc>>
    BY <1>0, <1>2, OthersFrame
  <2>2. CASE Retry \/ Override
    <3>1. /\ task = "BLOCKED" /\ task' \in {task, "VALIDATING"} /\ UNCHANGED <<row, run>>
      BY <2>2 DEF Retry, Override
    <3> QED
      BY <1>a, <2>1, <3>1 DEF Alone
  <2>3. CASE Rework
    <3>1. task = "WAITING_HUMAN" /\ task' = "VALIDATING"
      BY <2>3 DEF Rework
    <3> QED
      BY <1>a, <2>1, <3>1 DEF Alone
  <2>4. CASE Edit \/ AgentCommits \/ ClosePr \/ PersonPushes \/ BaseMoves \/ Lose
    <3>1. UNCHANGED <<task, row, run>>
      BY <2>4 DEF Edit, AgentCommits, ClosePr, PersonPushes, BaseMoves, Lose, store
    <3> QED
      BY <1>f, <2>1, <3>1
  <2> QED
    BY <1>2, <2>2, <2>3, <2>4 DEF Others
<1>3. ASSUME NEW q \in Procs, ValidationReads(q) PROVE Alone(p)'
  <2>1. VEffect(q) /\ UNCHANGED publication
    BY <1>0, <1>3, VReadingEffect DEF ValidationReads
  <2> QED
    BY <1>f, <2>1 DEF VEffect, vshared, publication
<1>4. ASSUME NEW q \in Procs, UNCHANGED publication, V!Store(q) PROVE Alone(p)'
  <2>1. UNCHANGED task
    BY <1>0, <1>4, StoreEffect
  <2> QED
    BY <1>4, <1>f, <2>1 DEF publication
<1>5. ASSUME NEW q \in Procs, UNCHANGED publication, pc[q] = "idle", V!Drive(q)
      PROVE  Alone(p)'
  <2>1. vpc[q] = "drive" /\ (task' = "VALIDATING" \/ UNCHANGED task)
    BY <1>0, <1>5, DriveEffect
  <2>2. q = p
    BY <2>1 DEF Bound
  <2> QED
    BY <1>5, <1>a, <2>1, <2>2 DEF Alone, publication
<1>6. ASSUME NEW q \in Procs, UNCHANGED publication, V!GateWrites(q) PROVE Alone(p)'
  <2>1. UNCHANGED task
    BY <1>0, <1>6, GateWritesEffect
  <2> QED
    BY <1>6, <1>f, <2>1 DEF publication
<1>7. CASE UNCHANGED publication /\ V!EngineEnds
  BY <1>7, <1>f DEF publication, V!EngineEnds, V!store
<1>8. CASE UNCHANGED publication /\ V!Requeue
  <2>1. task' = "READY" /\ ~V!RequiredGreen(gates)
    BY <1>8 DEF V!Requeue
  <2>2. pc[p] = "idle"
    BY <1>a, <2>1 DEF Bound, BoundStays
  <2> QED
    BY <1>8, <2>1, <2>2 DEF Alone, publication
<1> QED
  BY <1>1, <1>2, <1>3, <1>4, <1>5, <1>6, <1>7, <1>8, DeliverySteps

-----------------------------------------------------------------------------
(* The gates of the revision *)

(* The files change no more, once they do not, and never more often. *)
LEMMA QuietStays ==
    ASSUME TypeOK, TypeOK', SameSetting, Quiet(setting)
    PROVE  Quiet(setting)' /\ (NoMoreEdits => NoMoreEdits')
<1>1. setting.edits \in Nat /\ setting'.edits \in Nat
  BY DEF TypeOK, Setting
<1> QED
  BY <1>1 DEF SameSetting, Quiet, NoMoreEdits

(* A validation that is left alone, with its files, keeps true results. *)
LEMMA SameGates ==
    ASSUME NEW p \in Procs, GatesTrue(p), NoMoreEdits => NoMoreEdits',
           vpc'[p] = vpc[p], vloc'[p] = vloc[p], UNCHANGED tree
    PROVE  GatesTrue(p)'
  BY DEF GatesTrue

(* Both fingerprints agree and every required gate is green: the revision  *)
(* passes them (tracking.py).                                              *)
LEMMA RevisionIsValid ==
    ASSUME DeliveryTypeOK, Counted, NEW p \in Procs, GatesTrue(p), vpc[p] = "after",
           tree = vloc[p].before, V!RequiredGreen(vloc[p].gates)
    PROVE  vloc[p].before \in Valid
<1> DEFINE gs == vloc[p].gates
<1>0. /\ gs \in Seq(V!Gate) /\ Len(gs) = Len(Specs) /\ Specs \in Seq(STRING)
  BY DeliveryAssumption DEF DeliveryTypeOK, V!TypeOK, Counted
<1>1. /\ vloc[p].before \in Trees
      /\ \A i \in 1..Len(gs) : gs[i].required = (Specs[i] \in Required)
      /\ \A i \in 1..Len(gs) : gs[i].green => <<Specs[i], vloc[p].before>> \in Passing
  BY DEF GatesTrue
<1>2. \A i \in 1..Len(gs) : gs[i].required => gs[i].green
  BY <1>0 DEF V!RequiredGreen
<1> HIDE DEF gs
<1>3. ASSUME NEW g \in Required PROVE <<g, vloc[p].before>> \in Passing
  <2>1. PICK i \in DOMAIN Specs : g = Specs[i]
    BY DeliveryAssumption
  <2>2. i \in 1..Len(gs)
    BY <1>0, <2>1
  <2> QED
    BY <1>1, <1>2, <2>1, <2>2
<1> QED
  BY <1>1, <1>3, DeliveryAssumption

(* Each step up to the second fingerprint keeps true results.              *)
LEMMA GatesOfValidation ==
    ASSUME DeliveryTypeOK, Counted, NEW p \in Procs, GatesTrue(p), VEffect(p)
    PROVE  GatesTrue(p)'
<1>0. /\ tree \in Trees /\ UNCHANGED tree /\ vloc[p].gates \in Seq(V!Gate)
      /\ vloc'[p] \in VLocal
  BY DEF DeliveryTypeOK, TypeOK, V!TypeOK, VEffect, vshared, VLocalStep
<1>m. NoMoreEdits => NoMoreEdits'
  <2>1. setting \in Setting /\ setting' \in Setting /\ SameSetting
    BY DEF DeliveryTypeOK, TypeOK, VEffect, VLocalStep
  <2>2. setting.edits \in Nat /\ setting'.edits \in Nat
    BY <2>1 DEF Setting
  <2> QED
    BY <2>1, <2>2 DEF SameSetting, NoMoreEdits
<1>1. CASE vpc'[p] \in {"gate", "after"}
  <2>1. CASE vloc'[p].before = tree /\ vloc'[p].gates = << >>
    BY <1>0, <1>1, <2>1 DEF GatesTrue
  <2>2. ASSUME vpc[p] = "gate", NEW g \in BOOLEAN,
               g => <<Specs[Len(vloc[p].gates) + 1], tree>> \in Passing,
               vloc'[p].before = vloc[p].before,
               vloc'[p].gates =
                   Append(vloc[p].gates, GateResult(Len(vloc[p].gates) + 1, g))
        PROVE  GatesTrue(p)'
    <3> DEFINE gs == vloc[p].gates
               n == Len(gs) + 1
               b == vloc[p].before
    <3>1. /\ b \in Trees
          /\ \A i \in 1..Len(gs) : gs[i].required = (Specs[i] \in Required)
          /\ \/ /\ tree = b
                /\ \A i \in 1..Len(gs) : gs[i].green => <<Specs[i], b>> \in Passing
             \/ tree # b /\ NoMoreEdits
      BY <2>2 DEF GatesTrue
    <3>2. /\ Len(gs) \in Nat /\ Len(vloc'[p].gates) = n
          /\ vloc'[p].gates[n] = GateResult(n, g)
          /\ \A i \in 1..Len(gs) : vloc'[p].gates[i] = gs[i]
      <4>0. vloc'[p].gates \in Seq(V!Gate)
        BY <1>0 DEF VLocal
      <4> DEFINE res == GateResult(n, g)
      <4>2. vloc'[p].gates = Append(gs, res)
        BY <2>2
      <4> HIDE DEF res
      <4>3. /\ Len(gs) \in Nat /\ Len(Append(gs, res)) = Len(gs) + 1
            /\ Append(gs, res)[Len(gs) + 1] = res
            /\ \A i \in 1..Len(gs) : Append(gs, res)[i] = gs[i]
        BY <1>0
      <4> QED
        BY <4>2, <4>3 DEF res
    <3>3. GateResult(n, g).required = (Specs[n] \in Required) /\ GateResult(n, g).green = g
      BY DEF GateResult
    <3>g. g => <<Specs[n], tree>> \in Passing
      BY <2>2
    <3>b. vloc'[p].before = b
      BY <2>2
    <3> HIDE DEF gs, n, b
    <3>n. n = Len(gs) + 1
      BY DEF n
    <3>4. \A i \in 1..n : vloc'[p].gates[i].required = (Specs[i] \in Required)
      BY <3>1, <3>2, <3>3, <3>n
    <3>5. tree = b => \A i \in 1..n : vloc'[p].gates[i].green => <<Specs[i], b>> \in Passing
      BY <3>1, <3>2, <3>3, <3>g, <3>n
    <3> QED
      BY <1>0, <1>1, <1>m, <3>1, <3>2, <3>4, <3>5, <3>b DEF GatesTrue
  <2> QED
    BY <1>1, <2>1, <2>2 DEF VEffect
<1>2. CASE vpc'[p] = "store"
  <2>1. CASE vloc'[p].before = None
    BY <1>2, <2>1 DEF GatesTrue
  <2>2. CASE vloc'[p].before # None
    <3>1. /\ vpc[p] = "after" /\ UNCHANGED vloc
          /\ tree = vloc[p].before /\ V!RequiredGreen(vloc[p].gates)
      BY <1>2, <2>2 DEF VEffect
    <3>2. vloc[p].before \in Valid
      BY <3>1, RevisionIsValid
    <3> QED
      BY <1>2, <3>1, <3>2 DEF GatesTrue
  <2> QED
    BY <2>1, <2>2
<1>3. CASE vpc'[p] \notin {"gate", "after", "store"}
  BY <1>3 DEF GatesTrue
<1> QED
  BY <1>1, <1>2, <1>3

(* One change of the files, if nothing is bound yet, is the last one: the  *)
(* second fingerprint differs.                                             *)
LEMMA LastChange ==
    ASSUME BoundInv, Gated, TypeOK', tree' # tree, UNCHANGED <<vpc, vloc>>,
           "edit" \in setting.world, setting.edits > 0, SameSetting,
           setting'.edits = setting.edits - 1
    PROVE  \A p \in Procs : GatesTrue(p)'
<1>0. TypeOK /\ setting.edits \in Nat /\ tree \in Trees
  BY DEF BoundInv, PublishInv, DeliveryTypeOK, TypeOK, Setting
<1> SUFFICES ASSUME NEW p \in Procs PROVE GatesTrue(p)'
  OBVIOUS
<1>g. GatesTrue(p) /\ Sole(setting) /\ Quiet(setting)
  BY DEF Gated
<1>1. CASE vpc[p] \in {"gate", "after"}
  <2>1. validated[1] = None
    BY <1>1, <1>g DEF BoundInv, BoundStays, Validating
  <2>2. setting.start # "bound"
    BY <2>1 DEF BoundInv, Bound
  <2>3. setting.edits = 1 /\ ~NoMoreEdits
    BY <1>0, <1>g, <2>2 DEF Quiet, NoMoreEdits
  <2>4. NoMoreEdits'
    BY <2>3 DEF NoMoreEdits
  <2>5. tree = vloc[p].before
    BY <1>1, <1>g, <2>3 DEF GatesTrue
  <2> QED
    BY <1>1, <1>g, <2>4, <2>5 DEF GatesTrue
<1>2. CASE vpc[p] \notin {"gate", "after"}
  BY <1>2, <1>g DEF GatesTrue
<1> QED
  BY <1>1, <1>2

(* What is bound passes every required gate, although the files may change *)
(* at any moment (tracking.py, local.py).                                  *)
LEMMA GatedKept ==
    ASSUME BoundInv, Gated, DeliveryNext
    PROVE  Gated'
<1>0. /\ TypeOK /\ V!TypeOK /\ TypeOK' /\ SameSetting /\ Counted /\ DeliveryTypeOK
  BY PublishInvKept DEF BoundInv, PublishInv, DeliveryTypeOK
<1>1. Sole(setting)' /\ Quiet(setting)' /\ (NoMoreEdits => NoMoreEdits')
  BY <1>0, SoleStays, QuietStays DEF Gated
<1> SUFFICES /\ \A p \in Procs : GatesTrue(p)'
             /\ \A r \in 1..run' : validated'[r] \in Valid \union {None}
  BY <1>1 DEF Gated
<1>g. \A p \in Procs : GatesTrue(p)
  BY DEF Gated
<1>v. \A r \in 1..run : validated[r] \in Valid \union {None}
  BY DEF Gated
<1>n. run \in Nat /\ run >= 1 /\ run' \in Nat
  BY <1>0 DEF TypeOK
<1>r. RevisionsStay => \A r \in 1..run' : validated'[r] \in Valid \union {None}
  BY <1>n, <1>v DEF RevisionsStay
<1>s. UNCHANGED <<status, gates, validated, run>> => RevisionsStay
  BY <1>n DEF RevisionsStay
<1>2. ASSUME NEW p \in Procs, Publishes(p)
      PROVE  RevisionsStay /\ \A q \in Procs : GatesTrue(q)'
  <2>1. RevisionsStay /\ UNCHANGED <<vpc, vloc, tree>>
    BY <1>0, <1>2, RevisionsOfPublication
  <2> QED
    BY <1>1, <1>g, <2>1, SameGates
<1>3. CASE Others /\ UNCHANGED validation
  <2>1. RevisionsStay /\ UNCHANGED <<vpc, vloc>>
    BY <1>0, <1>3, RevisionsOfOthers
  <2>2. CASE Edit
    <3>1. /\ tree' # tree /\ "edit" \in setting.world /\ setting.edits > 0
          /\ setting'.edits = setting.edits - 1
      <4>1. setting.edits > 0 /\ setting' = [setting EXCEPT !.edits = @ - 1]
        BY <2>2 DEF Edit, Other
      <4>2. setting'.edits = setting.edits - 1
        BY <1>0, <4>1, EditType
      <4> QED
        BY <2>2, <4>1, <4>2 DEF Edit, Other
    <3> QED
      BY <1>0, <1>r, <2>1, <3>1, LastChange
  <2>3. CASE Rework
    <3>1. task = "WAITING_HUMAN"
      BY <2>3 DEF Rework
    <3>2. validated[1] # None
      BY <3>1 DEF BoundInv, BoundStays, Gated
    <3>3. \A p \in Procs : vpc[p] \notin {"gate", "after", "store"}
      BY <3>2 DEF BoundInv, BoundStays, Gated, Validating
    <3> QED
      BY <1>r, <2>1, <3>3 DEF GatesTrue
  <2>4. CASE Retry \/ Override \/ AgentCommits \/ ClosePr \/ PersonPushes \/ BaseMoves \/ Lose
    <3>1. UNCHANGED tree
      BY <2>4 DEF Retry, Override, AgentCommits, ClosePr, PersonPushes, BaseMoves, Lose, git
    <3> QED
      BY <1>1, <1>g, <1>r, <2>1, <3>1, SameGates
  <2> QED
    BY <1>3, <2>2, <2>3, <2>4 DEF Others
<1>4. ASSUME NEW p \in Procs, ValidationReads(p)
      PROVE  RevisionsStay /\ \A q \in Procs : GatesTrue(q)'
  <2>1. VEffect(p) /\ UNCHANGED run
    BY <1>0, <1>4, VReadingEffect DEF ValidationReads, publication
  <2>2. RevisionsStay /\ UNCHANGED tree
    BY <1>s, <2>1 DEF VEffect, vshared
  <2>3. \A q \in Procs \ {p} : vpc'[q] = vpc[q] /\ vloc'[q] = vloc[q]
    BY <2>1 DEF VEffect, VLocalStep
  <2>4. GatesTrue(p)'
    BY <1>0, <1>g, <2>1, GatesOfValidation
  <2> QED
    BY <1>1, <1>g, <2>2, <2>3, <2>4, SameGates
<1>5. ASSUME NEW p \in Procs, UNCHANGED publication, run = 1, V!Store(p)
      PROVE  /\ \A q \in Procs : GatesTrue(q)'
             /\ \A r \in 1..run' : validated'[r] \in Valid \union {None}
  <2>1. /\ vpc[p] = "store" /\ vpc'[p] = "drive" /\ VLocalStep(p) /\ UNCHANGED <<vloc, tree>>
        /\ validated'[1] = vloc[p].before
    BY <1>0, <1>5, StoreEffect
  <2>2. \A q \in Procs \ {p} : vpc'[q] = vpc[q] /\ vloc'[q] = vloc[q]
    BY <2>1 DEF VLocalStep
  <2>3. GatesTrue(p)'
    BY <2>1 DEF GatesTrue
  <2>4. vloc[p].before \in Valid \union {None}
    BY <1>g, <2>1 DEF GatesTrue
  <2>5. run' = 1
    BY <1>5 DEF publication
  <2>6. \A r \in 1..run' : validated'[r] \in Valid \union {None}
    BY <2>1, <2>4, <2>5
  <2> QED
    BY <1>1, <1>g, <2>1, <2>2, <2>3, <2>6, SameGates
<1>6. ASSUME NEW p \in Procs, UNCHANGED publication, V!Drive(p)
      PROVE  RevisionsStay /\ \A q \in Procs : GatesTrue(q)'
  <2>1. /\ vpc'[p] = "idle" /\ VLocalStep(p) /\ UNCHANGED <<vloc, tree>>
        /\ UNCHANGED <<status, gates, validated>>
    BY <1>0, <1>6, DriveEffect
  <2>2. \A q \in Procs \ {p} : vpc'[q] = vpc[q]
    BY <2>1 DEF VLocalStep
  <2>3. GatesTrue(p)'
    BY <2>1 DEF GatesTrue
  <2>4. RevisionsStay
    BY <1>6, <1>s, <2>1 DEF publication
  <2> QED
    BY <1>1, <1>g, <2>1, <2>2, <2>3, <2>4, SameGates
<1>7. ASSUME NEW p \in Procs, UNCHANGED publication, V!GateWrites(p)
      PROVE  RevisionsStay /\ \A q \in Procs : GatesTrue(q)'
  <2>1. /\ tree' # tree /\ "edit" \in setting.world /\ setting.edits > 0
        /\ setting'.edits = setting.edits - 1
        /\ UNCHANGED <<status, gates, validated, vpc, vloc>>
    BY <1>0, <1>7, GateWritesEffect
  <2>2. RevisionsStay
    BY <1>7, <1>s, <2>1 DEF publication
  <2> QED
    BY <1>0, <2>1, <2>2, LastChange
<1>8. CASE UNCHANGED publication /\ (V!EngineEnds \/ V!Requeue)
  <2>1. UNCHANGED <<status, gates, validated, run, vpc, vloc, tree>>
    BY <1>8 DEF publication, V!EngineEnds, V!Requeue, V!store, V!world
  <2> QED
    BY <1>1, <1>g, <1>r, <1>s, <2>1, SameGates
<1> QED
  BY <1>2, <1>3, <1>4, <1>5, <1>6, <1>7, <1>8, <1>r, DeliverySteps

-----------------------------------------------------------------------------
(* The theorems *)

(* What the theorem on gates asks of the settings. *)
OneValidatorOneChange == \A s \in Settings : Sole(s) /\ Quiet(s)

(* Nothing is published and no process works. *)
LEMMA PublishInvInit ==
    ASSUME DeliveryInit
    PROVE  PublishInv
<1> USE DEF DeliveryInit, Init, V!Init
<1>1. TypeOK
  <2>1. commits \in Seq(Commit) /\ DOMAIN commits = 1..1 /\ Len(commits) = 1
    <3>1. [tree |-> Base, by |-> "base", past |-> {}] \in Commit
      BY GitPublishAssumption DEF Commit
    <3> QED
      BY <3>1
  <2>2. validated \in Seq(Trees \union {None}) /\ Len(validated) = 1
    <3>1. tree \in Trees \union {None} /\ None \in Trees \union {None}
      OBVIOUS
    <3>2. PICK x \in Trees \union {None} : validated = << x >>
      BY <3>1 DEF V!None, None
    <3> QED
      BY <3>2
  <2>3. Nothing \in Local /\ NoRow \in [run : Nat, number : Nat, sha : Nat]
    BY DEF Nothing, Local, TaskStatus, NoRow
  <2>4. 1 \in 1..MaxRuns
    BY GitPublishAssumption
  <2>5. /\ pc \in [Procs -> Steps] /\ loc \in [Procs -> Local]
        /\ open \in Seq(BOOLEAN)
    BY <2>3 DEF Steps
  <2>6. setting \in Setting /\ tree \in Trees /\ index \in Trees
    BY GitPublishAssumption
  <2> QED
    BY <2>1, <2>2, <2>3, <2>4, <2>5, <2>6 DEF TypeOK
<1>2. V!TypeOK
  <2>1. V!Green \in Seq(V!Gate) /\ << >> \in Seq(V!Gate)
    <3>1. Specs \in Seq(STRING) /\ DOMAIN Specs = 1..Len(Specs) /\ Len(Specs) \in Nat
      BY DeliveryAssumption
    <3>2. \A i \in DOMAIN Specs : V!Green[i] \in V!Gate
      <4> SUFFICES ASSUME NEW i \in DOMAIN Specs PROVE V!Green[i] \in V!Gate
        OBVIOUS
      <4>1. V!Green[i] =
               [name |-> Specs[i], green |-> TRUE, required |-> Specs[i] \in Required]
        BY DEF V!Green
      <4>2. (Specs[i] \in Required) \in BOOLEAN
        OBVIOUS
      <4> QED
        BY <4>1, <4>2 DEF V!Gate
    <3>3. V!Green \in [1..Len(Specs) -> V!Gate]
      BY <3>1, <3>2 DEF V!Green
    <3> QED
      BY <3>1, <3>3
  <2>2. V!Nothing \in [gates : Seq(V!Gate), before : Trees \union {V!None}]
    BY DEF V!Nothing
  <2> QED
    BY <2>1, <2>2 DEF V!TypeOK, V!Steps
<1>3. Counted
  BY DEF Counted
<1>4. Ordered /\ Kept /\ Hands
  <2>1. DOMAIN commits = {1} /\ commits[1] = [tree |-> Base, by |-> "base", past |-> {}]
    OBVIOUS
  <2> QED
    BY <2>1 DEF Ordered, Kept, Hands, InHand, ReviewInHand
<1>5. RowIsPublished /\ PublishedWasReviewed
  BY DEF RowIsPublished, PublishedWasReviewed
<1> QED
  BY <1>1, <1>2, <1>3, <1>4, <1>5 DEF PublishInv, DeliveryTypeOK

(* A run of an earlier release has green gates and no revision, a bound    *)
(* one has both.                                                           *)
LEMMA BoundInvInit ==
    ASSUME DeliveryInit
    PROVE  BoundInv
<1>1. PublishInv
  BY PublishInvInit
<1>2. /\ \A p \in Procs : pc[p] = "idle" /\ vpc[p] = "idle"
      /\ pushed = {} /\ run = 1 /\ task \in {"RUNNING", "VALIDATING"}
  BY DEF DeliveryInit, Init, V!Init
<1>3. Bound
  <2>1. validated[1] \in {None, tree} /\ (setting.start = "bound" => validated[1] = tree)
    BY DEF DeliveryInit, Init, V!Init, V!None, None
  <2>2. tree # None
    BY GitPublishAssumption DEF DeliveryInit, Init
  <2>3. status = "RUNNING" => validated[1] = None
    BY DEF DeliveryInit, V!Init, V!None, None
  <2>4. validated[1] # None => gates = V!Green
    BY DEF DeliveryInit, V!Init, V!None, None
  <2>5. V!RequiredGreen(V!Green)
    BY DEF V!RequiredGreen, V!Green
  <2> QED
    BY <1>2, <2>1, <2>2, <2>3, <2>4, <2>5 DEF Bound
<1>4. BoundStays
  BY <1>2 DEF BoundStays, Validating, PublishedIsValidated
<1>5. AloneIsCurrent
  BY <1>2 DEF AloneIsCurrent, Alone
<1> QED
  BY <1>1, <1>3, <1>4, <1>5 DEF BoundInv

(* Nothing happens to either part. *)
LEMMA BoundInvStutter ==
    ASSUME BoundInv, UNCHANGED deliveryVars
    PROVE  BoundInv'
<1> USE DEF deliveryVars, vars, validation, git, provider, store
<1>1. PublishInv'
  <2>1. TypeOK' /\ V!TypeOK' /\ Counted'
    BY DEF BoundInv, PublishInv, DeliveryTypeOK, TypeOK, V!TypeOK, Counted
  <2>2. Ordered' /\ Kept' /\ RowIsPublished' /\ PublishedWasReviewed'
    BY DEF BoundInv, PublishInv, Ordered, Kept, RowIsPublished, PublishedWasReviewed, Ancestry
  <2>3. Hands'
    BY DEF BoundInv, PublishInv, Hands, InHand, ReviewInHand, Reviewed
  <2> QED
    BY <2>1, <2>2, <2>3 DEF PublishInv, DeliveryTypeOK
<1>2. Bound'
  BY DEF BoundInv, Bound, V!RequiredGreen
<1>3. BoundStays'
  BY DEF BoundInv, BoundStays, Sole, PublishedIsValidated
<1>4. AloneIsCurrent'
  BY DEF BoundInv, AloneIsCurrent, Alone
<1> QED
  BY <1>1, <1>2, <1>3, <1>4 DEF BoundInv

(* Validation and publication, in any interleaving and with any failures,  *)
(* keep what was published, reviewed and bound.                            *)
THEOREM DeliveryInvariance == DeliverySpec => []BoundInv
<1>1. DeliveryInit => BoundInv
  BY BoundInvInit
<1>2. BoundInv /\ [DeliveryNext]_deliveryVars => BoundInv'
  <2>1. ASSUME BoundInv, DeliveryNext PROVE BoundInv'
    BY <2>1, PublishInvKept, BoundKept, BoundStaysKept, AloneKept DEF BoundInv
  <2> QED
    BY <2>1, BoundInvStutter
<1> QED
  BY <1>1, <1>2, PTL DEF DeliverySpec

(* Nothing is pushed for a run without a recorded review that passed, or   *)
(* was blocked and explicitly overridden (publication.py), for any number  *)
(* of processes and any failures.                                          *)
THEOREM ReviewedProved == DeliverySpec => []PublishedWasReviewed
<1>1. BoundInv => PublishedWasReviewed
  BY DEF BoundInv, PublishInv
<1> QED
  BY <1>1, DeliveryInvariance, PTL

(* The branch, the stored row and the person's view of them agree          *)
(* (publication.py, git_publish.py, pr_sqlite.py), for any number of       *)
(* processes and any failures.                                             *)
THEOREM BranchProved == DeliverySpec => []BranchIsTrue
<1>1. ASSUME BoundInv PROVE BranchIsTrue
  <2>1. RowIsPublished /\ PersonsWorkKept
    BY <1>1 DEF BoundInv, PublishInv, Kept, PersonsWorkKept
  <2>2. HumanSeesLatest
    <3> SUFFICES ASSUME Cardinality(setting.procs) = 1, task = "WAITING_HUMAN"
                 PROVE  row.run = run
      BY DEF HumanSeesLatest
    <3>1. setting.procs \subseteq Procs
      BY <1>1 DEF BoundInv, PublishInv, DeliveryTypeOK, TypeOK, Setting
    <3>2. IsFiniteSet(setting.procs)
      BY <3>1, GitPublishAssumption, FS_Subset
    <3>3. PICK p : setting.procs = {p}
      BY <3>2, FS_Singleton
    <3> QED
      BY <1>1, <3>1, <3>3 DEF BoundInv, AloneIsCurrent, Alone
  <2> QED
    BY <2>1, <2>2 DEF BranchIsTrue
<1> QED
  BY <1>1, DeliveryInvariance, PTL

(* What is published is exactly what was validated and passes every        *)
(* required gate, and stays validated (tracking.py, publication.py), when  *)
(* one process validates a run and the files change at most once before    *)
(* its revision is bound.                                                  *)
THEOREM PublishedProved ==
    ASSUME OneValidatorOneChange
    PROVE  DeliverySpec => []PublishedIsExact
<1>1. DeliveryInit => Gated
  <2> SUFFICES ASSUME DeliveryInit PROVE Gated
    OBVIOUS
  <2>1. Sole(setting) /\ Quiet(setting)
    BY DEF OneValidatorOneChange, DeliveryInit, Init
  <2>2. \A p \in Procs : GatesTrue(p)
    BY DEF DeliveryInit, V!Init, GatesTrue
  <2>3. validated[1] \in Valid \union {None}
    <3>1. CASE validated[1] = None
      BY <3>1
    <3>2. CASE validated[1] # None
      <4>1. validated = << tree >> /\ \A g \in Required : <<g, tree>> \in Passing
        BY <3>2 DEF DeliveryInit, V!Init, V!None, None
      <4>2. tree \in Trees
        BY DEF DeliveryInit, Init
      <4> QED
        BY <4>1, <4>2, DeliveryAssumption
    <3> QED
      BY <3>1, <3>2
  <2>4. run = 1
    BY DEF DeliveryInit, Init
  <2> QED
    BY <2>1, <2>2, <2>3, <2>4 DEF Gated
<1>2. BoundInv /\ Gated /\ [DeliveryNext]_deliveryVars => Gated'
  <2>1. ASSUME Gated, UNCHANGED deliveryVars PROVE Gated'
    <3>1. /\ UNCHANGED <<setting, tree, run, validated, vpc, vloc>>
      BY <2>1 DEF deliveryVars, vars, validation, git, store
    <3>2. \A p \in Procs : GatesTrue(p)'
      BY <2>1, <3>1 DEF Gated, GatesTrue, NoMoreEdits
    <3> QED
      BY <2>1, <3>1, <3>2 DEF Gated, Sole, Quiet
  <2> QED
    BY <2>1, GatedKept
<1>3. BoundInv /\ Gated => PublishedIsExact
  <2> SUFFICES ASSUME BoundInv, Gated PROVE PublishedIsExact
    OBVIOUS
  <2>0. TypeOK
    BY DEF BoundInv, PublishInv, DeliveryTypeOK
  <2>1. PublishedIsValidated
    BY DEF BoundInv, BoundStays, Gated
  <2>2. ASSUME NEW x \in pushed
        PROVE  commits[x[2]].tree = validated[x[1]] /\ validated[x[1]] \in Valid
               /\ validated[x[1]] # None
    <3>1. x[1] \in 1..run /\ x[2] \in DOMAIN commits
      BY <2>0 DEF TypeOK
    <3>2. commits[x[2]] \in Commit
      BY <2>0, <3>1 DEF TypeOK
    <3>3. commits[x[2]].tree \in Trees /\ commits[x[2]].tree = validated[x[1]]
      BY <2>1, <3>2 DEF Commit, PublishedIsValidated
    <3> QED
      BY <3>1, <3>3, GitPublishAssumption DEF Gated
  <2>3. PushedPassesGates
    BY <2>2 DEF PushedPassesGates
  <2>4. PublishedStaysBound
    BY <2>2 DEF PublishedStaysBound, BoundInv, Bound, V!None, None
  <2> QED
    BY <2>1, <2>3, <2>4 DEF PublishedIsExact
<1> QED
  BY <1>1, <1>2, <1>3, DeliveryInvariance, PTL DEF DeliverySpec
=============================================================================
