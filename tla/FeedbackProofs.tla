---------------------------- MODULE FeedbackProofs ----------------------------
(***************************************************************************)
(* What holds of the post-review reconciliation for any number of          *)
(* processes, any bound on revisions, decisions and faults, and whatever   *)
(* people do at the provider.                                              *)
(*                                                                         *)
(* The argument: what justifies DONE is stable at the provider (a merge    *)
(* cannot be taken back, its head and its checks no longer move, a closure *)
(* by a person and a marker remain facts), so that a value read about it   *)
(* may be stale and still be true when it is used (Justified).  A revision *)
(* read before the merge is compared again when the merge is stored        *)
(* (MergeInHand).  The comment is posted by those that found none: who is  *)
(* about to post and what is posted together never exceed the processes    *)
(* (CommentsInHand).  With one process, every step between the resolution  *)
(* and its event has its predecessors' effects behind it (Orderly).        *)
(***************************************************************************)
EXTENDS Feedback, TLAPS, FiniteSetTheorems

(* What the provider has decided, or the operator has marked. *)
Decided == (pr = "merged" /\ ci) \/ closed \/ Superseded

(* Steps from the resolution of the task to its event. *)
Completing == {"resolve", "reload", "clear", "fetch", "post", "unlabel", "close",
               "confirm", "event"}

Late(p) == pc[p] \in Completing \/ (pc[p] = "card" /\ to[p] # "sync")

(* What a process holds and where it is agree with the decision. *)
Justified ==
    /\ task = "DONE" => Decided
    /\ issue \in Reasons => Decided
    /\ \A p \in Procs :
          /\ loc[p].issue \in Reasons => Decided
          /\ loc[p].complete => Decided
          /\ Late(p) => Decided

(* A process about to store a merge has read one of the commit in its hand. *)
MergeInHand ==
    \A p \in Procs : pc[p] = "merged" => pr = "merged" /\ head = loc[p].sha

(* Only the processes of the setting work. *)
OthersAreIdle == \A p \in Procs : pc[p] # "idle" => p \in setting.procs

(* Who is about to post a closure comment of a kind. *)
Posting(r) == {p \in Procs : pc[p] = "post" /\ Wanted(loc[p]) = r}

CommentsInHand ==
    \A r \in {"completed", "not_planned"} :
        comments[r] + Cardinality(Posting(r)) <= Cardinality(setting.procs)

(* What a process that works alone has behind it, by its step. *)
Orderly(p) ==
    /\ pc[p] = "state" => events = {} \/ loc[p].st = "DONE"
    /\ pc[p] \in {"cancel", "note", "clear"} => events = {}
    /\ to[p] = "sync" /\ pc[p] \in {"enter", "match", "head", "revise", "card"} =>
          events = {}
    /\ pc[p] \in {"fetch", "post", "unlabel", "close", "confirm", "event"} => ~blocked
    /\ pc[p] = "card" /\ to[p] # "sync" => ~blocked
    /\ pc[p] \in {"clear", "fetch", "post", "unlabel", "close", "confirm"} =>
          loc[p].phase = "DONE" /\ to[p] # "sync"
    /\ pc[p] = "card" /\ to[p] # "sync" => loc[p].phase = "DONE"
    /\ pc[p] \in {"issue", "facts", "merged", "resolve", "reload", "event"} =>
          to[p] # "sync"
    /\ pc[p] = "event" => (HasCard => card = "DONE")
    /\ events # {} => task = "DONE" /\ ~blocked /\ (HasCard => card = "DONE")

AloneIsOrderly == \A p \in Procs : setting.procs = {p} => Orderly(p)

IInv == /\ TypeOK /\ Justified /\ MergedIsExact /\ MergeInHand
        /\ OthersAreIdle /\ CommentsInHand /\ AloneIsOrderly

-----------------------------------------------------------------------------
(* Types and frames *)

(* The initial state satisfies the inductive invariant. *)
LEMMA InitIInv == Init => IInv
<1> SUFFICES ASSUME Init PROVE IInv
  OBVIOUS
<1>1. TypeOK
  <2>1. Nothing \in Local
    BY DEF Nothing, Local, Reasons, TaskStatus
  <2>2. comments \in [{"completed", "not_planned"} -> Nat]
    BY DEF Init
  <2> QED
    BY <2>1, <2>2, FeedbackAssumption DEF Init, TypeOK, Steps, TaskStatus, Reasons
<1>2. Justified
  BY DEF Init, Justified, Late, Completing, Nothing, Reasons
<1>3. MergedIsExact /\ MergeInHand /\ OthersAreIdle
  BY DEF Init, MergedIsExact, MergeInHand, OthersAreIdle
<1>4. CommentsInHand
  <2>1. IsFiniteSet(setting.procs)
    BY <1>1, FeedbackAssumption, FS_Subset DEF TypeOK, Setting
  <2>2. Cardinality(setting.procs) \in Nat
    BY <2>1, FS_CardinalityType
  <2>3. \A r : Posting(r) = {}
    BY DEF Init, Posting
  <2>4. Cardinality({}) = 0
    BY FS_EmptySet
  <2>5. \A r \in {"completed", "not_planned"} : comments[r] = 0
    BY DEF Init
  <2> QED
    BY <2>2, <2>3, <2>4, <2>5 DEF CommentsInHand
<1>5. AloneIsOrderly
  BY DEF Init, AloneIsOrderly, Orderly
<1> QED
  BY <1>1, <1>2, <1>3, <1>4, <1>5 DEF IInv

(* The end of a function leads to the closure function or ends the pass    *)
(* (runtime._reconcile_human_review_task).                                 *)
LEMMA ReturnType ==
    ASSUME TypeOK, NEW p \in Procs, Return(p)
    PROVE  /\ pc' \in [Procs -> Steps] /\ to' \in [Procs -> {"sync", "external", "closure"}]
           /\ \A q \in Procs \ {p} : pc'[q] = pc[q] /\ to'[q] = to[q]
           /\ pc'[p] \in {"idle", "enter"}
           /\ pc'[p] = "enter" => to'[p] = "closure"
  BY DEF TypeOK, Return, Enter, Goto, Steps

(* A process goes on in the function it is in. *)
LEMMA GotoType ==
    ASSUME TypeOK, NEW p \in Procs, NEW l \in Steps, Goto(p, l)
    PROVE  /\ pc' \in [Procs -> Steps] /\ pc'[p] = l
           /\ \A q \in Procs \ {p} : pc'[q] = pc[q]
  BY DEF TypeOK, Goto

(* A process enters a function of the service. *)
LEMMA EnterType ==
    ASSUME TypeOK, NEW p \in Procs, NEW f \in {"sync", "external", "closure"}, Enter(p, f)
    PROVE  /\ pc' \in [Procs -> Steps] /\ to' \in [Procs -> {"sync", "external", "closure"}]
           /\ \A q \in Procs \ {p} : pc'[q] = pc[q] /\ to'[q] = to[q]
           /\ pc'[p] = "enter" /\ to'[p] = f
  BY DEF TypeOK, Enter, Steps

(* The values a process keeps. *)
LEMMA KeepType ==
    ASSUME TypeOK, NEW p \in Procs, NEW r \in Local, Keep(p, r)
    PROVE  /\ loc' \in [Procs -> Local] /\ loc'[p] = r
           /\ \A q \in Procs \ {p} : loc'[q] = loc[q]
  BY DEF TypeOK, Keep

(* A failed call uses up a fault and changes nothing else of the setting. *)
LEMMA FailsType ==
    ASSUME TypeOK, Fails
    PROVE  /\ setting' \in Setting
           /\ setting'.procs = setting.procs /\ setting'.card = setting.card
           /\ setting'.superseded = setting.superseded
  BY DEF TypeOK, Fails, Setting

(* So does a decision of a person. *)
LEMMA DecideType ==
    ASSUME TypeOK, NEW what, Decide(what)
    PROVE  /\ setting' \in Setting
           /\ setting'.procs = setting.procs /\ setting'.card = setting.card
           /\ setting'.superseded = setting.superseded
           /\ UNCHANGED local
  BY DEF TypeOK, Decide, Setting

(* What a setting allows besides its budgets never changes. *)
SameSetting ==
    /\ setting'.procs = setting.procs /\ setting'.card = setting.card
    /\ setting'.superseded = setting.superseded

(* A step of a process is typed and leaves the other processes alone. *)
Framed(p) ==
    /\ TypeOK' /\ SameSetting
    /\ \A q \in Procs \ {p} : pc'[q] = pc[q] /\ to'[q] = to[q] /\ loc'[q] = loc[q]

(* The steps of a pass that decide and read (runtime.py, _identity). *)
LEMMA ReadingFrame ==
    ASSUME TypeOK, NEW p \in Procs, UNCHANGED sent,
           \/ Begin(p) \/ ReadState(p) \/ CancelTask(p) \/ NoteCancel(p)
           \/ EnterFunction(p) \/ MatchRows(p) \/ ReadHead(p) \/ ReviseHead(p)
    PROVE  Framed(p)
<1> USE DEF TypeOK, SameSetting, Framed, store, provider, Reads
<1>0. loc[p] \in Local
  OBVIOUS
<1>a. Identified(p) <=> \/ Goto(p, "card") /\ UNCHANGED to /\ to[p] = "sync"
                        \/ /\ Goto(p, "issue") /\ UNCHANGED to /\ to[p] # "sync"
                           /\ loc[p].st \in Reviewed
                        \/ Return(p) /\ to[p] # "sync" /\ loc[p].st \notin Reviewed
  BY DEF Identified
<1>1. CASE Begin(p)
  <2>1. [Nothing EXCEPT !.st = task, !.run = run] \in Local
    BY DEF Nothing, Local, Reasons, TaskStatus
  <2> QED
    BY <1>1, <2>1, KeepType, GotoType DEF Begin, Step, Steps
<1>2. CASE ReadState(p)
  <2>1. loc[p].st \in Projected => [loc[p] EXCEPT !.phase = loc[p].st] \in Local
    BY <1>0 DEF Local, Projected
  <2>2. CASE Fails /\ Enter(p, "closure") /\ UNCHANGED loc
    BY <1>2, <2>2, FailsType, EnterType DEF ReadState
  <2>3. CASE Enter(p, "closure") /\ UNCHANGED <<loc, setting>>
    BY <1>2, <2>3, EnterType DEF ReadState
  <2>4. CASE Enter(p, "external") /\ UNCHANGED <<loc, setting>>
    BY <1>2, <2>4, EnterType DEF ReadState
  <2>5. CASE Goto(p, "cancel") /\ UNCHANGED <<to, loc, setting>>
    BY <1>2, <2>5, GotoType DEF ReadState, Steps
  <2>6. CASE /\ loc[p].st \in Projected /\ Enter(p, "sync")
             /\ Keep(p, [loc[p] EXCEPT !.phase = loc[p].st]) /\ UNCHANGED setting
    BY <1>2, <2>1, <2>6, EnterType, KeepType DEF ReadState
  <2>7. \/ Fails /\ Enter(p, "closure") /\ UNCHANGED loc
        \/ Enter(p, "closure") /\ UNCHANGED <<loc, setting>>
        \/ Enter(p, "external") /\ UNCHANGED <<loc, setting>>
        \/ Goto(p, "cancel") /\ UNCHANGED <<to, loc, setting>>
        \/ /\ loc[p].st \in Projected /\ Enter(p, "sync")
           /\ Keep(p, [loc[p] EXCEPT !.phase = loc[p].st]) /\ UNCHANGED setting
    BY <1>2 DEF ReadState, Projected
  <2> QED
    BY <2>2, <2>3, <2>4, <2>5, <2>6, <2>7
<1>3. CASE CancelTask(p)
  <2>1. CASE Goto(p, "note")
    BY <1>3, <2>1, GotoType DEF CancelTask, Steps, TaskStatus
  <2>2. CASE Goto(p, "idle")
    BY <1>3, <2>2, GotoType DEF CancelTask, Steps, TaskStatus
  <2> QED
    BY <1>3, <2>1, <2>2 DEF CancelTask
<1>4. CASE NoteCancel(p)
  <2>1. [loc[p] EXCEPT !.phase = "CLOSED"] \in Local
    BY <1>0 DEF Local
  <2>2. blocked' \in BOOLEAN
    BY <1>4 DEF NoteCancel
  <2> QED
    BY <1>4, <2>1, <2>2, EnterType, KeepType DEF NoteCancel, TaskStatus
<1>5. CASE EnterFunction(p)
  <2> DEFINE st == IF to[p] = "sync" THEN loc[p].st ELSE task
  <2>1. [loc[p] EXCEPT !.st = st] \in Local
    BY <1>0 DEF Local
  <2>2. CASE Goto(p, "match") /\ UNCHANGED to
    BY <1>5, <2>1, <2>2, GotoType, KeepType DEF EnterFunction, Steps
  <2>3. CASE Return(p)
    BY <1>5, <2>1, <2>3, ReturnType, KeepType DEF EnterFunction
  <2> QED
    BY <1>5, <2>2, <2>3 DEF EnterFunction
<1>6. CASE MatchRows(p)
  <2>1. [loc[p] EXCEPT !.rrun = row.run, !.sha = row.sha] \in Local
    BY <1>0 DEF Local
  <2>2. CASE Goto(p, "head") /\ UNCHANGED to
    BY <1>6, <2>1, <2>2, GotoType, KeepType DEF MatchRows, Steps
  <2>3. CASE Return(p)
    BY <1>6, <2>1, <2>3, ReturnType, KeepType DEF MatchRows
  <2> QED
    BY <1>6, <2>2, <2>3 DEF MatchRows
<1>7. CASE ReadHead(p)
  <2>1. [loc[p] EXCEPT !.seen = head] \in Local
    BY <1>0 DEF Local
  <2>2. CASE Fails /\ Return(p)
    BY <1>7, <2>1, <2>2, ReturnType, KeepType, FailsType DEF ReadHead
  <2>3. CASE (\E l \in {"card", "issue", "revise"} : Goto(p, l)) /\ UNCHANGED <<to, setting>>
    BY <1>7, <2>1, <2>3, GotoType, KeepType DEF ReadHead, Steps
  <2>4. CASE Return(p) /\ UNCHANGED setting
    BY <1>7, <2>1, <2>4, ReturnType, KeepType DEF ReadHead
  <2> QED
    BY <1>7, <1>a, <2>2, <2>3, <2>4 DEF ReadHead
<1>8. CASE ReviseHead(p)
  <2>1. row' \in [run : Nat, sha : Nat, merged : BOOLEAN]
    BY <1>0, <1>8 DEF ReviseHead, Local
  <2>2. [loc[p] EXCEPT !.sha = row'.sha] \in Local
    BY <1>0, <2>1 DEF Local
  <2>3. CASE (\E l \in {"card", "issue"} : Goto(p, l)) /\ UNCHANGED to
    BY <1>8, <2>1, <2>2, <2>3, GotoType, KeepType DEF ReviseHead, Steps
  <2>4. CASE Return(p)
    BY <1>8, <2>1, <2>2, <2>4, ReturnType, KeepType DEF ReviseHead
  <2> QED
    BY <1>8, <1>a, <2>3, <2>4 DEF ReviseHead
<1> QED
  BY <1>1, <1>2, <1>3, <1>4, <1>5, <1>6, <1>7, <1>8

(* The steps of a pass that resolve and complete (feedback.py,             *)
(* issue_completion.py).                                                   *)
LEMMA CompletingFrame ==
    ASSUME TypeOK, NEW p \in Procs, UNCHANGED sent,
           \/ ReadIssue(p) \/ ReadFacts(p) \/ RecordMerged(p)
           \/ Resolve(p) \/ Reload(p) \/ ClearBlock(p)
           \/ FetchIssue(p) \/ PostComment(p) \/ Unlabel(p) \/ CloseIssue(p) \/ Confirm(p)
           \/ SyncCard(p) \/ RecordResolution(p) \/ Abort(p)
    PROVE  Framed(p)
<1> USE DEF TypeOK, SameSetting, Framed, store, provider, Reads
<1>0. loc[p] \in Local
  OBVIOUS
<1>a. AfterReload(p) \in Steps
  BY DEF AfterReload, Steps
<1>w. Wanted(loc[p]) \in {"completed", "not_planned"}
  BY DEF Wanted
<1>1. CASE ReadIssue(p)
  <2>1. PICK seen \in {issue, "unknown"} :
           /\ IF seen = "unknown" THEN Fails ELSE UNCHANGED setting
           /\ Reads(p, [loc[p] EXCEPT !.issue = seen,
                            !.reason = IF seen \in Reasons THEN seen ELSE @])
           /\ CASE to[p] = "external" -> Goto(p, "facts") /\ UNCHANGED to
                [] to[p] = "closure" /\ seen \in Reasons ->
                       Goto(p, "resolve") /\ UNCHANGED to
                [] OTHER -> Return(p)
    BY <1>1 DEF ReadIssue
  <2>2. [loc[p] EXCEPT !.issue = seen,
                       !.reason = IF seen \in Reasons THEN seen ELSE @] \in Local
    BY <1>0 DEF Local, Reasons
  <2>3. setting' \in Setting /\ SameSetting
    BY <2>1, FailsType
  <2>4. CASE Goto(p, "facts") /\ UNCHANGED to
    BY <2>1, <2>2, <2>3, <2>4, GotoType, KeepType DEF Steps
  <2>5. CASE Goto(p, "resolve") /\ UNCHANGED to
    BY <2>1, <2>2, <2>3, <2>5, GotoType, KeepType DEF Steps
  <2>6. CASE Return(p)
    BY <2>1, <2>2, <2>3, <2>6, ReturnType, KeepType
  <2> QED
    BY <2>1, <2>4, <2>5, <2>6
<1>2. CASE ReadFacts(p)
  <2>1. PICK m \in BOOLEAN, c \in BOOLEAN :
           /\ Fails \/ UNCHANGED setting
           /\ Reads(p, [loc[p] EXCEPT !.complete = c])
           /\ \/ Goto(p, "merged") /\ UNCHANGED to
              \/ Goto(p, "resolve") /\ UNCHANGED to
              \/ Return(p)
    BY <1>2 DEF ReadFacts
  <2>2. [loc[p] EXCEPT !.complete = c] \in Local
    BY <1>0 DEF Local
  <2>3. setting' \in Setting /\ SameSetting
    BY <2>1, FailsType
  <2>4. CASE Goto(p, "merged") /\ UNCHANGED to
    BY <2>1, <2>2, <2>3, <2>4, GotoType, KeepType DEF Steps
  <2>5. CASE Goto(p, "resolve") /\ UNCHANGED to
    BY <2>1, <2>2, <2>3, <2>5, GotoType, KeepType DEF Steps
  <2>6. CASE Return(p)
    BY <2>1, <2>2, <2>3, <2>6, ReturnType, KeepType
  <2> QED
    BY <2>1, <2>4, <2>5, <2>6
<1>3. CASE RecordMerged(p)
  <2>1. row' \in [run : Nat, sha : Nat, merged : BOOLEAN]
    BY <1>3 DEF RecordMerged
  <2>2. CASE Goto(p, "resolve") /\ UNCHANGED to
    BY <1>3, <2>1, <2>2, GotoType DEF RecordMerged, Steps
  <2>3. CASE Return(p)
    BY <1>3, <2>1, <2>3, ReturnType DEF RecordMerged
  <2>4. CASE Goto(p, "idle") /\ UNCHANGED to
    BY <1>3, <2>1, <2>4, GotoType DEF RecordMerged, Steps
  <2> QED
    BY <1>3, <2>2, <2>3, <2>4 DEF RecordMerged
<1>4. CASE Resolve(p)
  <2>1. (IF Resolvable(loc[p].st) THEN "reload" ELSE "idle") \in Steps
    BY DEF Steps
  <2> QED
    BY <1>4, <2>1, GotoType DEF Resolve, Step, TaskStatus
<1>5. CASE Reload(p)
  <2>1. (IF blocked THEN "clear" ELSE AfterReload(p)) \in Steps
    BY <1>a DEF Steps
  <2>2. [loc[p] EXCEPT !.st = task, !.phase = "DONE",
                   !.reason = IF loc[p].issue \in Reasons THEN @
                              ELSE IF Superseded THEN "not_planned" ELSE "completed"]
            \in Local
    BY <1>0 DEF Local, Reasons
  <2> QED
    BY <1>5, <2>1, <2>2, GotoType, KeepType DEF Reload, Step
<1>6. CASE ClearBlock(p)
  <2>1. blocked' \in BOOLEAN
    BY <1>6 DEF ClearBlock
  <2>2. task' \in TaskStatus
    BY <1>0, <1>6 DEF ClearBlock, Local
  <2> QED
    BY <1>6, <1>a, <2>1, <2>2, GotoType DEF ClearBlock, Step
<1>7. CASE FetchIssue(p)
  <2> DEFINE l == IF ~loc[p].complete /\ issue = "not_planned"
                  THEN "card"
                  ELSE IF comments[Wanted(loc[p])] = 0 THEN "post" ELSE "unlabel"
  <2>1. l \in Steps
    BY DEF Steps
  <2>2. [loc[p] EXCEPT !.issue = issue, !.ready = label] \in Local
    BY <1>0 DEF Local
  <2>3. Goto(p, l)
    BY <1>7 DEF FetchIssue, Step
  <2> HIDE DEF l
  <2> QED
    BY <1>7, <2>1, <2>2, <2>3, GotoType, KeepType DEF FetchIssue, Step
<1>8. CASE PostComment(p)
  <2>1. comments' \in [{"completed", "not_planned"} -> Nat]
    BY <1>8, <1>w DEF PostComment
  <2> QED
    BY <1>8, <2>1, GotoType DEF PostComment, Step, Steps
<1>9. CASE Unlabel(p)
  <2>1. label' \in BOOLEAN
    BY <1>9 DEF Unlabel
  <2>2. (IF loc[p].issue = Wanted(loc[p]) THEN "confirm" ELSE "close") \in Steps
    BY DEF Steps
  <2> QED
    BY <1>9, <2>1, <2>2, GotoType DEF Unlabel, Step
<1>10. CASE CloseIssue(p)
  <2>1. issue' \in Reasons \union {"open"}
    BY <1>10, <1>w DEF CloseIssue, Reasons
  <2> QED
    BY <1>10, <2>1, GotoType DEF CloseIssue, Step, Steps
<1>11. CASE Confirm(p)
  <2> DEFINE l == IF issue = Wanted(loc[p]) /\ (loc[p].complete => ~label)
                  THEN "card" ELSE "idle"
  <2>1. l \in Steps
    BY DEF Steps
  <2>2. Goto(p, l)
    BY <1>11 DEF Confirm, Step
  <2> HIDE DEF l
  <2> QED
    BY <1>11, <2>1, <2>2, GotoType DEF Confirm, Step
<1>12. CASE SyncCard(p)
  <2>1. card' \in {"WAITING_HUMAN", "CLOSED", "FAILED", "DONE"}
    BY <1>0, <1>12 DEF SyncCard, Local
  <2>2. CASE Return(p)
    BY <1>12, <2>1, <2>2, ReturnType DEF SyncCard
  <2>3. CASE Goto(p, "event") /\ UNCHANGED to
    BY <1>12, <2>1, <2>3, GotoType DEF SyncCard, Steps
  <2> QED
    BY <1>12, <2>2, <2>3 DEF SyncCard
<1>13. CASE RecordResolution(p)
  <2>1. loc[p].reason \in Reasons
    BY <1>0 DEF Local
  <2>2. events' \subseteq Reasons
    BY <1>13, <2>1 DEF RecordResolution
  <2>3. CASE Return(p)
    BY <1>13, <2>2, <2>3, ReturnType DEF RecordResolution
  <2>4. CASE Goto(p, "idle") /\ UNCHANGED to
    BY <1>13, <2>2, <2>4, GotoType DEF RecordResolution, Steps
  <2> QED
    BY <1>13, <2>3, <2>4 DEF RecordResolution
<1>14. CASE Abort(p)
  BY <1>14, GotoType, FailsType DEF Abort, Steps
<1> QED
  BY <1>1, <1>2, <1>3, <1>4, <1>5, <1>6, <1>7, <1>8, <1>9, <1>10, <1>11, <1>12,
     <1>13, <1>14

(* Every step of a pass, then. *)
LEMMA PassFramed ==
    ASSUME TypeOK, NEW p \in Procs, Pass(p) \/ Abort(p)
    PROVE  Framed(p) /\ UNCHANGED sent
<1>1. UNCHANGED sent
  BY DEF Pass, Abort
<1> QED
  BY <1>1, ReadingFrame, CompletingFrame DEF Pass

(* What people do at the provider, and a rework. *)
OutsideStep ==
    \/ Push \/ MovePr("merge", "open", "merged") \/ MovePr("close", "open", "closed")
    \/ MovePr("reopen", "closed", "open")
    \/ Checks \/ PersonCloses \/ PersonReopens \/ Rework \/ PassOn

(* They leave the processes alone. *)
LEMMA OutsideFrame ==
    ASSUME TypeOK, OutsideStep
    PROVE  TypeOK' /\ SameSetting /\ UNCHANGED <<pc, to, loc>>
<1> USE DEF TypeOK, SameSetting, store, provider, local
<1>1. CASE Push
  <2>1. ci' \in BOOLEAN
    BY <1>1 DEF Push
  <2> QED
    BY <1>1, <2>1, DecideType DEF Push
<1>2. CASE \E what \in {"merge", "close", "reopen"}, from \in {"open", "closed"},
              st \in {"open", "merged", "closed"} : MovePr(what, from, st)
  BY <1>2, DecideType DEF MovePr
<1>3. CASE Checks
  <2>1. ci' \in BOOLEAN
    BY <1>3 DEF Checks
  <2> QED
    BY <1>3, <2>1 DEF Checks
<1>4. CASE PersonCloses
  <2>1. closed' \in BOOLEAN
    BY <1>4 DEF PersonCloses
  <2> QED
    BY <1>4, <2>1, DecideType DEF PersonCloses
<1>5. CASE PersonReopens
  BY <1>5, DecideType DEF PersonReopens
<1>6. CASE Rework \/ PassOn
  <2>1. ci' \in BOOLEAN /\ runOk' \in BOOLEAN
    BY <1>6 DEF Rework, AskForChanges, StartRun, EndRun, PushRun, RecordRun, PassOn
  <2>6. sent' \in Nat /\ head' \in Nat
    <3>1. CASE sent' = head + 1 /\ head' = head + 1
      BY <3>1
    <3>2. CASE sent' = 0 /\ UNCHANGED head
      BY <3>2
    <3>3. CASE UNCHANGED <<sent, head>>
      BY <3>3
    <3> QED
      BY <1>6, <3>1, <3>2, <3>3
         DEF Rework, AskForChanges, StartRun, EndRun, PushRun, RecordRun, PassOn, Decide
  <2>2. row' \in [run : Nat, sha : Nat, merged : BOOLEAN]
    <3>1. row' = row \/ row' = [run |-> run, sha |-> sent, merged |-> FALSE]
      BY <1>6 DEF Rework, AskForChanges, StartRun, EndRun, PushRun, RecordRun, PassOn
    <3>2. row \in [run : Nat, sha : Nat, merged : BOOLEAN] /\ run \in Nat /\ sent \in Nat
      OBVIOUS
    <3>3. [run |-> run, sha |-> sent, merged |-> FALSE]
              \in [run : Nat, sha : Nat, merged : BOOLEAN]
      BY <3>2
    <3> QED
      BY <3>1, <3>2, <3>3
  <2>3. task' \in TaskStatus /\ run' \in Nat
    BY <1>6 DEF Rework, AskForChanges, StartRun, EndRun, PushRun, RecordRun, PassOn,
       TaskStatus
  <2>4. setting' \in Setting /\ SameSetting /\ UNCHANGED <<pc, to, loc>>
    BY <1>6, DecideType
       DEF Rework, AskForChanges, StartRun, EndRun, PushRun, RecordRun, PassOn
  <2>5. UNCHANGED <<blocked, events, pr, issue, label, comments, card, closed>>
    BY <1>6 DEF Rework, AskForChanges, StartRun, EndRun, PushRun, RecordRun, PassOn
  <2> QED
    BY <2>1, <2>2, <2>3, <2>4, <2>5, <2>6
<1> QED
  BY <1>1, <1>2, <1>3, <1>4, <1>5, <1>6 DEF OutsideStep

-----------------------------------------------------------------------------
(* What the provider decided stays decided *)

(* A merge is final: neither the branch nor its checks move any more, a    *)
(* closure by a person has happened, a marker stays (the facts             *)
(* reconcile_external reads may be old and still are true).                *)
LEMMA DecisionIsFinal ==
    ASSUME TypeOK, Next
    PROVE  /\ Decided => Decided'
           /\ pr = "merged" => pr' = "merged" /\ head' = head
<1>1. ASSUME NEW p \in Procs, Pass(p) \/ Abort(p)
      PROVE  UNCHANGED <<pr, head, ci, closed>> /\ SameSetting
  <2>1. Framed(p)
    BY <1>1, PassFramed
  <2>2. UNCHANGED <<pr, head, ci, closed>>
    BY <1>1 DEF Pass, Begin, ReadState, CancelTask, NoteCancel, EnterFunction,
           MatchRows, ReadHead, ReviseHead, ReadIssue, ReadFacts, RecordMerged, Resolve,
           Reload, ClearBlock, FetchIssue, PostComment, Unlabel, CloseIssue, Confirm,
           SyncCard, RecordResolution, Abort, Reads, provider
  <2> QED
    BY <2>1, <2>2 DEF Framed
<1>2. ASSUME OutsideStep
      PROVE  /\ Decided => Decided'
             /\ pr = "merged" => pr' = "merged" /\ head' = head
  <2>1. SameSetting
    BY <1>2, OutsideFrame
  <2>2. CASE Push
    BY <2>1, <2>2 DEF Push, Decided, SameSetting, Superseded, TypeOK
  <2>3. CASE \E what \in {"merge", "close", "reopen"}, from \in {"open", "closed"},
              st \in {"open", "merged", "closed"} : MovePr(what, from, st)
    BY <2>1, <2>3 DEF MovePr, Decided, SameSetting, Superseded, TypeOK
  <2>4. CASE Checks
    BY <2>1, <2>4 DEF Checks, Decided, SameSetting, Superseded, TypeOK
  <2>5. CASE PersonCloses \/ PersonReopens
    BY <2>1, <2>5 DEF PersonCloses, PersonReopens, Decided, SameSetting, Superseded,
           TypeOK
  <2>6. CASE Rework \/ PassOn
    BY <2>1, <2>6 DEF Rework, AskForChanges, StartRun, EndRun, PushRun, RecordRun, PassOn,
           Decided, SameSetting, Superseded, TypeOK, provider
  <2> QED
    BY <1>2, <2>2, <2>3, <2>4, <2>5, <2>6 DEF OutsideStep
<1> QED
  BY <1>1, <1>2 DEF Next, OutsideStep, Decided, SameSetting, Superseded

(* What one process does at its place of Justified. *)
OwnJustified(p) ==
    /\ task' = "DONE" => Decided'
    /\ issue' \in Reasons => Decided'
    /\ loc'[p].issue \in Reasons => Decided'
    /\ loc'[p].complete => Decided'
    /\ Late(p)' => Decided'

(* Every step of a pass that resolves or completes rests on a decision. *)
LEMMA PassJustified ==
    ASSUME TypeOK, Justified, NEW p \in Procs, Pass(p) \/ Abort(p)
    PROVE  OwnJustified(p)
<1> USE DEF Completing, Late
<1>0. /\ Framed(p) /\ loc[p] \in Local /\ loc'[p] \in Local
      /\ Decided => Decided'
  BY DecisionIsFinal, PassFramed DEF Framed, TypeOK, Next
<1>d. /\ task = "DONE" => Decided
      /\ issue \in Reasons => Decided
      /\ loc[p].issue \in Reasons => Decided
      /\ loc[p].complete => Decided
      /\ Late(p) => Decided
  BY DEF Justified
<1>1. CASE Begin(p) \/ ReadState(p) \/ CancelTask(p) \/ NoteCancel(p)
  <2>1. ~Late(p)'
    BY <1>1 DEF Begin, ReadState, CancelTask, NoteCancel, Step, Goto, Enter, TypeOK
  <2>2. /\ loc'[p].issue \in Reasons => loc[p].issue \in Reasons
        /\ loc'[p].complete => loc[p].complete
    <3>1. CASE UNCHANGED loc
      BY <3>1
    <3>2. CASE loc'[p] = [Nothing EXCEPT !.st = task, !.run = run]
      BY <3>2 DEF Nothing, Reasons
    <3>3. CASE \E phase : loc'[p] = [loc[p] EXCEPT !.phase = phase]
      BY <1>0, <3>3 DEF Local
    <3>4. CASE Begin(p)
      BY <3>2, <3>4 DEF Begin, Reads, Keep, TypeOK
    <3>5. CASE ReadState(p)
      <4>1. UNCHANGED loc \/ loc'[p] = [loc[p] EXCEPT !.phase = loc[p].st]
        BY <3>5 DEF ReadState, Keep, TypeOK
      <4> QED
        BY <3>1, <3>3, <4>1
    <3>6. CASE CancelTask(p)
      BY <3>1, <3>6 DEF CancelTask
    <3>7. CASE NoteCancel(p)
      BY <3>3, <3>7 DEF NoteCancel, Keep, TypeOK
    <3> QED
      BY <1>1, <3>4, <3>5, <3>6, <3>7
  <2>3. UNCHANGED issue /\ (task' = "DONE" => task = "DONE")
    BY <1>1 DEF Begin, ReadState, CancelTask, NoteCancel, store, provider, Reads
  <2> QED
    BY <1>0, <1>d, <2>1, <2>2, <2>3 DEF OwnJustified
<1>2. CASE EnterFunction(p) \/ MatchRows(p) \/ ReadHead(p) \/ ReviseHead(p)
  <2>1. ~Late(p)'
    BY <1>2 DEF EnterFunction, MatchRows, ReadHead, ReviseHead, Step, Goto, Return, Enter,
           TypeOK, Identified
  <2>2. /\ loc'[p].issue \in Reasons => loc[p].issue \in Reasons
        /\ loc'[p].complete => loc[p].complete
    <3>1. CASE \E st : loc'[p] = [loc[p] EXCEPT !.st = st]
      BY <1>0, <3>1 DEF Local
    <3>2. CASE \E r, c : loc'[p] = [loc[p] EXCEPT !.rrun = r, !.sha = c]
      BY <1>0, <3>2 DEF Local
    <3>3. CASE \E c : loc'[p] = [loc[p] EXCEPT !.seen = c]
      BY <1>0, <3>3 DEF Local
    <3>4. CASE \E c : loc'[p] = [loc[p] EXCEPT !.sha = c]
      BY <1>0, <3>4 DEF Local
    <3>5. CASE EnterFunction(p)
      BY <3>1, <3>5 DEF EnterFunction, Keep, TypeOK
    <3>6. CASE MatchRows(p)
      BY <3>2, <3>6 DEF MatchRows, Reads, Keep, TypeOK
    <3>7. CASE ReadHead(p)
      BY <3>3, <3>7 DEF ReadHead, Reads, Keep, TypeOK
    <3>8. CASE ReviseHead(p)
      BY <3>4, <3>8 DEF ReviseHead, Keep, TypeOK
    <3> QED
      BY <1>2, <3>5, <3>6, <3>7, <3>8
  <2>3. UNCHANGED issue /\ (task' = "DONE" => task = "DONE")
    BY <1>2 DEF EnterFunction, MatchRows, ReadHead, ReviseHead, store, provider, Reads
  <2> QED
    BY <1>0, <1>d, <2>1, <2>2, <2>3 DEF OwnJustified
<1>3. CASE ReadIssue(p)
  <2>1. PICK seen \in {issue, "unknown"} :
           /\ Reads(p, [loc[p] EXCEPT !.issue = seen,
                            !.reason = IF seen \in Reasons THEN seen ELSE @])
           /\ \/ Goto(p, "facts")
              \/ seen \in Reasons /\ Goto(p, "resolve")
              \/ Return(p)
    BY <1>3 DEF ReadIssue
  <2>2. loc'[p].issue = seen /\ loc'[p].complete = loc[p].complete
    BY <1>0, <2>1 DEF Reads, Keep, TypeOK, Local
  <2>3. seen \in Reasons => Decided
    BY <1>d, <2>1 DEF Reasons
  <2>4. Late(p)' => seen \in Reasons
    BY <2>1 DEF Goto, Return, Enter, TypeOK
  <2>5. UNCHANGED <<issue, task>>
    BY <2>1 DEF Reads, store, provider
  <2> QED
    BY <1>0, <1>d, <2>2, <2>3, <2>4, <2>5 DEF OwnJustified
<1>4. CASE ReadFacts(p)
  <2>1. PICK m \in BOOLEAN, c \in BOOLEAN :
           /\ c => Evidence(loc[p].sha).complete
           /\ Reads(p, [loc[p] EXCEPT !.complete = c])
           /\ \/ Goto(p, "merged")
              \/ /\ Resolves([loc[p] EXCEPT !.complete = c])
                 /\ Goto(p, "resolve")
              \/ Return(p)
    BY <1>4 DEF ReadFacts
  <2>2. loc'[p].issue = loc[p].issue /\ loc'[p].complete = c
    BY <1>0, <2>1 DEF Reads, Keep, TypeOK, Local
  <2>3. c => Decided
    BY <2>1 DEF Evidence, Decided
  <2>4. Late(p)' => c \/ loc[p].issue \in Reasons \/ Superseded
    BY <1>0, <2>1 DEF Goto, Return, Enter, TypeOK, Resolves, Local
  <2>5. UNCHANGED <<issue, task>>
    BY <2>1 DEF Reads, store, provider
  <2> QED
    BY <1>0, <1>d, <2>2, <2>3, <2>4, <2>5 DEF OwnJustified, Decided
<1>5. CASE RecordMerged(p)
  <2>1. Late(p)' => Resolves(loc[p])
    BY <1>5 DEF RecordMerged, Goto, Return, Enter, TypeOK
  <2>2. UNCHANGED <<issue, task, loc>>
    BY <1>5 DEF RecordMerged, provider
  <2> QED
    BY <1>0, <1>d, <2>1, <2>2 DEF OwnJustified, Resolves, Decided
<1>6. CASE Resolve(p) \/ Reload(p) \/ ClearBlock(p) \/ FetchIssue(p) \/ PostComment(p)
           \/ Unlabel(p) \/ CloseIssue(p) \/ Confirm(p) \/ RecordResolution(p)
  <2>0. pc[p] \in Completing
    BY <1>6 DEF Resolve, Reload, ClearBlock, FetchIssue, PostComment, Unlabel,
           CloseIssue, Confirm, RecordResolution, Step
  <2>1. Decided
    BY <1>d, <2>0
  <2> QED
    BY <1>0, <2>1 DEF OwnJustified
<1>7. CASE SyncCard(p) \/ Abort(p)
  <2>1. UNCHANGED <<issue, task, loc>>
    BY <1>7 DEF SyncCard, Abort, store, provider
  <2>2. CASE ~Late(p)'
    BY <1>0, <1>d, <2>1, <2>2 DEF OwnJustified
  <2>3. CASE Late(p)'
    <3>1. pc[p] = "card" /\ pc'[p] = "event" /\ to[p] # "sync"
      BY <1>7, <2>3 DEF SyncCard, Abort, Goto, Return, Enter, TypeOK
    <3> QED
      BY <1>0, <1>d, <2>1, <3>1 DEF OwnJustified
  <2> QED
    BY <2>2, <2>3
<1> QED
  BY <1>1, <1>2, <1>3, <1>4, <1>5, <1>6, <1>7 DEF Pass

(* Decisions justify what the factory writes, after every step. *)
LEMMA JustifiedKept ==
    ASSUME TypeOK, Justified, Next
    PROVE  Justified'
<1>0. Decided => Decided'
  BY DecisionIsFinal
<1>1. ASSUME NEW p \in Procs, Pass(p) \/ Abort(p) PROVE Justified'
  <2>1. OwnJustified(p) /\ Framed(p)
    BY <1>1, PassJustified, PassFramed
  <2>2. ASSUME NEW q \in Procs \ {p}
        PROVE  /\ loc'[q].issue \in Reasons => Decided'
               /\ loc'[q].complete => Decided'
               /\ Late(q)' => Decided'
    BY <1>0, <2>1 DEF Framed, Justified, Late
  <2> QED
    BY <2>1, <2>2 DEF OwnJustified, Justified
<1>2. CASE OutsideStep
  <2>1. UNCHANGED <<pc, to, loc>>
    BY <1>2, OutsideFrame
  <2>2. task' = "DONE" => task = "DONE"
    BY <1>2 DEF OutsideStep, Push, MovePr, Checks, PersonCloses, PersonReopens, Rework,
           AskForChanges, StartRun, EndRun, PushRun, RecordRun, PassOn, store
  <2>3. issue' \in Reasons => issue \in Reasons \/ closed'
    BY <1>2 DEF OutsideStep, Push, MovePr, Checks, PersonCloses, PersonReopens, Rework,
           AskForChanges, StartRun, EndRun, PushRun, RecordRun, PassOn, store, provider, Reasons
  <2> QED
    BY <1>0, <2>1, <2>2, <2>3 DEF Justified, Late, Decided
<1> QED
  BY <1>1, <1>2 DEF Next, OutsideStep

-----------------------------------------------------------------------------
(* The stored merge *)

(* A stored merge is the provider's, and a process about to store one has  *)
(* read it (record_merged, record_provider_revision).                      *)
LEMMA MergeKept ==
    ASSUME TypeOK, MergedIsExact, MergeInHand, Next
    PROVE  MergedIsExact' /\ MergeInHand'
<1>0. pr = "merged" => pr' = "merged" /\ head' = head
  BY DecisionIsFinal
<1>1. ASSUME NEW p \in Procs, Pass(p) \/ Abort(p)
      PROVE  MergedIsExact' /\ MergeInHand'
  <2>0. Framed(p) /\ loc[p] \in Local
    BY <1>1, PassFramed DEF TypeOK
  <2>1. row.merged' => (row.merged /\ row.sha' = row.sha)
                       \/ (pc[p] = "merged" /\ row.sha' = loc[p].sha)
    <3>1. CASE RecordMerged(p)
      BY <3>1 DEF RecordMerged, TypeOK
    <3>2. CASE ReviseHead(p)
      BY <3>2 DEF ReviseHead, TypeOK
    <3>3. CASE UNCHANGED row
      BY <3>3
    <3> QED
      BY <1>1, <3>1, <3>2, <3>3 DEF Pass, Begin, ReadState, CancelTask, NoteCancel,
             EnterFunction, MatchRows, ReadHead, ReadIssue, ReadFacts, Resolve, Reload,
             ClearBlock, FetchIssue, PostComment, Unlabel, CloseIssue, Confirm, SyncCard,
             RecordResolution, Abort, Reads, store
  <2>2. MergedIsExact'
    BY <1>0, <2>1 DEF MergedIsExact, MergeInHand
  <2>3. pc'[p] = "merged" => pr = "merged" /\ head = loc'[p].sha
    <3>1. CASE ReadFacts(p)
      <4>1. PICK m \in BOOLEAN, c \in BOOLEAN :
               /\ m => Evidence(loc[p].sha).merged
               /\ Reads(p, [loc[p] EXCEPT !.complete = c])
               /\ \/ Goto(p, "merged") /\ m
                  \/ Goto(p, "resolve")
                  \/ Return(p)
        BY <3>1 DEF ReadFacts
      <4>2. loc'[p].sha = loc[p].sha
        BY <2>0, <4>1 DEF Reads, Keep, TypeOK, Local
      <4>3. pc'[p] = "merged" => m
        BY <4>1 DEF Goto, Return, Enter, TypeOK
      <4> QED
        BY <4>1, <4>2, <4>3 DEF Evidence
    <3>2. CASE ~ReadFacts(p)
      <4>1. pc'[p] # "merged"
        BY <1>1, <3>2 DEF Pass, Begin, ReadState, CancelTask, NoteCancel,
             EnterFunction, MatchRows, ReadHead, ReviseHead, ReadIssue, RecordMerged,
             Resolve, Reload, ClearBlock, FetchIssue, PostComment, Unlabel, CloseIssue,
             Confirm, SyncCard, RecordResolution, Abort, Step, Goto, Return, Enter,
             TypeOK, Identified, AfterReload
      <4> QED
        BY <4>1
    <3> QED
      BY <3>1, <3>2
  <2> QED
    BY <1>0, <2>0, <2>2, <2>3 DEF MergeInHand, Framed
<1>2. CASE OutsideStep
  <2>1. UNCHANGED <<pc, to, loc>>
    BY <1>2, OutsideFrame
  <2>2. row.merged' => row.merged /\ row.sha' = row.sha
    <3>1. CASE row' = [run |-> run, sha |-> sent, merged |-> FALSE]
      BY <3>1
    <3>2. CASE UNCHANGED row
      BY <3>2
    <3> QED
      BY <1>2, <3>1, <3>2 DEF OutsideStep, Push, MovePr, Checks, PersonCloses,
             PersonReopens, Rework, AskForChanges, StartRun, EndRun, PushRun, RecordRun,
             PassOn, store
  <2> QED
    BY <1>0, <2>1, <2>2 DEF MergedIsExact, MergeInHand
<1> QED
  BY <1>1, <1>2 DEF Next, OutsideStep

-----------------------------------------------------------------------------
(* Closure comments *)

(* Only the processes of the setting leave idle (run, watch, sync-status). *)
LEMMA IdleKept ==
    ASSUME TypeOK, OthersAreIdle, Next
    PROVE  OthersAreIdle'
<1>1. ASSUME NEW p \in Procs, Pass(p) \/ Abort(p) PROVE OthersAreIdle'
  <2>1. Framed(p)
    BY <1>1, PassFramed
  <2>2. pc[p] # "idle" \/ p \in setting.procs
    BY <1>1 DEF Pass, Begin, ReadState, CancelTask, NoteCancel,
             EnterFunction, MatchRows, ReadHead, ReviseHead, ReadIssue, ReadFacts,
             RecordMerged, Resolve, Reload, ClearBlock, FetchIssue, PostComment, Unlabel,
             CloseIssue, Confirm, SyncCard, RecordResolution, Abort, Step
  <2> QED
    BY <2>1, <2>2 DEF OthersAreIdle, Framed, SameSetting
<1>2. CASE OutsideStep
  BY <1>2, OutsideFrame DEF OthersAreIdle, SameSetting
<1> QED
  BY <1>1, <1>2 DEF Next, OutsideStep

(* Who posts next, by the step that is taken. *)
LEMMA PostingStep ==
    ASSUME TypeOK, NEW p \in Procs, Pass(p) \/ Abort(p)
    PROVE  \/ /\ pc'[p] # "post" /\ pc[p] # "post" /\ UNCHANGED comments
           \/ /\ pc'[p] # "post" /\ UNCHANGED <<comments, loc>>
           \/ /\ pc'[p] = "post" /\ loc'[p].complete = loc[p].complete
              /\ comments[Wanted(loc[p])] = 0 /\ UNCHANGED comments
           \/ /\ pc[p] = "post" /\ pc'[p] = "unlabel"
              /\ comments' = [comments EXCEPT ![Wanted(loc[p])] = @ + 1]
<1> USE DEF TypeOK
<1>1. CASE FetchIssue(p)
  <2>1. loc[p] \in Local
    OBVIOUS
  <2>2. loc'[p] = [loc[p] EXCEPT !.issue = issue, !.ready = label]
    BY <1>1 DEF FetchIssue, Reads, Keep
  <2>3. loc'[p].complete = loc[p].complete
    BY <2>1, <2>2 DEF Local
  <2> QED
    BY <1>1, <2>3 DEF FetchIssue, Step, Goto, Reads, provider
<1>2. CASE PostComment(p)
  BY <1>2 DEF PostComment, Step, Goto
<1>3. CASE Abort(p)
  BY <1>3 DEF Abort, Goto, provider
<1>4. CASE Pass(p) /\ ~FetchIssue(p) /\ ~PostComment(p)
  <2>1. UNCHANGED comments /\ pc[p] # "post"
    BY <1>4 DEF Pass, Begin, ReadState, CancelTask, NoteCancel,
             EnterFunction, MatchRows, ReadHead, ReviseHead, ReadIssue, ReadFacts,
             RecordMerged, Resolve, Reload, ClearBlock, Unlabel, CloseIssue,
             Confirm, SyncCard, RecordResolution, Step, Reads, provider
  <2>2. CASE \/ Begin(p) \/ ReadState(p) \/ CancelTask(p) \/ NoteCancel(p)
             \/ EnterFunction(p) \/ MatchRows(p) \/ ReadHead(p) \/ ReviseHead(p)
    <3>1. pc'[p] # "post"
      BY <2>2 DEF Begin, ReadState, CancelTask, NoteCancel, EnterFunction, MatchRows,
             ReadHead, ReviseHead, Step, Goto, Return, Enter, Identified
    <3> QED
      BY <2>1, <3>1
  <2>3. CASE \/ ReadIssue(p) \/ ReadFacts(p) \/ RecordMerged(p)
             \/ Resolve(p) \/ Reload(p) \/ ClearBlock(p)
    <3>1. pc'[p] # "post"
      BY <2>3 DEF ReadIssue, ReadFacts, RecordMerged, Resolve, Reload, ClearBlock,
             Step, Goto, Return, Enter, AfterReload
    <3> QED
      BY <2>1, <3>1
  <2>4. CASE Unlabel(p) \/ CloseIssue(p) \/ Confirm(p) \/ SyncCard(p) \/ RecordResolution(p)
    <3>1. pc'[p] # "post"
      BY <2>4 DEF Unlabel, CloseIssue, Confirm, SyncCard, RecordResolution,
             Step, Goto, Return, Enter
    <3> QED
      BY <2>1, <3>1
  <2> QED
    BY <1>4, <2>2, <2>3, <2>4 DEF Pass
<1> QED
  BY <1>1, <1>2, <1>3, <1>4

(* Comments posted and about to be posted never exceed the processes       *)
(* (issue_completion.py: the search for the marker, then the POST).        *)
LEMMA CommentsKept ==
    ASSUME TypeOK, OthersAreIdle, CommentsInHand, Next
    PROVE  CommentsInHand'
<1> DEFINE Kinds == {"completed", "not_planned"}
<1>0. OthersAreIdle'
  BY IdleKept
<1>1. ASSUME NEW S \in SUBSET Procs
      PROVE  IsFiniteSet(S) /\ Cardinality(S) \in Nat
  BY FeedbackAssumption, FS_Subset, FS_CardinalityType
<1>2. \A r : Posting(r) \in SUBSET Procs
  BY DEF Posting
<1>3. setting.procs \in SUBSET Procs
  BY DEF TypeOK, Setting
<1>4. ASSUME NEW r \in Kinds, SameSetting, Posting(r)' \subseteq Posting(r),
             comments'[r] = comments[r]
      PROVE  comments'[r] + Cardinality(Posting(r)') <= Cardinality(setting'.procs)
  <2>1. Cardinality(Posting(r)') <= Cardinality(Posting(r))
    BY <1>1, <1>2, <1>4, FS_Subset
  <2>2. Posting(r)' \in SUBSET Procs
    BY <1>2, <1>4
  <2>3. comments[r] \in Nat /\ Cardinality(Posting(r)) \in Nat
        /\ Cardinality(Posting(r)') \in Nat /\ Cardinality(setting.procs) \in Nat
    BY <1>1, <1>2, <1>3, <2>2 DEF TypeOK
  <2>4. comments[r] + Cardinality(Posting(r)) <= Cardinality(setting.procs)
    BY DEF CommentsInHand
  <2>5. setting'.procs = setting.procs
    BY <1>4 DEF SameSetting
  <2> QED
    BY <1>4, <2>1, <2>3, <2>4, <2>5
<1>5. ASSUME NEW p \in Procs, Pass(p) \/ Abort(p) PROVE CommentsInHand'
  <2>1. Framed(p) /\ SameSetting
    BY <1>5, PassFramed DEF Framed
  <2>w. Wanted(loc[p]) \in Kinds
    BY DEF Wanted
  <2>2. ASSUME NEW r, pc'[p] # "post" \/ Wanted(loc'[p]) # r
        PROVE  Posting(r)' \subseteq Posting(r) \ {p}
    BY <2>1, <2>2 DEF Posting, Framed, Wanted
  <2>3. CASE UNCHANGED comments /\ pc'[p] # "post"
    BY <1>4, <2>1, <2>2, <2>3 DEF CommentsInHand
  <2>4. CASE /\ pc'[p] = "post" /\ loc'[p].complete = loc[p].complete
             /\ comments[Wanted(loc[p])] = 0 /\ UNCHANGED comments
    <3>1. Wanted(loc'[p]) = Wanted(loc[p])
      BY <2>4 DEF Wanted
    <3>2. ASSUME NEW r \in Kinds, r # Wanted(loc[p])
          PROVE  comments'[r] + Cardinality(Posting(r)') <= Cardinality(setting'.procs)
      BY <1>4, <2>1, <2>2, <2>4, <3>1, <3>2
    <3>3. ASSUME NEW r \in Kinds, r = Wanted(loc[p])
          PROVE  comments'[r] + Cardinality(Posting(r)') <= Cardinality(setting'.procs)
      <4>1. Posting(r)' \subseteq setting.procs
        BY <1>0, <2>1 DEF Posting, OthersAreIdle, SameSetting
      <4>2. Cardinality(Posting(r)') <= Cardinality(setting.procs)
        BY <1>1, <1>3, <4>1, FS_Subset
      <4>3. Cardinality(Posting(r)') \in Nat
        BY <1>1, <1>3, <4>1
      <4>4. comments'[r] = 0
        BY <2>4, <3>3
      <4> QED
        BY <2>1, <4>2, <4>3, <4>4 DEF SameSetting
    <3> QED
      BY <3>2, <3>3 DEF CommentsInHand
  <2>5. CASE /\ pc[p] = "post" /\ pc'[p] = "unlabel"
             /\ comments' = [comments EXCEPT ![Wanted(loc[p])] = @ + 1]
    <3>1. ASSUME NEW r \in Kinds, r # Wanted(loc[p])
          PROVE  comments'[r] + Cardinality(Posting(r)') <= Cardinality(setting'.procs)
      <4>1. comments'[r] = comments[r]
        BY <2>5, <3>1 DEF TypeOK
      <4> QED
        BY <1>4, <2>1, <2>2, <2>5, <4>1
    <3>2. ASSUME NEW r \in Kinds, r = Wanted(loc[p])
          PROVE  comments'[r] + Cardinality(Posting(r)') <= Cardinality(setting'.procs)
      <4>1. p \in Posting(r)
        BY <2>5, <3>2 DEF Posting
      <4>2. IsFiniteSet(Posting(r)) /\ Cardinality(Posting(r)) \in Nat
        BY <1>1, <1>2
      <4>3. Cardinality(Posting(r) \ {p}) = Cardinality(Posting(r)) - 1
        BY <4>1, <4>2, FS_RemoveElement
      <4>4. IsFiniteSet(Posting(r) \ {p})
        BY <4>2, FS_RemoveElement
      <4>5. Posting(r)' \subseteq Posting(r) \ {p}
        BY <2>2, <2>5
      <4>6. Cardinality(Posting(r)') <= Cardinality(Posting(r) \ {p})
        BY <4>4, <4>5, FS_Subset
      <4>7. Cardinality(Posting(r)') \in Nat
        BY <1>1, <1>2, <4>5
      <4>8. comments'[r] = comments[r] + 1 /\ comments[r] \in Nat
        BY <2>5, <3>2 DEF TypeOK
      <4>9. comments[r] + Cardinality(Posting(r)) <= Cardinality(setting.procs)
        BY DEF CommentsInHand
      <4>10. Cardinality(setting.procs) \in Nat /\ setting'.procs = setting.procs
        BY <1>1, <1>3, <2>1 DEF SameSetting
      <4> QED
        BY <4>2, <4>3, <4>6, <4>7, <4>8, <4>9, <4>10
    <3> QED
      BY <3>1, <3>2 DEF CommentsInHand
  <2> QED
    BY <1>5, <2>3, <2>4, <2>5, PostingStep
<1>6. CASE OutsideStep
  <2>1. SameSetting /\ UNCHANGED <<pc, to, loc>>
    BY <1>6, OutsideFrame
  <2>2. UNCHANGED comments
    BY <1>6 DEF OutsideStep, Push, MovePr, Checks, PersonCloses, PersonReopens, Rework,
           AskForChanges, StartRun, EndRun, PushRun, RecordRun, PassOn, provider
  <2>3. \A r : Posting(r)' = Posting(r)
    BY <2>1 DEF Posting
  <2> QED
    BY <1>4, <2>1, <2>2, <2>3 DEF CommentsInHand
<1> QED
  BY <1>5, <1>6 DEF Next, OutsideStep

-----------------------------------------------------------------------------
(* One process on its own *)

(* The steps before the resolution keep the order of a lone process. *)
LEMMA ReadingOrderly ==
    ASSUME TypeOK, NEW p \in Procs, Orderly(p), UNCHANGED sent,
           \/ Begin(p) \/ ReadState(p) \/ CancelTask(p) \/ NoteCancel(p)
           \/ EnterFunction(p) \/ MatchRows(p) \/ ReadHead(p) \/ ReviseHead(p)
           \/ ReadIssue(p) \/ ReadFacts(p)
    PROVE  Orderly(p)'
<1> USE DEF Orderly, TypeOK, HasCard
<1>0. Framed(p) /\ SameSetting /\ loc[p] \in Local /\ loc'[p] \in Local
  BY ReadingFrame, CompletingFrame DEF Framed
<1>c. HasCard' = HasCard
  BY <1>0 DEF SameSetting
<1>1. CASE Begin(p)
  <2>1. loc'[p] = [Nothing EXCEPT !.st = task, !.run = run] /\ pc'[p] = "state"
    BY <1>1 DEF Begin, Reads, Keep, Step, Goto
  <2>2. loc'[p].st = task
    BY <2>1 DEF Nothing
  <2>3. UNCHANGED <<events, task, blocked, card>>
    BY <1>1 DEF Begin, Reads, store, provider
  <2> QED
    BY <1>c, <2>1, <2>2, <2>3
<1>2. CASE ReadState(p)
  <2>1. UNCHANGED <<events, task, blocked, card>>
    BY <1>2 DEF ReadState, store, provider
  <2>2. \/ pc'[p] = "enter" /\ to'[p] # "sync"
        \/ /\ loc[p].st # "DONE"
           /\ pc'[p] = "cancel" \/ (pc'[p] = "enter" /\ to'[p] = "sync")
    BY <1>2 DEF ReadState, Goto, Enter, Projected
  <2>3. pc[p] = "state"
    BY <1>2 DEF ReadState
  <2> QED
    BY <1>c, <2>1, <2>2, <2>3
<1>3. CASE CancelTask(p)
  <2>1. UNCHANGED <<events, blocked, card, to>> /\ pc[p] = "cancel"
    BY <1>3 DEF CancelTask, provider
  <2>2. pc'[p] \in {"note", "idle"}
    BY <1>3 DEF CancelTask, Goto
  <2> QED
    BY <1>c, <2>1, <2>2
<1>4. CASE NoteCancel(p)
  <2>1. UNCHANGED events /\ pc[p] = "note" /\ pc'[p] = "enter"
    BY <1>4 DEF NoteCancel, Enter
  <2> QED
    BY <1>c, <2>1
<1>5. CASE EnterFunction(p)
  <2>1. UNCHANGED <<events, task, blocked, card>> /\ pc[p] = "enter"
    BY <1>5 DEF EnterFunction, store, provider
  <2>2. \/ pc'[p] = "match" /\ UNCHANGED to
        \/ pc'[p] = "idle"
        \/ pc'[p] = "enter" /\ to'[p] = "closure"
    BY <1>5 DEF EnterFunction, Goto, Return, Enter
  <2> QED
    BY <1>c, <2>1, <2>2
<1>6. CASE MatchRows(p)
  <2>1. UNCHANGED <<events, task, blocked, card>> /\ pc[p] = "match"
    BY <1>6 DEF MatchRows, Reads, store, provider
  <2>2. \/ pc'[p] = "head" /\ UNCHANGED to
        \/ pc'[p] = "idle"
        \/ pc'[p] = "enter" /\ to'[p] = "closure"
    BY <1>6 DEF MatchRows, Goto, Return, Enter
  <2> QED
    BY <1>c, <2>1, <2>2
<1>a. ASSUME Identified(p)
      PROVE  \/ pc'[p] = "card" /\ to[p] = "sync" /\ UNCHANGED to
             \/ pc'[p] = "issue" /\ to[p] # "sync" /\ UNCHANGED to
             \/ pc'[p] = "idle"
             \/ pc'[p] = "enter" /\ to'[p] = "closure"
  BY <1>a DEF Identified, Goto, Return, Enter
<1>7. CASE ReadHead(p)
  <2>1. UNCHANGED <<events, task, blocked, card>> /\ pc[p] = "head"
    BY <1>7 DEF ReadHead, Reads, store, provider
  <2>2. \/ Identified(p)
        \/ pc'[p] = "revise" /\ UNCHANGED to
        \/ pc'[p] = "idle"
        \/ pc'[p] = "enter" /\ to'[p] = "closure"
    BY <1>7 DEF ReadHead, Goto, Return, Enter
  <2> QED
    BY <1>a, <1>c, <2>1, <2>2
<1>8. CASE ReviseHead(p)
  <2>1. UNCHANGED <<events, task, blocked, card>> /\ pc[p] = "revise"
    BY <1>8 DEF ReviseHead, provider
  <2>2. \/ Identified(p)
        \/ pc'[p] = "idle"
        \/ pc'[p] = "enter" /\ to'[p] = "closure"
    BY <1>8 DEF ReviseHead, Goto, Return, Enter
  <2> QED
    BY <1>a, <1>c, <2>1, <2>2
<1>9. CASE ReadIssue(p) \/ ReadFacts(p)
  <2>1. UNCHANGED <<events, task, blocked, card>> /\ pc[p] \in {"issue", "facts"}
    BY <1>9 DEF ReadIssue, ReadFacts, Reads, store, provider
  <2>2. \/ pc'[p] \in {"facts", "merged", "resolve"} /\ UNCHANGED to
        \/ pc'[p] = "idle"
        \/ pc'[p] = "enter" /\ to'[p] = "closure"
    BY <1>9 DEF ReadIssue, ReadFacts, Goto, Return, Enter
  <2> QED
    BY <1>c, <2>1, <2>2
<1> QED
  BY <1>1, <1>2, <1>3, <1>4, <1>5, <1>6, <1>7, <1>8, <1>9

(* So do the steps from the resolution to the event. *)
LEMMA CompletingOrderly ==
    ASSUME TypeOK, NEW p \in Procs, Orderly(p), UNCHANGED sent,
           \/ RecordMerged(p) \/ Resolve(p) \/ Reload(p) \/ ClearBlock(p)
           \/ FetchIssue(p) \/ PostComment(p) \/ Unlabel(p) \/ CloseIssue(p) \/ Confirm(p)
           \/ SyncCard(p) \/ RecordResolution(p) \/ Abort(p)
    PROVE  Orderly(p)'
<1> USE DEF Orderly, TypeOK, HasCard
<1>0. Framed(p) /\ SameSetting /\ loc[p] \in Local /\ loc'[p] \in Local
  BY CompletingFrame DEF Framed
<1>c. HasCard' = HasCard
  BY <1>0 DEF SameSetting
<1>1. CASE RecordMerged(p)
  <2>1. UNCHANGED <<events, task, blocked, card>> /\ pc[p] = "merged"
    BY <1>1 DEF RecordMerged, provider
  <2>2. \/ pc'[p] = "resolve" /\ UNCHANGED to
        \/ pc'[p] = "idle"
        \/ pc'[p] = "enter" /\ to'[p] = "closure"
    BY <1>1 DEF RecordMerged, Goto, Return, Enter
  <2> QED
    BY <1>c, <2>1, <2>2
<1>2. CASE Resolve(p)
  <2>1. UNCHANGED <<events, blocked, card, to>> /\ pc[p] = "resolve"
    BY <1>2 DEF Resolve, Step, provider
  <2>2. pc'[p] \in {"reload", "idle"} /\ task' \in {"DONE", task}
    BY <1>2 DEF Resolve, Step, Goto
  <2> QED
    BY <1>c, <2>1, <2>2
<1>a. AfterReload(p) \in {"fetch", "card"}
  BY DEF AfterReload
<1>3. CASE Reload(p)
  <2>1. UNCHANGED <<events, task, blocked, card, to>> /\ pc[p] = "reload"
    BY <1>3 DEF Reload, Reads, Step, store, provider
  <2>2. (blocked /\ pc'[p] = "clear") \/ (~blocked /\ pc'[p] \in {"fetch", "card"})
    BY <1>3, <1>a DEF Reload, Step, Goto
  <2>3. loc'[p].phase = "DONE"
    <3>1. loc'[p] = [loc[p] EXCEPT !.st = task, !.phase = "DONE",
                   !.reason = IF loc[p].issue \in Reasons THEN @
                              ELSE IF Superseded THEN "not_planned" ELSE "completed"]
      BY <1>3 DEF Reload, Reads, Keep
    <3> QED
      BY <1>0, <3>1 DEF Local
  <2> QED
    BY <1>c, <2>1, <2>2, <2>3
<1>4. CASE ClearBlock(p)
  <2>1. UNCHANGED <<events, card, to, loc>> /\ pc[p] = "clear" /\ ~blocked'
    BY <1>4 DEF ClearBlock, Step, provider
  <2>2. pc'[p] \in {"fetch", "card"}
    BY <1>4, <1>a DEF ClearBlock, Step, Goto
  <2> QED
    BY <1>c, <2>1, <2>2
<1>5. CASE FetchIssue(p)
  <2>1. UNCHANGED <<events, task, blocked, card, to>> /\ pc[p] = "fetch"
    BY <1>5 DEF FetchIssue, Reads, Step, store, provider
  <2>2. pc'[p] \in {"card", "post", "unlabel"}
    BY <1>5 DEF FetchIssue, Step, Goto
  <2>3. loc'[p].phase = loc[p].phase
    BY <1>0, <1>5 DEF FetchIssue, Reads, Keep, Local
  <2> QED
    BY <1>c, <2>1, <2>2, <2>3
<1>6. CASE PostComment(p) \/ Unlabel(p) \/ CloseIssue(p) \/ Confirm(p)
  <2>1. /\ UNCHANGED <<events, task, blocked, card, to, loc>>
        /\ pc[p] \in {"post", "unlabel", "close", "confirm"}
    BY <1>6 DEF PostComment, Unlabel, CloseIssue, Confirm, Step, store, provider
  <2>2. pc'[p] \in {"unlabel", "close", "confirm", "card", "idle"}
    BY <1>6 DEF PostComment, Unlabel, CloseIssue, Confirm, Step, Goto
  <2> QED
    BY <1>c, <2>1, <2>2
<1>7. CASE SyncCard(p)
  <2>1. /\ UNCHANGED <<events, task, blocked, loc>> /\ pc[p] = "card"
        /\ HasCard => card' = loc[p].phase
        /\ ~HasCard => card' = card
    BY <1>7 DEF SyncCard, store
  <2>2. \/ to[p] # "sync" /\ pc'[p] = "event" /\ UNCHANGED to
        \/ to[p] = "sync" /\ pc'[p] = "enter" /\ to'[p] = "closure"
    BY <1>7 DEF SyncCard, Goto, Return, Enter
  <2> QED
    BY <1>c, <2>1, <2>2
<1>8. CASE RecordResolution(p)
  <2>1. UNCHANGED <<task, blocked, card>> /\ pc[p] = "event"
    BY <1>8 DEF RecordResolution, provider
  <2>2. \/ task = "DONE" /\ pc'[p] = "enter" /\ to'[p] = "closure"
        \/ task = "DONE" /\ pc'[p] = "idle"
        \/ UNCHANGED events /\ pc'[p] = "idle"
    BY <1>8 DEF RecordResolution, Recordable, Goto, Return, Enter
  <2> QED
    BY <1>c, <2>1, <2>2
<1>9. CASE Abort(p)
  <2>1. UNCHANGED <<task, blocked, card, events>> /\ pc'[p] = "idle"
    BY <1>9 DEF Abort, store, provider, Goto
  <2> QED
    BY <1>c, <2>1
<1> QED
  BY <1>1, <1>2, <1>3, <1>4, <1>5, <1>6, <1>7, <1>8, <1>9

(* Nobody else disturbs the order of a lone process. *)
LEMMA OrderKept ==
    ASSUME TypeOK, OthersAreIdle, AloneIsOrderly, Next
    PROVE  AloneIsOrderly'
<1> SUFFICES ASSUME NEW p \in Procs, setting'.procs = {p}
             PROVE  Orderly(p)'
  BY DEF AloneIsOrderly
<1>1. ASSUME NEW q \in Procs, Pass(q) \/ Abort(q)
      PROVE  Orderly(p)'
  <2>1. SameSetting
    BY <1>1, PassFramed DEF Framed
  <2>2. setting.procs = {p} /\ Orderly(p)
    BY <2>1 DEF SameSetting, AloneIsOrderly
  <2>3. pc[q] # "idle" \/ q \in setting.procs
    BY <1>1 DEF Pass, Begin, ReadState, CancelTask, NoteCancel,
             EnterFunction, MatchRows, ReadHead, ReviseHead, ReadIssue, ReadFacts,
             RecordMerged, Resolve, Reload, ClearBlock, FetchIssue, PostComment, Unlabel,
             CloseIssue, Confirm, SyncCard, RecordResolution, Abort, Step
  <2>4. q = p
    BY <2>2, <2>3 DEF OthersAreIdle
  <2>5. UNCHANGED sent
    BY <1>1, PassFramed
  <2> QED
    BY <1>1, <2>2, <2>4, <2>5, ReadingOrderly, CompletingOrderly DEF Pass
<1>2. CASE OutsideStep
  <2>1. SameSetting /\ UNCHANGED <<pc, to, loc>>
    BY <1>2, OutsideFrame
  <2>2. setting.procs = {p} /\ Orderly(p)
    BY <2>1 DEF SameSetting, AloneIsOrderly
  <2>3. UNCHANGED <<events, blocked, card>> /\ (task = "DONE" => task' = "DONE")
    BY <1>2 DEF OutsideStep, Push, MovePr, Checks, PersonCloses, PersonReopens, Rework,
           AskForChanges, StartRun, EndRun, PushRun, RecordRun, PassOn, store, provider
  <2> QED
    BY <2>1, <2>2, <2>3 DEF Orderly, SameSetting, HasCard
<1> QED
  BY <1>1, <1>2 DEF Next, OutsideStep

-----------------------------------------------------------------------------
(* The theorems *)

(* The inductive invariant holds in every state, for any processes and     *)
(* settings.                                                               *)
THEOREM Invariance == Spec => []IInv
<1>1. ASSUME IInv, [Next]_vars PROVE IInv'
  <2>1. CASE Next
    <3>1. TypeOK'
      BY <1>1, <2>1, PassFramed, OutsideFrame DEF IInv, Next, Framed, OutsideStep
    <3> QED
      BY <1>1, <2>1, <3>1, JustifiedKept, MergeKept, IdleKept, CommentsKept, OrderKept
         DEF IInv
  <2>2. CASE UNCHANGED vars
    <3> USE <1>1, <2>2 DEF IInv, vars, store, provider, local
    <3>1. TypeOK'
      BY DEF TypeOK
    <3>2. Justified'
      BY DEF Justified, Late, Decided, Superseded
    <3>3. MergedIsExact' /\ MergeInHand' /\ OthersAreIdle'
      BY DEF MergedIsExact, MergeInHand, OthersAreIdle
    <3>4. CommentsInHand'
      BY DEF CommentsInHand, Posting
    <3>5. AloneIsOrderly'
      BY DEF AloneIsOrderly, Orderly, HasCard
    <3> QED
      BY <3>1, <3>2, <3>3, <3>4, <3>5
  <2> QED
    BY <1>1, <2>1, <2>2
<1> QED
  BY <1>1, InitIInv, PTL DEF Spec

(* What is DONE was decided and what is stored as merged was merged, to    *)
(* the exact commit, whoever pushed, merged or reworked between the reads  *)
(* and the writes of however many processes (feedback.py).                 *)
THEOREM DeliveryProved == Spec => []DeliveryIsExact
<1>1. IInv => DeliveryIsExact
  BY DEF IInv, Justified, Decided, DeliveryIsExact, DoneIsDecided
<1> QED
  BY <1>1, Invariance, PTL

(* A completion that is interrupted anywhere and repeated ends with its    *)
(* event and comments at most once per process (feedback.py,               *)
(* issue_completion.py).                                                   *)
THEOREM CompletionProved == Spec => []CompletionIsOrderly
<1>1. ASSUME IInv PROVE CompletionIsOrderly
  <2>1. setting.procs \subseteq Procs /\ IsFiniteSet(setting.procs)
    BY <1>1, FeedbackAssumption, FS_Subset DEF IInv, TypeOK, Setting
  <2>2. EventIsLast
    <3> SUFFICES ASSUME Cardinality(setting.procs) = 1, events # {}
                 PROVE  task = "DONE" /\ ~blocked /\ (HasCard => card = "DONE")
      BY DEF EventIsLast
    <3>1. PICK p : setting.procs = {p}
      BY <2>1, FS_Singleton
    <3>2. p \in Procs
      BY <2>1, <3>1
    <3> QED
      BY <1>1, <3>1, <3>2 DEF IInv, AloneIsOrderly, Orderly
  <2>3. OneClosureComment
    <3>1. \A r : IsFiniteSet(Posting(r))
      BY FeedbackAssumption, FS_Subset DEF Posting
    <3>2. \A r : Cardinality(Posting(r)) \in Nat
      BY <3>1, FS_CardinalityType
    <3>3. Cardinality(setting.procs) \in Nat
      BY <2>1, FS_CardinalityType
    <3>4. DOMAIN comments = {"completed", "not_planned"}
          /\ \A r \in {"completed", "not_planned"} : comments[r] \in Nat
      BY <1>1 DEF IInv, TypeOK
    <3> QED
      BY <1>1, <3>2, <3>3, <3>4 DEF IInv, CommentsInHand, OneClosureComment
  <2> QED
    BY <2>2, <2>3 DEF CompletionIsOrderly
<1> QED
  BY <1>1, Invariance, PTL
=============================================================================
