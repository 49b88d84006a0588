------------------------------ MODULE WatchProofs ------------------------------
(***************************************************************************)
(* What holds of the two loops of a watch process, its pool of sessions    *)
(* and its flush of the status events, for every set of tasks and of       *)
(* processes, whatever the sessions, the signals, the sends and the other  *)
(* processes do.                                                           *)
(*                                                                         *)
(* The pool: a pass lists its candidates while no session runs, and asks   *)
(* for one status after the other, so without moves of others no task is   *)
(* listed twice (Distinct).  A candidate is taken only with a free slot    *)
(* and without a stop request, and once the stop is requested none is      *)
(* taken again (Late).  The main thread is outside the scheduling loop     *)
(* only when every slot is free (Quiet).                                   *)
(*                                                                         *)
(* The flush: a snapshot in hand was read after the rows it acknowledges   *)
(* (InHand), so what is acknowledged was shown; and if its last event      *)
(* still calls a person, the snapshot shows the phase of that call, so it  *)
(* is alerted first.  No step makes an earlier event call again            *)
(* (CallsBefore): a transition has an event of its own, and what was       *)
(* observed of a stall stays past (Past).  A single flusher sends its      *)
(* snapshots in the order it reads them (InOrder).                         *)
(***************************************************************************)
EXTENDS WorkerPool, StatusOutbox, TLAPS, FiniteSetTheorems, WellFoundedInduction

(* What the proofs need of the types. *)
Shape ==
    /\ pending \in Seq(Task) /\ query \in 1..8
    /\ session \in [Slot -> Phase] /\ DOMAIN task = Slot
    /\ stop \in BOOLEAN /\ tripped \in BOOLEAN /\ byte \in BOOLEAN
    /\ late \in Nat /\ moves \in Nat

Late == late <= 1 /\ (~ stop \/ ppc = "submit" => late = 0)

Quiet ==
    ppc \in {"idle", "prepare", "list", "sleep", "enter", "select", "returned", "failed"} =>
        Active = {}

Room == ppc = "submit" => pending # << >> /\ \E s \in Slot : session[s] = "free"

(* The candidates left are distinct, and none of them has a session. *)
Once == \A i, j \in DOMAIN pending : pending[i] = pending[j] => i = j
Unserved == \A i \in DOMAIN pending, s \in Active : pending[i] # task[s]
Apart == \A r, s \in Active : r # s => task[r] # task[s]
ByStatus == ppc = "list" =>
            \A i \in DOMAIN pending :
                \E q \in 1..(query - 1) : status[pending[i]] = CandidateStatus[q]

Distinct == moves = 0 => Once /\ Unserved /\ Apart /\ ByStatus

(* A request that came while the main thread goes to sleep is in the pipe. *)
Awake == ppc \in {"enter", "select"} /\ (stop \/ tripped) => byte

PInv == Shape /\ Late /\ Quiet /\ Room /\ Distinct /\ Awake

(* list() of a finite set: its elements, each of them once.                *)
LEMMA SetAsSeq ==
    ASSUME NEW S, IsFiniteSet(S)
    PROVE  /\ SetToSeq(S) \in Seq(S)
           /\ \A i, j \in DOMAIN SetToSeq(S) : SetToSeq(S)[i] = SetToSeq(S)[j] => i = j
<1>1. PICK n \in Nat : ExistsBijection(1..n, S)
  BY FS_NatBijection
<1>2. Cardinality(S) = n
  BY <1>1, FS_CountingElements
<1>3. \E f \in [1..Cardinality(S) -> S] : IsInjective(f)
  BY <1>1, <1>2 DEF ExistsBijection, Bijection, Injection
<1>4. SetToSeq(S) \in [1..Cardinality(S) -> S] /\ IsInjective(SetToSeq(S))
  BY <1>3 DEF SetToSeq
<1> QED
  BY <1>2, <1>4 DEF IsInjective

(* A session that takes a step keeps its slot and its task, and leaves the *)
(* main thread alone (FactoryRuntime.run_task).                            *)
LEMMA SessionFrame ==
    ASSUME Shape, NEW s \in Slot, SessionStep(s)
    PROVE  /\ session[s] # "free" /\ session'[s] # "free" /\ session' \in [Slot -> Phase]
           /\ \A r \in Slot \ {s} : session'[r] = session[r]
           /\ UNCHANGED <<pool, task, signals, late, moves>>
BY DEF Shape, SessionStep, Launch, Decline, Resume, SaveRow, LaunchFails, Succeed, EndRun,
       Publish, Become, Keep, Phase

(* With fewer sessions than slots, a slot is free.                         *)
LEMMA FreeSlot ==
    ASSUME Cardinality(Active) < MaxConcurrency
    PROVE  \E s \in Slot : session[s] = "free"
<1> SUFFICES ASSUME \A s \in Slot : session[s] # "free" PROVE FALSE
  OBVIOUS
<1>1. MaxConcurrency \in Int /\ 1 \in Int /\ MaxConcurrency >= 1
  BY PoolAssumption
<1>2. Cardinality(1..MaxConcurrency) = MaxConcurrency - 1 + 1
  BY <1>1, FS_Interval
<1>3. Active = 1..MaxConcurrency
  BY DEF Active, Slot
<1> QED
  BY <1>1, <1>2, <1>3

(* A step that leaves candidates and slots alone keeps what is known of    *)
(* them, unless it moves the main thread to a place that asks more.        *)
LEMMA Idle ==
    ASSUME Distinct, UNCHANGED <<pending, moves, task>>, Active' = Active,
           ppc' = "list" => ppc = "list" /\ UNCHANGED <<status, query>>
    PROVE  Distinct'
BY DEF Distinct, Once, Unserved, Apart, ByStatus

(* A pass asks for one status after the other (pool_candidates): a task it *)
(* lists now has a status it did not ask for before.                       *)
LEMMA QueryStep ==
    ASSUME PInv, Query
    PROVE  pending' \in Seq(Task) /\ query' \in 1..8 /\ Distinct'
<1> DEFINE found == {t \in Task : status[t] = CandidateStatus[query]}
           more == SetToSeq(found)
<1>0. /\ Shape /\ Active = {} /\ Active' = Active /\ query \in 1..7 /\ query' = query + 1
      /\ ppc = "list" /\ pending' = pending \o more /\ UNCHANGED <<status, moves>>
  BY DEF PInv, Shape, Quiet, Query, Main, sessions, Active, CandidateStatus
<1>1. /\ more \in Seq(found) /\ \A i, j \in DOMAIN more : more[i] = more[j] => i = j
  <2>1. IsFiniteSet(found)
    BY PoolAssumption, FS_Subset
  <2> QED
    BY <2>1, SetAsSeq
<1> HIDE DEF more
<1>2. more \in Seq(Task) /\ \A j \in DOMAIN more : status[more[j]] = CandidateStatus[query]
  BY <1>1
<1> HIDE DEF found
<1>3. pending \in Seq(Task) /\ pending' \in Seq(Task) /\ query' \in 1..8
  BY <1>0, <1>2 DEF Shape
<1>4. \A i \in DOMAIN pending' :
         \/ i \in DOMAIN pending /\ pending'[i] = pending[i]
         \/ i - Len(pending) \in DOMAIN more /\ pending'[i] = more[i - Len(pending)]
            /\ i \notin DOMAIN pending
  BY <1>0, <1>2, <1>3
<1>5. ASSUME moves = 0 PROVE Once' /\ ByStatus'
  <2>1. /\ \A i, j \in DOMAIN pending : pending[i] = pending[j] => i = j
        /\ \A i \in DOMAIN pending :
              \E q \in 1..(query - 1) : status[pending[i]] = CandidateStatus[q]
    BY <1>0, <1>5 DEF PInv, Distinct, Once, ByStatus
  <2>2. \A q \in 1..7 : CandidateStatus[q] = CandidateStatus[query] => q = query
    BY <1>0 DEF CandidateStatus
  <2>3. \A i \in DOMAIN pending, j \in DOMAIN more : pending[i] # more[j]
    <3> SUFFICES ASSUME NEW i \in DOMAIN pending, NEW j \in DOMAIN more, pending[i] = more[j]
                 PROVE  FALSE
      OBVIOUS
    <3>1. PICK q \in 1..(query - 1) : status[pending[i]] = CandidateStatus[q]
      BY <2>1
    <3>2. CandidateStatus[q] = CandidateStatus[query]
      BY <1>2, <3>1
    <3>3. q \in 1..7 /\ q # query
      BY <1>0, <3>1
    <3> QED
      BY <2>2, <3>2, <3>3
  <2>4. ASSUME NEW i \in DOMAIN pending', NEW j \in DOMAIN pending', pending'[i] = pending'[j]
        PROVE  i = j
    <3>1. i \in Int /\ j \in Int /\ Len(pending) \in Int
      BY <1>3
    <3>2. CASE i \in DOMAIN pending /\ j \in DOMAIN pending
      BY <1>4, <2>1, <2>4, <3>2
    <3>3. CASE i \notin DOMAIN pending /\ j \notin DOMAIN pending
      <4>1. i - Len(pending) = j - Len(pending)
        BY <1>1, <1>4, <2>4, <3>3
      <4> QED
        BY <3>1, <4>1
    <3> QED
      BY <1>4, <2>3, <2>4, <3>2, <3>3
  <2>5. ASSUME NEW i \in DOMAIN pending'
        PROVE  \E q \in 1..query : status[pending'[i]] = CandidateStatus[q]
    BY <1>0, <1>2, <1>4, <2>1
  <2> QED
    BY <1>0, <2>4, <2>5 DEF Once, ByStatus
<1> QED
  BY <1>0, <1>3, <1>5 DEF Distinct, Unserved, Apart

(* The candidate taken is the first of those left, and gets a free slot    *)
(* (run_pass, _submit).                                                    *)
LEMMA SubmitStep ==
    ASSUME PInv, Submit
    PROVE  /\ pending' \in Seq(Task) /\ session' \in [Slot -> Phase] /\ DOMAIN task' = Slot
           /\ late' \in 0..1 /\ (~ stop => late' = 0) /\ Distinct'
<1>0. Shape /\ ppc = "submit" /\ pending # << >> /\ late = 0 /\ UNCHANGED <<stop, moves>>
      /\ ppc' = "room"
  BY DEF PInv, Late, Room, Submit, Main
<1>1. PICK s \in Slot : /\ session[s] = "free" /\ session' = [session EXCEPT ![s] = "queued"]
                        /\ task' = [task EXCEPT ![s] = Head(pending)]
  BY <1>0 DEF PInv, Room, Submit
<1>2. pending' = Tail(pending) /\ late' = (IF stop THEN late + 1 ELSE late)
  BY DEF Submit
<1>3. /\ pending \in Seq(Task) /\ pending' \in Seq(Task) /\ Head(pending) = pending[1]
      /\ 1 \in DOMAIN pending
      /\ \A i \in DOMAIN pending' : i + 1 \in DOMAIN pending /\ pending'[i] = pending[i + 1]
                                    /\ i \in Nat /\ i # 0
  BY <1>0, <1>2 DEF Shape
<1>4. /\ session' \in [Slot -> Phase] /\ DOMAIN task' = Slot
      /\ Active' = Active \union {s} /\ s \notin Active /\ task'[s] = pending[1]
      /\ \A r \in Active : task'[r] = task[r]
  BY <1>0, <1>1, <1>3 DEF Shape, Active, Phase
<1>5. ASSUME moves = 0 PROVE Once' /\ Unserved' /\ Apart'
  <2>1. Once /\ Unserved /\ Apart
    BY <1>5 DEF PInv, Distinct
  <2>2. Once'
    BY <1>3, <2>1 DEF Once
  <2>3. \A i \in DOMAIN pending' : pending'[i] # pending[1]
    BY <1>3, <2>1 DEF Once
  <2>4. Unserved'
    BY <1>3, <1>4, <2>1, <2>3 DEF Unserved
  <2>5. Apart'
    BY <1>3, <1>4, <2>1 DEF Unserved, Apart
  <2> QED
    BY <2>2, <2>4, <2>5
<1> QED
  BY <1>0, <1>2, <1>3, <1>4, <1>5 DEF Distinct, ByStatus

(* A step of the main thread that leaves candidates and slots alone.       *)
Plain ==
    \/ BeginPass \/ StopBeforePass \/ PrepareConflicts \/ PrepareFails \/ Listed
    \/ TakeCandidate \/ StopScheduling \/ ReportFails \/ AfterReport \/ WaitTimesOut
    \/ CancelActive \/ SleepSkipped \/ SleepBegins \/ EnterSelect \/ SelectReadable
    \/ SelectExpires

(* Such a step leaves the scheduling loop only when every session is over, *)
(* and takes a candidate only where there is room (worker_pool.py).        *)
LEMMA PlainStep == ASSUME PInv, Plain PROVE PInv'
<1>1. /\ UNCHANGED <<status, pending, session, task, moves, late, stop, tripped>>
      /\ ppc' # "list" /\ (query' = query \/ query' \in 1..8) /\ byte' \in {FALSE, byte}
  BY DEF Plain, BeginPass, StopBeforePass, PrepareConflicts, PrepareFails, Listed,
         TakeCandidate, StopScheduling, ReportFails, AfterReport, WaitTimesOut,
         CancelActive, SleepSkipped, SleepBegins, EnterSelect, SelectReadable,
         SelectExpires, Main, sessions, signals, pool
<1>2. Shape /\ Active' = Active
  BY <1>1 DEF PInv, Active
<1>3. Shape'
  BY <1>1, <1>2 DEF Shape
<1>4. Distinct'
  BY <1>1, <1>2, Idle DEF PInv
<1>5. Late' /\ Room'
  <2>1. CASE TakeCandidate
    <3>1. ~ stop /\ Cardinality(Active) < MaxConcurrency /\ pending # << >>
      BY <2>1 DEF TakeCandidate, HasRoom
    <3>2. \E s \in Slot : session[s] = "free"
      BY <3>1, FreeSlot
    <3> QED
      BY <1>1, <1>2, <3>1, <3>2 DEF Late, Room, PInv
  <2>2. CASE Plain /\ ~ TakeCandidate
    <3>1. ppc' # "submit"
      BY <2>2 DEF Plain, BeginPass, StopBeforePass, PrepareConflicts, PrepareFails, Listed,
             StopScheduling, ReportFails, AfterReport, WaitTimesOut, CancelActive,
             SleepSkipped, SleepBegins, EnterSelect, SelectReadable, SelectExpires, Main
    <3> QED
      BY <1>1, <3>1 DEF Late, Room, PInv
  <2> QED
    BY <2>1, <2>2
<1>6. Quiet'
  BY <1>2
     DEF PInv, Quiet, Plain, BeginPass, StopBeforePass, PrepareConflicts, PrepareFails,
         Listed, TakeCandidate, StopScheduling, ReportFails, AfterReport, WaitTimesOut,
         CancelActive, SleepSkipped, SleepBegins, EnterSelect, SelectReadable,
         SelectExpires, Main
<1>7. Awake'
  <2>1. CASE SleepBegins
    BY <1>1, <2>1 DEF SleepBegins, Main, Awake
  <2>2. CASE EnterSelect
    BY <1>1, <2>2 DEF EnterSelect, signals, PInv, Awake
  <2>3. CASE Plain /\ ~ SleepBegins /\ ~ EnterSelect
    <3>1. ppc' \notin {"enter", "select"}
      BY <2>3 DEF Plain, BeginPass, StopBeforePass, PrepareConflicts, PrepareFails, Listed,
             TakeCandidate, StopScheduling, ReportFails, AfterReport, WaitTimesOut,
             CancelActive, SleepSkipped, SelectReadable, SelectExpires, Main
    <3> QED
      BY <3>1 DEF Awake
  <2> QED
    BY <2>1, <2>2, <2>3
<1> QED
  BY <1>3, <1>4, <1>5, <1>6, <1>7 DEF PInv

(* The steps that do: a pass starts to list, asks for a status, submits a  *)
(* candidate, reports a session or waits for all of them.                  *)
LEMMA BusyStep ==
    ASSUME PInv, Prepare \/ Query \/ Submit \/ Report \/ DrainEnds
    PROVE  PInv'
<1>0. /\ UNCHANGED <<moves, stop, tripped, byte>>
      /\ ppc' \in {"list", "room", "report", "failed"}
  BY DEF Prepare, Query, Submit, Report, DrainEnds, Main
<1>1. Room' /\ Awake'
  BY <1>0 DEF Room, Awake
<1>2. CASE Prepare
  <2>1. /\ ppc = "prepare" /\ ppc' = "list" /\ pending' = << >> /\ query' = 1
        /\ UNCHANGED <<session, task, late>>
    BY <1>2 DEF Prepare, Main, sessions
  <2>2. Active = {} /\ Active' = {}
    BY <2>1 DEF PInv, Quiet, Active
  <2>3. Shape'
    BY <1>0, <2>1 DEF PInv, Shape
  <2>4. Distinct'
    BY <2>1, <2>2 DEF Distinct, Once, Unserved, Apart, ByStatus
  <2> QED
    BY <1>0, <1>1, <2>1, <2>2, <2>3, <2>4 DEF PInv, Late, Quiet
<1>3. CASE Query
  <2>1. UNCHANGED <<session, task, late>> /\ Active' = Active /\ ppc = "list" /\ ppc' = "list"
    BY <1>3 DEF Query, Main, sessions, Active
  <2>2. pending' \in Seq(Task) /\ query' \in 1..8 /\ Distinct'
    BY <1>3, QueryStep
  <2> QED
    BY <1>0, <1>1, <2>1, <2>2 DEF PInv, Shape, Late, Quiet
<1>4. CASE Submit
  <2>1. UNCHANGED query /\ ppc' = "room"
    BY <1>4 DEF Submit, Main
  <2> QED
    BY <1>0, <1>1, <1>4, <2>1, SubmitStep DEF PInv, Shape, Late, Quiet
<1>5. CASE Report
  <2>1. PICK s \in Slot : /\ session' = [session EXCEPT ![s] = "free"]
                          /\ task' = [task EXCEPT ![s] = "none"]
    BY <1>5 DEF Report, Over
  <2>2. UNCHANGED <<pending, query, late>> /\ ppc' = "report"
    BY <1>5 DEF Report, Main
  <2>3. /\ Active' \subseteq Active /\ \A r \in Active' : task'[r] = task[r]
        /\ session' \in [Slot -> Phase] /\ DOMAIN task' = Slot
    BY <2>1 DEF PInv, Shape, Active, Phase
  <2>4. Distinct'
    BY <1>0, <2>2, <2>3 DEF PInv, Distinct, Once, Unserved, Apart, ByStatus
  <2> QED
    BY <1>0, <1>1, <2>2, <2>3, <2>4 DEF PInv, Shape, Late, Quiet
<1>6. CASE DrainEnds
  <2>1. /\ session' = [s \in Slot |-> "free"] /\ task' = [s \in Slot |-> "none"]
        /\ UNCHANGED <<pending, query, late>> /\ ppc' = "failed"
    BY <1>6 DEF DrainEnds, Main
  <2>2. Active' = {} /\ session' \in [Slot -> Phase] /\ DOMAIN task' = Slot
    BY <2>1 DEF Active, Phase
  <2>3. Distinct'
    BY <1>0, <2>1, <2>2 DEF PInv, Distinct, Once, Unserved, Apart, ByStatus
  <2> QED
    BY <1>0, <1>1, <2>1, <2>2, <2>3 DEF PInv, Shape, Late, Quiet
<1> QED
  BY <1>2, <1>3, <1>4, <1>5, <1>6

(* Every step of the pool process, its sessions and the others.            *)
LEMMA PoolStep == PInv /\ [Next]_vars => PInv'
<1> SUFFICES ASSUME PInv, [Next]_vars PROVE PInv'
  OBVIOUS
<1>1. CASE MainStep
  BY <1>1, PlainStep, BusyStep DEF MainStep, Plain
<1>2. ASSUME NEW s \in Slot, SessionStep(s) PROVE PInv'
  <2>1. /\ session[s] # "free" /\ session'[s] # "free" /\ session' \in [Slot -> Phase]
        /\ \A r \in Slot \ {s} : session'[r] = session[r]
        /\ UNCHANGED <<ppc, pending, query, task, stop, tripped, byte, late, moves>>
    BY <1>2, SessionFrame DEF PInv, pool, signals
  <2>2. Active' = Active /\ s \in Active
    BY <2>1 DEF Active
  <2>3. ppc # "list"
    BY <2>2 DEF PInv, Quiet
  <2>4. Distinct'
    BY <2>1, <2>2, <2>3, Idle DEF PInv
  <2>5. Room'
    BY <2>1 DEF PInv, Room
  <2> QED
    BY <2>1, <2>2, <2>4, <2>5 DEF PInv, Shape, Late, Quiet, Awake
<1>3. ASSUME NEW t \in Task, OtherProcess(t) PROVE PInv'
  <2>1. UNCHANGED <<ppc, pending, query, session, task, stop, tripped, byte, late>>
        /\ moves' = moves + 1
    BY <1>3 DEF OtherProcess, pool, sessions, signals
  <2>2. moves' \in Nat /\ moves' # 0 /\ Active' = Active
    BY <2>1 DEF PInv, Shape, Active
  <2> QED
    BY <2>1, <2>2 DEF PInv, Shape, Late, Quiet, Room, Distinct, Awake
<1>4. CASE Signal \/ Handler \/ Interrupted
  <2>1. /\ UNCHANGED <<status, ppc, pending, query, session, task, late, moves>>
        /\ tripped' \in BOOLEAN /\ byte' = TRUE /\ stop' \in BOOLEAN /\ (~ stop' => ~ stop)
    BY <1>4 DEF Signal, Handler, Interrupted, WakeupByte, pool, sessions, PInv, Shape
  <2>2. Active' = Active
    BY <2>1 DEF Active
  <2>3. Distinct'
    BY <2>1, <2>2, Idle DEF PInv
  <2>4. Late' /\ Shape'
    BY <2>1 DEF PInv, Late, Shape
  <2> QED
    BY <2>1, <2>2, <2>3, <2>4 DEF PInv, Quiet, Room, Awake
<1>5. CASE UNCHANGED vars
  <2>1. /\ UNCHANGED <<status, ppc, pending, query, session, task, late, moves>>
        /\ UNCHANGED <<stop, tripped, byte>>
    BY <1>5 DEF vars, pool, sessions, signals
  <2>2. Active' = Active
    BY <2>1 DEF Active
  <2>3. Distinct'
    BY <2>1, <2>2, Idle DEF PInv
  <2> QED
    BY <2>1, <2>2, <2>3 DEF PInv, Shape, Late, Quiet, Room, Awake
<1> QED
  BY <1>1, <1>2, <1>3, <1>4, <1>5 DEF Next, Done

(* At the start the pool is between two passes and no session runs.        *)
LEMMA InitPInv == Init => PInv
<1> SUFFICES ASSUME Init PROVE PInv
  OBVIOUS
<1>1. /\ pending = << >> /\ ppc = "idle" /\ session = [s \in Slot |-> "free"]
      /\ late = 0 /\ Active = {} /\ DOMAIN pending = {}
  BY DEF Init, Active
<1>2. Shape
  <2>1. session \in [Slot -> Phase] /\ DOMAIN task = Slot
    BY <1>1 DEF Init, Phase
  <2>2. pending \in Seq(Task) /\ query \in 1..8 /\ late \in Nat /\ moves \in Nat
    BY <1>1 DEF Init
  <2>3. stop \in BOOLEAN /\ tripped \in BOOLEAN /\ byte \in BOOLEAN
    BY DEF Init
  <2> QED
    BY <2>1, <2>2, <2>3 DEF Shape
<1>3. Distinct
  BY <1>1 DEF Distinct, Once, Unserved, Apart, ByStatus
<1> QED
  BY <1>1, <1>2, <1>3 DEF PInv, Late, Quiet, Room, Awake

(* SessionsContained for every set of tasks: at most one session starts    *)
(* after a stop request, none outlives the pool process, and no task has   *)
(* two sessions as long as no other process moves a task between two of    *)
(* the queries (worker_pool.py run_pass, _CooperativeStop).                *)
THEOREM ContainedProved == Spec => []SessionsContained
<1>1. PInv => SessionsContained
  BY DEF PInv, Late, Quiet, Distinct, Apart, SessionsContained, AtMostOneLateSession,
         NoSessionOutlivesPool, DistinctSessions, Ended, Active
<1> QED
  BY <1>1, InitPInv, PoolStep, PTL DEF Spec

(* The safety part of StopIsHeeded: the idle interval is never waited out  *)
(* after a stop request, because the wakeup descriptor holds a byte from   *)
(* the moment the signal arrives (worker_pool.py _CooperativeStop.sleep).  *)
THEOREM SleeperWakes == Spec => StopWakesSleeper
<1>1. PInv /\ [Next]_vars => [SelectExpires => ~ stop /\ ~ tripped]_vars
  BY DEF PInv, Awake, Shape, SelectExpires
<1> QED
  BY <1>1, InitPInv, PoolStep, PTL DEF Spec, StopWakesSleeper

-----------------------------------------------------------------------------
(* A set of positions of the queue has a last one.                         *)
LEMMA LastPosition ==
    ASSUME NEW n \in Nat, NEW P, P \subseteq 0..n, P # {}
    PROVE  Max(P) \in P /\ \A i \in P : i <= Max(P)
<1> DEFINE above == {m \in Nat : \A i \in P : i <= m}
<1>1. n \in above /\ above \subseteq Nat
  OBVIOUS
<1>2. PICK m \in above : \A k \in above : ~ (<<k, m>> \in OpToRel(<, Nat))
  BY <1>1, NatLessThanWellFounded, WFMin
<1>3. \A k \in above : ~ (k < m)
  BY <1>2 DEF OpToRel
<1>4. m \in P
  <2> SUFFICES ASSUME m \notin P PROVE FALSE
    OBVIOUS
  <2>1. m \in Nat /\ (\A i \in P : i <= m) /\ \A i \in P : i \in Nat /\ i # m
    BY <1>1
  <2>2. m \in Nat /\ P \subseteq Nat /\ \A i \in P : i < m
    BY <2>1
  <2>3. PICK i \in P : i \in Nat /\ i < m
    BY <2>2
  <2>4. m - 1 \in above
    BY <2>2, <2>3
  <2> QED
    BY <2>2, <2>4, <1>3
<1>5. \E x \in P : \A y \in P : x >= y
  BY <1>2, <1>4
<1>6. Max(P) \in P /\ \A y \in P : Max(P) >= y
  BY <1>5 DEF Max
<1> QED
  BY <1>6

(* ... and a first one.                                                    *)
LEMMA FirstPosition ==
    ASSUME NEW P, P \subseteq Nat, P # {}
    PROVE  Min(P) \in P /\ \A i \in P : Min(P) <= i
<1>1. PICK m \in P : \A k \in P : ~ (<<k, m>> \in OpToRel(<, Nat))
  BY NatLessThanWellFounded, WFMin
<1>2. \A k \in P : ~ (k < m)
  BY <1>1 DEF OpToRel
<1>3. \E x \in P : \A y \in P : x =< y
  BY <1>2
<1> QED
  BY <1>3 DEF Min

(* A finite set whose elements have different keys can be listed in the    *)
(* order of the keys: each at the place its rank says.                     *)
LEMMA ListedInOrder ==
    ASSUME NEW S, IsFiniteSet(S), NEW key \in [S -> Nat],
           \A x, y \in S : key[x] = key[y] => x = y
    PROVE  \E s \in SetToSeqs(S) :
               \A j, k \in DOMAIN s : j < k => key[s[j]] < key[s[k]]
<1> DEFINE n == Cardinality(S)
           upTo(x) == {y \in S : key[y] <= key[x]}
           rank == [x \in S |-> Cardinality(upTo(x))]
           s == [i \in 1..n |-> CHOOSE x \in S : rank[x] = i]
<1>1. n \in Nat /\ IsFiniteSet(1..n) /\ Cardinality(1..n) = n
  <2>1. n \in Nat
    BY FS_CardinalityType
  <2> QED
    BY <2>1, FS_Interval
<1>2. \A x \in S : /\ IsFiniteSet(upTo(x)) /\ rank[x] \in Nat /\ rank[x] # 0 /\ rank[x] <= n
  <2> TAKE x \in S
  <2>1. upTo(x) \in SUBSET S /\ x \in upTo(x)
    OBVIOUS
  <2>2. IsFiniteSet(upTo(x)) /\ Cardinality(upTo(x)) <= n
    BY <2>1, FS_Subset
  <2>3. Cardinality(upTo(x)) \in Nat /\ Cardinality(upTo(x)) # 0
    BY <2>1, <2>2, FS_CardinalityType, FS_EmptySet
  <2> QED
    BY <2>2, <2>3
<1>3. \A x, y \in S : key[x] < key[y] => rank[x] < rank[y]
  <2> SUFFICES ASSUME NEW x \in S, NEW y \in S, key[x] < key[y] PROVE rank[x] < rank[y]
    OBVIOUS
  <2>1. upTo(x) \in SUBSET upTo(y) /\ y \notin upTo(x) /\ y \in upTo(y)
    OBVIOUS
  <2>2. Cardinality(upTo(x)) <= Cardinality(upTo(y)) /\ Cardinality(upTo(x)) # Cardinality(upTo(y))
    BY <1>2, <2>1, FS_Subset
  <2> QED
    BY <1>2, <2>2
<1>4. \A x, y \in S : x # y => key[x] < key[y] \/ key[y] < key[x]
  OBVIOUS
<1>5. rank \in [S -> 1..n]
  BY <1>1, <1>2
<1> HIDE DEF rank, n
<1>6. \A x \in S : rank[x] \in Nat
  BY <1>2
<1>7. rank \in Surjection(S, 1..n)
  <2>1. \A x, y \in S : rank[x] = rank[y] => x = y
    <3> SUFFICES ASSUME NEW x \in S, NEW y \in S, rank[x] = rank[y], x # y PROVE FALSE
      OBVIOUS
    <3>1. rank[x] < rank[y] \/ rank[y] < rank[x]
      BY <1>3, <1>4
    <3> QED
      BY <1>6, <3>1
  <2>2. rank \in Injection(S, 1..n)
    BY <1>5, <2>1 DEF Injection, IsInjective
  <2> QED
    BY <1>1, <2>2, FS_Injection DEF n
<1>8. \A i \in 1..n : s[i] \in S /\ rank[s[i]] = i
  <2>1. \A i \in 1..n : \E x \in S : rank[x] = i
    BY <1>7 DEF Surjection
  <2> QED
    BY <2>1
<1> HIDE DEF s
<1>9. s \in [1..n -> S] /\ DOMAIN s = 1..n
  BY <1>8 DEF s
<1>10. s \in SetToSeqs(S)
  <2>1. \A i, j \in 1..n : i # j => s[i] # s[j]
    BY <1>8
  <2> QED
    BY <1>9, <2>1 DEF SetToSeqs, n
<1>11. \A j, k \in DOMAIN s : j < k => key[s[j]] < key[s[k]]
  <2> SUFFICES ASSUME NEW j \in 1..n, NEW k \in 1..n, j < k, ~ (key[s[j]] < key[s[k]])
               PROVE  FALSE
    BY <1>9
  <2>1. rank[s[k]] < rank[s[j]] \/ s[k] = s[j]
    BY <1>3, <1>4, <1>8
  <2> QED
    BY <1>1, <1>8, <2>1
<1> QED
  BY <1>10, <1>11

(* The queue is served in the order of the oldest rows: what flush() is to *)
(* deliver are the tasks of the rows it read, each of them once, those     *)
(* with older rows first (status_events.py flush, a dict of the rows).     *)
LEMMA TasksInOrder ==
    ASSUME log \in Seq(Events), NEW P, P \subseteq DOMAIN log
    PROVE  /\ TasksOf(P) \in Seq(Tasks)
           /\ \A i, j \in DOMAIN TasksOf(P) :
                 /\ TasksOf(P)[i] = TasksOf(P)[j] => i = j
                 /\ i < j => Min(P \intersect Of(TasksOf(P)[i])) < Min(P \intersect Of(TasksOf(P)[j]))
<1> DEFINE S == {log[i].task : i \in P}
           First(t) == Min(P \intersect Of(t))
           key == [t \in S |-> First(t)]
<1>1. DOMAIN log = 1..Len(log) /\ Len(log) \in Nat /\ S \subseteq Tasks
  <2>1. \A i \in DOMAIN log : log[i] \in Events
    OBVIOUS
  <2>2. \A e \in Events : e.task \in Tasks
    BY DEF Events
  <2> QED
    BY <2>1, <2>2
<1>2. IsFiniteSet(S)
  <2>1. IsFiniteSet(Tasks)
    BY OutboxAssumption
  <2> QED
    BY <1>1, <2>1, FS_Subset
<1>3. \A t \in S : First(t) \in P /\ First(t) \in Nat /\ log[First(t)].task = t
  <2> TAKE t \in S
  <2>1. P \intersect Of(t) \subseteq Nat /\ P \intersect Of(t) # {}
    BY <1>1 DEF Of
  <2>2. First(t) \in P \intersect Of(t)
    BY <2>1, FirstPosition
  <2> QED
    BY <2>1, <2>2 DEF Of
<1>4. key \in [S -> Nat] /\ \A x, y \in S : key[x] = key[y] => x = y
  BY <1>3
<1>5. \E s \in SetToSeqs(S) : \A j, k \in DOMAIN s : j < k => key[s[j]] < key[s[k]]
  BY <1>2, <1>4, ListedInOrder
<1>6. \A s \in SetToSeqs(S) : /\ DOMAIN s = 1..Cardinality(S) /\ s \in [1..Cardinality(S) -> S]
                             /\ \A i, j \in DOMAIN s : i # j => s[i] # s[j]
  BY DEF SetToSeqs
<1>7. \E s \in SetToSeqs(S) : \A j, k \in DOMAIN s : j < k => First(s[j]) < First(s[k])
  BY <1>5, <1>6
<1>8. /\ TasksOf(P) \in SetToSeqs(S)
      /\ \A j, k \in DOMAIN TasksOf(P) : j < k => First(TasksOf(P)[j]) < First(TasksOf(P)[k])
  BY <1>7 DEF TasksOf
<1>9. Cardinality(S) \in Nat
  BY <1>2, FS_CardinalityType
<1>10. TasksOf(P) \in Seq(Tasks)
  <2>1. TasksOf(P) \in [1..Cardinality(S) -> Tasks]
    BY <1>1, <1>6, <1>8
  <2> HIDE DEF S
  <2> QED
    BY <1>9, <2>1
<1> QED
  BY <1>6, <1>8, <1>10

-----------------------------------------------------------------------------
(* The steps of a flusher that delivers a snapshot. *)
Delivering == {"sync", "alert", "mark"}

(* What was observed of a run cannot become true again: the run or the     *)
(* heartbeat is another one by now, or the run still stalls.               *)
Past(e) ==
    /\ e.run <= run[e.task]
    /\ e.run = run[e.task] =>
          /\ e.beat <= beat[e.task]
          /\ e.beat = beat[e.task] /\ taskStatus[e.task] = "RUNNING" => stale[e.task]

StallsArePast ==
    /\ \A i \in DOMAIN log : /\ log[i].phase = "STALLED" <=> log[i].kind = "stall"
                             /\ log[i].kind = "stall" => Past(log[i])
    /\ \A f \in Flushers : pc[f] = "observe" =>
          /\ snap[f].phase \in {"RUNNING", "STALLED"}
          /\ snap[f].phase = "STALLED" => Past(snap[f])

(* Event i is the last of its task, which waits for a person in the phase  *)
(* of the event.                                                           *)
Calls(i) ==
    LET t == log[i].task
    IN  /\ i = LastOf(t) /\ log[i].phase \in ALERT_PHASES
        /\ PhaseOf(t) = log[i].phase
        /\ log[i].kind = "stall" => log[i].run = run[t] /\ log[i].beat = beat[t]

(* A snapshot in hand was read with the events of its flush in the queue;  *)
(* if its last event still calls somebody, it shows the phase of the call. *)
InHand(f) ==
    LET s == snap[f]
    IN  /\ s.seen <= Len(log) /\ pend[f] \subseteq 1 .. s.seen
        /\ s.last \in Of(s.task) \union {0}
        /\ \A i \in Of(s.task) : i <= s.seen => i <= s.last
        /\ s.last # 0 /\ Calls(s.last) => s.phase = log[s.last].phase
        /\ pc[f] # "sync" => s.seen <= shown[s.task]
        /\ pc[f] = "mark" /\ s.phase \in ALERT_PHASES /\ s.last # 0 => alerts[s.last] > 0

HandsAreTrue == \A f \in Flushers : pc[f] \in Delivering => InHand(f)

(* One flusher sends its snapshots in the order it reads them. *)
InOrder ==
    Cardinality(setting.flushers) = 1 =>
        /\ shown[card.task] <= card.seen
        /\ \A f \in Flushers : pc[f] = "sync" => \A t \in Tasks : shown[t] <= snap[f].seen

OthersRest == \A f \in Flushers \ setting.flushers : pc[f] = "idle"

FlushInv ==
    /\ OutboxTypeOK /\ OthersRest /\ StallsArePast /\ HandsAreTrue
    /\ DeliveredWasShown /\ AlertNotLost /\ InOrder

(* The last of some positions, or 0.                                       *)
LEMMA LastOrZero ==
    ASSUME NEW n \in Nat, NEW P, P \subseteq 1..n
    PROVE  /\ Max(P \union {0}) \in P \union {0} /\ Max(P \union {0}) \in 0..n
           /\ \A i \in P : i <= Max(P \union {0})
<1>1. P \union {0} \subseteq 0..n /\ P \union {0} # {}
  OBVIOUS
<1>2. Max(P \union {0}) \in P \union {0} /\ \A i \in P \union {0} : i <= Max(P \union {0})
  BY <1>1, LastPosition
<1> QED
  BY <1>1, <1>2

(* What a row of the queue holds.                                          *)
LEMMA EventFields ==
    ASSUME NEW e \in Events
    PROVE  /\ e.task \in Tasks /\ e.phase \in Phases /\ e.run \in Nat /\ e.beat \in Nat
           /\ e.kind \in {"transition", "stall", "recovered"}
BY DEF Events

(* What a step does to the queue: nothing, or one event is appended.       *)
LogStep == UNCHANGED <<log, alerts>> \/ \E e \in Events : Queue(e)

(* The queue only grows, and keeps the rows it has (schema.py, observe).   *)
LEMMA LogGrows ==
    ASSUME OutboxTypeOK, LogStep
    PROVE  /\ log' \in Seq(Events) /\ alerts' \in Seq(Nat) /\ Len(alerts') = Len(log')
           /\ Len(log) \in Nat /\ Len(log') \in Nat /\ Len(log) <= Len(log')
           /\ DOMAIN log = 1..Len(log) /\ DOMAIN log' = 1..Len(log')
           /\ \A i \in DOMAIN log : log'[i] = log[i] /\ alerts'[i] = alerts[i]
           /\ \A i \in DOMAIN log' : i \in DOMAIN log \/ Queue(log'[i])
           /\ \A t \in Tasks : /\ Of(t) \subseteq Of(t)'
                               /\ \A i \in Of(t)' : i \in Of(t) \/ i > Len(log)
<1>1. log \in Seq(Events) /\ alerts \in Seq(Nat) /\ Len(alerts) = Len(log)
  BY DEF OutboxTypeOK
<1> DEFINE Grown == /\ log' \in Seq(Events) /\ alerts' \in Seq(Nat) /\ Len(alerts') = Len(log')
                    /\ Len(log) <= Len(log')
                    /\ \A i \in 1..Len(log) : log'[i] = log[i] /\ alerts'[i] = alerts[i]
                    /\ \A i \in 1..Len(log') : i \in 1..Len(log) \/ Queue(log'[i])
<1>2. Grown
  <2>1. CASE UNCHANGED <<log, alerts>>
    BY <1>1, <2>1
  <2>2. ASSUME NEW e \in Events, Queue(e)
        PROVE  Grown
    BY <1>1, <2>2 DEF Queue
  <2> QED
    BY <2>1, <2>2 DEF LogStep
<1> QED
  BY <1>1, <1>2 DEF Of

(* The last event of a task, or 0 if it has none.                          *)
LEMMA LastEventOf ==
    ASSUME log \in Seq(Events), NEW t
    PROVE  /\ LastOf(t) \in Of(t) \union {0} /\ LastOf(t) \in 0..Len(log)
           /\ Of(t) \subseteq 1..Len(log) /\ \A i \in Of(t) : i <= LastOf(t)
<1>1. Len(log) \in Nat /\ Of(t) \subseteq 1..Len(log)
  BY DEF Of
<1> QED
  BY <1>1, LastOrZero DEF LastOf

(* As the queue grows, the event that is the last of its task was it       *)
(* before: an event that was not cannot become it.                         *)
LEMMA LastEventStays ==
    ASSUME OutboxTypeOK, LogStep, NEW i \in DOMAIN log, NEW t,
           log[i].task = t, i = LastOf(t)'
    PROVE  t \in Tasks /\ log'[i] = log[i] /\ i = LastOf(t) /\ \A j \in Of(t)' : j <= i
<1>1. /\ log \in Seq(Events) /\ log' \in Seq(Events) /\ log'[i] = log[i]
      /\ Len(log') \in Nat
  <2>1. log \in Seq(Events)
    BY DEF OutboxTypeOK
  <2> QED
    BY <2>1, LogGrows
<1>2. t \in Tasks
  <2>1. log[i] \in Events
    BY <1>1
  <2> QED
    BY <2>1, EventFields
<1>3. i \in Of(t) /\ Of(t) \subseteq Of(t)' /\ i \in 1..Len(log)
  BY <1>1, <1>2, LogGrows DEF Of
<1>4. Of(t)' \subseteq 1..Len(log')
  BY <1>1 DEF Of
<1>5. \A j \in Of(t)' : j <= i
  <2>1. i = Max(Of(t)' \union {0})
    BY DEF LastOf
  <2> QED
    BY <1>1, <1>4, <2>1, LastOrZero
<1>6. LastOf(t) \in Of(t) \union {0} /\ LastOf(t) \in 0..Len(log) /\ i <= LastOf(t)
  BY <1>1, <1>3, LastEventOf
<1>7. i = LastOf(t)
  BY <1>3, <1>5, <1>6
<1> QED
  BY <1>1, <1>2, <1>5, <1>7

(* What was observed stays past, whatever happens to the tasks.            *)
LEMMA PastStays ==
    ASSUME OutboxTypeOK, NEW e \in Events \union Snapshots, Past(e),
           \/ UNCHANGED <<taskStatus, run, beat, stale>>
           \/ \E t \in Tasks : \/ \E to \in TaskStatus : Move(t, to)
                               \/ Heartbeat(t) \/ Misses(t)
    PROVE  Past(e)'
<1>1. e.task \in Tasks /\ e.run \in Nat /\ e.beat \in Nat
  BY DEF Events, Snapshots
<1>2. /\ run \in [Tasks -> Nat] /\ beat \in [Tasks -> 1..Max({1, setting.beats})]
      /\ taskStatus \in [Tasks -> TaskStatus] /\ stale \in [Tasks -> BOOLEAN]
  BY DEF OutboxTypeOK
<1>3. beat[e.task] \in Nat /\ run[e.task] \in Nat
  BY <1>1, <1>2
<1>4. CASE UNCHANGED <<taskStatus, run, beat, stale>>
  BY <1>4 DEF Past
<1>5. ASSUME NEW t \in Tasks, NEW to \in TaskStatus, Move(t, to) PROVE Past(e)'
  BY <1>1, <1>2, <1>3, <1>5 DEF Past, Move
<1>6. ASSUME NEW t \in Tasks, Heartbeat(t) \/ Misses(t) PROVE Past(e)'
  BY <1>1, <1>2, <1>3, <1>6 DEF Past, Heartbeat, Misses
<1> QED
  BY <1>4, <1>5, <1>6

(* No step makes an earlier event call somebody: a transition to a phase   *)
(* that does has an event of its own, a heartbeat ends the stall, and the  *)
(* stall of a run that misses a heartbeat has no event yet.                *)
LEMMA CallsBefore ==
    ASSUME FlushInv, LogStep, NEW i \in DOMAIN log, Calls(i)',
           \/ UNCHANGED <<taskStatus, run, beat, stale>>
           \/ \E t \in Tasks : \/ \E to \in TaskStatus : Move(t, to)
                               \/ Heartbeat(t) \/ Misses(t)
    PROVE  Calls(i)
<1>1. OutboxTypeOK
  BY DEF FlushInv
<1>2. PICK u : u = log[i].task
  OBVIOUS
<1>3. u \in Tasks /\ log'[i] = log[i] /\ i = LastOf(u) /\ \A j \in Of(u)' : j <= i
  <2>1. log'[i] = log[i]
    BY <1>1, LogGrows
  <2>2. i = LastOf(u)'
    BY <1>2, <2>1 DEF Calls
  <2> QED
    BY <1>1, <1>2, <2>2, LastEventStays
<1>4. /\ log[i].phase \in ALERT_PHASES /\ PhaseOf(u)' = log[i].phase
      /\ log[i].kind = "stall" => log[i].run = run'[u] /\ log[i].beat = beat'[u]
  BY <1>2, <1>3 DEF Calls
<1>5. /\ run \in [Tasks -> Nat] /\ beat \in [Tasks -> 1..Max({1, setting.beats})]
      /\ taskStatus \in [Tasks -> TaskStatus] /\ stale \in [Tasks -> BOOLEAN]
  BY <1>1 DEF OutboxTypeOK
<1>6. (log[i].phase = "STALLED" <=> log[i].kind = "stall") /\ (log[i].kind = "stall" => Past(log[i]))
  BY DEF FlushInv, StallsArePast
<1>7. CASE UNCHANGED <<taskStatus, run, beat, stale>>
  BY <1>2, <1>3, <1>4, <1>7 DEF Calls, PhaseOf
<1>8. ASSUME NEW t \in Tasks, NEW to \in TaskStatus, Move(t, to) PROVE Calls(i)
  <2>1. CASE t = u
    <3>1. to \notin Queued
      <4> SUFFICES ASSUME to \in Queued PROVE FALSE
        OBVIOUS
      <4>1. log' = Append(log, [task |-> t, phase |-> to, kind |-> "transition",
                                run |-> 0, beat |-> 0])
        BY <1>8 DEF Move, Queue
      <4>2. Len(log) + 1 \in Of(u)' /\ i \in 1..Len(log) /\ Len(log) \in Nat
        BY <1>1, <2>1, <4>1 DEF Of, OutboxTypeOK
      <4> QED
        BY <1>3, <4>2
    <3>2. taskStatus'[u] \in {"DISCOVERED", "READY"}
      BY <1>5, <1>8, <2>1, <3>1 DEF Move, Queued
    <3> QED
      BY <1>4, <3>2 DEF PhaseOf, ALERT_PHASES
  <2>2. CASE t # u
    <3>1. /\ taskStatus'[u] = taskStatus[u] /\ stale'[u] = stale[u]
          /\ run'[u] = run[u] /\ beat'[u] = beat[u]
      BY <1>3, <1>5, <1>8, <2>2 DEF Move
    <3> QED
      BY <1>2, <1>3, <1>4, <3>1 DEF Calls, PhaseOf
  <2> QED
    BY <2>1, <2>2
<1>9. ASSUME NEW t \in Tasks, Heartbeat(t) \/ Misses(t) PROVE Calls(i)
  <2>1. CASE t = u
    <3>1. taskStatus'[u] = "RUNNING" /\ taskStatus[u] = "RUNNING" /\ run' = run
      BY <1>9, <2>1 DEF Heartbeat, Misses
    <3>2. PhaseOf(u)' = "STALLED" /\ stale'[u]
      BY <1>4, <3>1 DEF PhaseOf, ALERT_PHASES
    <3>3. Misses(u)
      BY <1>3, <1>5, <1>9, <2>1, <3>2 DEF Heartbeat
    <3>4. log[i].run = run[u] /\ log[i].beat = beat[u] /\ Past(log[i]) /\ ~ stale[u]
      BY <1>4, <1>6, <3>1, <3>2, <3>3 DEF Misses
    <3> QED
      BY <1>2, <3>1, <3>4 DEF Past
  <2>2. CASE t # u
    <3>1. /\ taskStatus'[u] = taskStatus[u] /\ stale'[u] = stale[u]
          /\ run'[u] = run[u] /\ beat'[u] = beat[u]
      BY <1>3, <1>5, <1>9, <2>2 DEF Heartbeat, Misses
    <3> QED
      BY <1>2, <1>3, <1>4, <3>1 DEF Calls, PhaseOf
  <2> QED
    BY <2>1, <2>2
<1> QED
  BY <1>7, <1>8, <1>9

(* A step that shows, delivers and takes nothing in hand keeps what is     *)
(* known of all three.                                                     *)
LEMMA Undelivered ==
    ASSUME FlushInv, OutboxTypeOK', LogStep, UNCHANGED <<delivered, card, shown>>,
           setting'.flushers = setting.flushers,
           \A i \in DOMAIN log : Calls(i)' => Calls(i),
           \A f \in Flushers : pc'[f] \in Delivering =>
               pc'[f] = pc[f] /\ snap'[f] = snap[f] /\ pend'[f] = pend[f]
    PROVE  HandsAreTrue' /\ DeliveredWasShown' /\ AlertNotLost' /\ InOrder'
<1>1. OutboxTypeOK /\ log \in Seq(Events) /\ delivered \subseteq DOMAIN log
  BY DEF FlushInv, OutboxTypeOK
<1>2. /\ DOMAIN log = 1..Len(log) /\ Len(log) \in Nat /\ Len(log') \in Nat /\ Len(log) <= Len(log')
      /\ \A i \in DOMAIN log : log'[i] = log[i] /\ alerts'[i] = alerts[i]
      /\ \A t \in Tasks : /\ Of(t) \subseteq Of(t)'
                          /\ \A i \in Of(t)' : i \in Of(t) \/ i > Len(log)
  BY <1>1, LogGrows
<1>3. ASSUME NEW f \in Flushers, pc'[f] \in Delivering PROVE InHand(f)'
  <2>1. PICK s : s = snap[f]
    OBVIOUS
  <2>2. pc'[f] = pc[f] /\ snap'[f] = s /\ pend'[f] = pend[f] /\ InHand(f)
    BY <1>3, <2>1 DEF FlushInv, HandsAreTrue
  <2>3. s.task \in Tasks /\ s.seen \in Nat /\ s.last \in Nat
    BY <1>1, <2>1 DEF OutboxTypeOK, Snapshots
  <2>4. s.seen <= Len(log') /\ pend'[f] \subseteq 1..s.seen /\ s.last \in Of(s.task)' \union {0}
    BY <1>2, <2>2, <2>3, <2>1 DEF InHand
  <2>5. \A i \in Of(s.task)' : i <= s.seen => i <= s.last
    <3> TAKE i \in Of(s.task)'
    <3>1. i \in Nat
      BY <1>1, LogGrows DEF Of
    <3>2. i <= s.seen => i \in Of(s.task)
      BY <1>2, <2>2, <2>3, <3>1, <2>1 DEF InHand
    <3> QED
      BY <2>2, <3>2, <2>1 DEF InHand
  <2>6. s.last # 0 => s.last \in DOMAIN log
    BY <2>2, <2>1 DEF InHand, Of
  <2>7. s.last # 0 /\ Calls(s.last)' => s.phase = log'[s.last].phase
    BY <1>2, <2>2, <2>6, <2>1 DEF InHand
  <2>8. /\ pc[f] # "sync" => s.seen <= shown'[s.task]
        /\ pc[f] = "mark" /\ s.phase \in ALERT_PHASES /\ s.last # 0 => alerts'[s.last] > 0
    BY <1>2, <2>2, <2>6, <2>1 DEF InHand
  <2> QED
    BY <2>2, <2>4, <2>5, <2>7, <2>8, <2>1 DEF InHand
<1>4. DeliveredWasShown'
  BY <1>1, <1>2 DEF FlushInv, DeliveredWasShown
<1>5. AlertNotLost'
  <2>1. \A i \in delivered : Calls(i) => alerts[i] > 0
    BY DEF FlushInv, AlertNotLost, Calls
  <2>2. \A i \in delivered : Calls(i)' => alerts'[i] > 0
    BY <1>1, <1>2, <2>1
  <2> QED
    BY <2>2 DEF AlertNotLost, Calls
<1>6. InOrder'
  BY DEF FlushInv, InOrder, Delivering
<1> QED
  BY <1>3, <1>4, <1>5, <1>6 DEF HandsAreTrue

(* The columns of the store keep their types; m bounds the heartbeats.     *)
TypedStore(m) ==
    /\ taskStatus \in [Tasks -> TaskStatus] /\ touched \in [Tasks -> Nat]
    /\ run \in [Tasks -> Nat] /\ beat \in [Tasks -> 1 .. m] /\ stale \in [Tasks -> BOOLEAN]

LEMMA StoreTyped ==
    ASSUME OutboxTypeOK, NEW m, m = Max({1, setting.beats}),
           NEW t \in Tasks, (\E to \in TaskStatus : Move(t, to)) \/ Heartbeat(t) \/ Misses(t)
    PROVE  TypedStore(m)'
<1>1. /\ taskStatus \in [Tasks -> TaskStatus] /\ touched \in [Tasks -> Nat]
      /\ run \in [Tasks -> Nat] /\ beat \in [Tasks -> 1..m] /\ stale \in [Tasks -> BOOLEAN]
  BY DEF OutboxTypeOK
<1>2. setting.beats \in Nat /\ setting.tasks \in SUBSET Tasks
  BY DEF OutboxTypeOK, Setups
<1>3. m \in Nat /\ 1 <= m /\ setting.beats <= m
  <2>1. {1, setting.beats} \subseteq 0..(1 + setting.beats) /\ 1 + setting.beats \in Nat
    BY <1>2
  <2> QED
    BY <1>2, <2>1, LastPosition
<1>4. Cardinality(setting.tasks) \in Nat
  BY <1>2, OutboxAssumption, FS_Subset, FS_CardinalityType
<1>5. ASSUME NEW to \in TaskStatus, Move(t, to) PROVE TypedStore(m)'
  <2>1. taskStatus' \in [Tasks -> TaskStatus]
    BY <1>1, <1>5 DEF Move
  <2>2. touched' \in [Tasks -> Nat]
    BY <1>1, <1>4, <1>5 DEF Move
  <2>3. CASE to = "RUNNING"
    <3>1. /\ run' = [run EXCEPT ![t] = @ + 1] /\ beat' = [beat EXCEPT ![t] = 1]
          /\ stale' = [stale EXCEPT ![t] = FALSE]
      BY <1>5, <2>3 DEF Move
    <3>2. run' \in [Tasks -> Nat]
      BY <1>1, <3>1
    <3>3. beat' \in [Tasks -> 1..m]
      <4>1. 1 \in 1..m
        BY <1>3
      <4> QED
        BY <1>1, <3>1, <4>1
    <3>4. stale' \in [Tasks -> BOOLEAN]
      BY <1>1, <3>1
    <3> QED
      BY <2>1, <2>2, <3>2, <3>3, <3>4 DEF TypedStore
  <2>4. CASE to # "RUNNING"
    <3>1. run' = run /\ beat' = beat /\ stale' = stale
      BY <1>5, <2>4 DEF Move
    <3> QED
      BY <1>1, <2>1, <2>2, <3>1 DEF TypedStore
  <2> QED
    BY <2>3, <2>4
<1>6. CASE Heartbeat(t)
  <2>1. taskStatus' = taskStatus /\ touched' = touched /\ run' = run
    BY <1>6 DEF Heartbeat
  <2>2. beat' \in [Tasks -> 1..m]
    <3>1. beat' = [beat EXCEPT ![t] = @ + 1] /\ beat[t] \in 1..m /\ beat[t] < setting.beats
      BY <1>1, <1>6 DEF Heartbeat
    <3>2. beat[t] + 1 \in 1..m
      BY <1>2, <1>3, <3>1
    <3> QED
      BY <1>1, <3>1, <3>2
  <2>3. stale' \in [Tasks -> BOOLEAN]
    BY <1>1, <1>6 DEF Heartbeat
  <2> QED
    BY <1>1, <2>1, <2>2, <2>3 DEF TypedStore
<1>7. CASE Misses(t)
  <2>1. taskStatus' = taskStatus /\ touched' = touched /\ run' = run /\ beat' = beat
    BY <1>7 DEF Misses
  <2>2. stale' \in [Tasks -> BOOLEAN]
    BY <1>1, <1>7 DEF Misses
  <2> QED
    BY <1>1, <2>1, <2>2 DEF TypedStore
<1> QED
  BY <1>5, <1>6, <1>7

(* A transition, a heartbeat or a missed one, by the store.                *)
LEMMA TaskStep ==
    ASSUME FlushInv,
           NEW t \in Tasks, (\E to \in TaskStatus : Move(t, to)) \/ Heartbeat(t) \/ Misses(t)
    PROVE  FlushInv'
<1>1. OutboxTypeOK
  BY DEF FlushInv
<1>2. UNCHANGED <<delivered, card, shown, pc, snap, pend, todo>>
  BY DEF Move, Heartbeat, Misses, local, provider, outbox
<1>3. LogStep
  <2>1. ASSUME NEW to \in TaskStatus, Move(t, to) PROVE LogStep
    <3>1. [task |-> t, phase |-> to, kind |-> "transition", run |-> 0, beat |-> 0] \in Events
      BY DEF Events, Phases
    <3> QED
      BY <2>1, <3>1 DEF Move, LogStep
  <2> QED
    BY <2>1 DEF Heartbeat, Misses, outbox, provider, LogStep
<1>4. setting' \in Setups /\ setting'.flushers = setting.flushers /\ setting'.beats = setting.beats
  <2>1. setting \in Setups
    BY <1>1 DEF OutboxTypeOK
  <2>2. ASSUME NEW to \in TaskStatus, Move(t, to)
        PROVE  setting.moves > 0 /\ setting' = [setting EXCEPT !.moves = @ - 1]
    BY <2>2 DEF Move
  <2>3. CASE UNCHANGED setting
    BY <2>1, <2>3
  <2> QED
    BY <2>1, <2>2, <2>3 DEF Setups, Heartbeat, Misses
<1>5. OutboxTypeOK'
  <2>1. PICK m : m = Max({1, setting.beats}) /\ m = Max({1, setting'.beats})
    BY <1>4
  <2>2. /\ log' \in Seq(Events) /\ alerts' \in Seq(Nat) /\ Len(alerts') = Len(log')
        /\ DOMAIN log \subseteq DOMAIN log' /\ 0..Len(log) \subseteq 0..Len(log')
    BY <1>1, <1>3, LogGrows
  <2>3. /\ delivered' \subseteq DOMAIN log' /\ shown' \in [Tasks -> 0..Len(log')]
        /\ pend' \in [Flushers -> SUBSET DOMAIN log']
    <3>1. /\ delivered' \subseteq DOMAIN log /\ shown' \in [Tasks -> 0..Len(log)]
          /\ pend' \in [Flushers -> SUBSET DOMAIN log]
      BY <1>1, <1>2 DEF OutboxTypeOK
    <3> QED
      BY <2>2, <3>1
  <2>4. TypedStore(m)'
    BY <1>1, <2>1, StoreTyped
  <2>5. /\ card' \in [task : Tasks, seen : Nat]
         /\ pc' \in [Flushers -> {"idle", "observe", "pending", "task", "sync",
                            "alert", "mark"}]
         /\ snap' \in [Flushers -> Snapshots] /\ todo' \in [Flushers -> Seq(Tasks)]
         /\ \A f \in Flushers : pc'[f] \in {"sync", "alert", "mark"} =>
                todo'[f] # <<>> /\ snap'[f].task = Head(todo'[f])
    BY <1>1, <1>2 DEF OutboxTypeOK
  <2> QED
    BY <1>4, <2>1, <2>2, <2>3, <2>4, <2>5 DEF OutboxTypeOK, TypedStore
<1>6. \A i \in DOMAIN log : Calls(i)' => Calls(i)
  BY <1>3, CallsBefore
<1>7. HandsAreTrue' /\ DeliveredWasShown' /\ AlertNotLost' /\ InOrder'
  BY <1>2, <1>3, <1>4, <1>5, <1>6, Undelivered
<1>8. OthersRest'
  BY <1>2, <1>4 DEF FlushInv, OthersRest
<1>9. StallsArePast'
  <2>1. \A e \in Events \union Snapshots : Past(e) => Past(e)'
    BY <1>1, PastStays
  <2>2. ASSUME NEW f \in Flushers, pc[f] = "observe"
        PROVE  /\ snap'[f].phase \in {"RUNNING", "STALLED"}
               /\ snap'[f].phase = "STALLED" => Past(snap[f])'
    <3>1. PICK s : s = snap[f]
      OBVIOUS
    <3>2. /\ s \in Snapshots /\ s.phase \in {"RUNNING", "STALLED"}
          /\ s.phase = "STALLED" => Past(s)
      BY <1>1, <2>2, <3>1 DEF OutboxTypeOK, FlushInv, StallsArePast
    <3>3. snap'[f] = s
      BY <1>2, <3>1
    <3> QED
      BY <2>1, <3>2, <3>3
  <2>3. ASSUME NEW i \in DOMAIN log'
        PROVE  /\ log'[i].phase = "STALLED" <=> log'[i].kind = "stall"
               /\ log'[i].kind = "stall" => Past(log[i])'
    <3>1. PICK e : e = log'[i]
      OBVIOUS
    <3>2. CASE i \in DOMAIN log
      <4>1. log[i] = e
        BY <1>1, <1>3, <3>1, <3>2, LogGrows
      <4>2. e \in Events
        <5>1. log \in Seq(Events)
          BY <1>1 DEF OutboxTypeOK
        <5> QED
          BY <3>2, <4>1, <5>1
      <4>3. /\ e.phase = "STALLED" <=> e.kind = "stall"
            /\ e.kind = "stall" => Past(e)
        BY <3>2, <4>1 DEF FlushInv, StallsArePast
      <4> QED
        BY <2>1, <3>1, <4>2, <4>3
    <3>3. CASE i \notin DOMAIN log
      <4>1. PICK to \in Queued : log' = Append(log, [task |-> t, phase |-> to,
                                      kind |-> "transition", run |-> 0, beat |-> 0])
        BY <3>3 DEF Move, Heartbeat, Misses, outbox, Queue
      <4>2. e = [task |-> t, phase |-> to, kind |-> "transition", run |-> 0, beat |-> 0]
        <5>1. log \in Seq(Events)
          BY <1>1 DEF OutboxTypeOK
        <5>2. i = Len(log) + 1
          BY <3>3, <4>1, <5>1
        <5> QED
          BY <3>1, <4>1, <5>1, <5>2
      <4>3. to # "STALLED"
        BY DEF Queued, TaskStatus
      <4> QED
        BY <3>1, <4>2, <4>3
    <3> QED
      BY <3>2, <3>3
  <2>4. UNCHANGED pc
    BY <1>2
  <2> QED
    BY <2>2, <2>3, <2>4 DEF StallsArePast
<1> QED
  BY <1>5, <1>7, <1>8, <1>9 DEF FlushInv

(* What for_task() returns is a snapshot, and so is none.                  *)
LEMMA SnapshotTyped ==
    ASSUME OutboxTypeOK
    PROVE  /\ NoSnapshot \in Snapshots
           /\ \A t \in Tasks : /\ ForTask(t) \in Snapshots /\ ForTask(t).task = t
                               /\ ForTask(t).seen = Len(log) /\ ForTask(t).last = LastOf(t)
                               /\ ForTask(t).phase = PhaseOf(t) /\ ForTask(t).run = run[t]
                               /\ ForTask(t).beat = beat[t]
<1>1. NoSnapshot \in Snapshots
  <2>1. (CHOOSE t \in Tasks : TRUE) \in Tasks /\ "READY" \in Phases
    BY OutboxAssumption DEF Phases, TaskStatus
  <2> QED
    BY <2>1 DEF NoSnapshot, Snapshots
<1>2. ASSUME NEW t \in Tasks PROVE ForTask(t) \in Snapshots
  <2>1. /\ run \in [Tasks -> Nat] /\ beat \in [Tasks -> 1..Max({1, setting.beats})]
        /\ taskStatus \in [Tasks -> TaskStatus] /\ log \in Seq(Events)
    BY DEF OutboxTypeOK
  <2>2. run[t] \in Nat /\ beat[t] \in Nat /\ Len(log) \in Nat
    BY <2>1
  <2>3. LastOf(t) \in Nat
    <3>1. LastOf(t) \in 0..Len(log)
      BY <2>1, LastEventOf
    <3> QED
      BY <2>2, <3>1
  <2>4. PhaseOf(t) \in Phases
    BY <2>1 DEF PhaseOf, Phases
  <2> QED
    BY <2>2, <2>3, <2>4 DEF ForTask, Snapshots
<1> QED
  BY <1>1, <1>2 DEF ForTask

(* The locals of a flusher after its step.                                 *)
Goes(f, p, s, P, q) ==
    /\ pc' = [pc EXCEPT ![f] = p] /\ snap' = [snap EXCEPT ![f] = s]
    /\ pend' = [pend EXCEPT ![f] = P] /\ todo' = [todo EXCEPT ![f] = q]

(* A step of one flusher keeps the types when what it writes has them.     *)
LEMMA FlusherTyped ==
    ASSUME OutboxTypeOK, UNCHANGED store,
           setting' \in Setups, setting'.beats = setting.beats,
           log' \in Seq(Events), Len(log) <= Len(log'),
           alerts' \in Seq(Nat), Len(alerts') = Len(log'),
           delivered' \subseteq DOMAIN log,
           card' \in [task : Tasks, seen : Nat], shown' \in [Tasks -> 0 .. Len(log)],
           NEW f \in Flushers,
           NEW p \in {"idle", "observe", "pending", "task", "sync", "alert", "mark"},
           NEW s \in Snapshots, NEW P, P \subseteq DOMAIN log, NEW q \in Seq(Tasks),
           p \in Delivering => q # <<>> /\ s.task = Head(q),
           Goes(f, p, s, P, q)
    PROVE  OutboxTypeOK'
<1>1. /\ pc \in [Flushers -> {"idle", "observe", "pending", "task", "sync", "alert", "mark"}]
      /\ snap \in [Flushers -> Snapshots] /\ pend \in [Flushers -> SUBSET DOMAIN log]
      /\ todo \in [Flushers -> Seq(Tasks)] /\ log \in Seq(Events)
      /\ \A g \in Flushers : pc[g] \in Delivering => todo[g] # <<>> /\ snap[g].task = Head(todo[g])
  BY DEF OutboxTypeOK, Delivering
<1>2. DOMAIN log \subseteq DOMAIN log' /\ 0 .. Len(log) \subseteq 0 .. Len(log')
  BY <1>1
<1>3. /\ delivered' \subseteq DOMAIN log' /\ shown' \in [Tasks -> 0 .. Len(log')]
      /\ P \in SUBSET DOMAIN log'
  BY <1>2
<1>4. pend' \in [Flushers -> SUBSET DOMAIN log']
  BY <1>1, <1>2, <1>3 DEF Goes
<1>5. /\ pc' \in [Flushers -> {"idle", "observe", "pending", "task", "sync", "alert", "mark"}]
      /\ snap' \in [Flushers -> Snapshots] /\ todo' \in [Flushers -> Seq(Tasks)]
  <2>1. pc' \in [Flushers -> {"idle", "observe", "pending", "task", "sync", "alert", "mark"}]
    BY <1>1 DEF Goes
  <2>2. snap' \in [Flushers -> Snapshots]
    BY <1>1 DEF Goes
  <2>3. todo' \in [Flushers -> Seq(Tasks)]
    BY <1>1 DEF Goes
  <2> QED
    BY <2>1, <2>2, <2>3
<1>6. \A g \in Flushers : pc'[g] \in Delivering => todo'[g] # <<>> /\ snap'[g].task = Head(todo'[g])
  BY <1>1 DEF Goes
<1>7. /\ taskStatus' \in [Tasks -> TaskStatus] /\ touched' \in [Tasks -> Nat]
      /\ run' \in [Tasks -> Nat] /\ beat' \in [Tasks -> 1 .. Max({1, setting'.beats})]
      /\ stale' \in [Tasks -> BOOLEAN]
  <2>1. taskStatus' = taskStatus /\ touched' = touched /\ run' = run /\ beat' = beat /\ stale' = stale
    BY DEF store
  <2> QED
    BY <2>1 DEF OutboxTypeOK
<1> QED
  BY <1>3, <1>4, <1>5, <1>6, <1>7 DEF OutboxTypeOK, Delivering

(* What is known of stalls is kept by a step that observes none.           *)
LEMMA StallsKept ==
    ASSUME FlushInv, UNCHANGED <<store, log>>,
           \A f \in Flushers : pc'[f] = "observe" => pc[f] = "observe" /\ snap'[f] = snap[f]
    PROVE  StallsArePast'
<1>1. UNCHANGED <<taskStatus, run, beat, stale, log>>
  BY DEF store
<1>2. ASSUME NEW f \in Flushers, pc'[f] = "observe"
      PROVE  /\ snap'[f].phase \in {"RUNNING", "STALLED"}
             /\ snap'[f].phase = "STALLED" => Past(snap[f])'
  BY <1>1, <1>2 DEF FlushInv, StallsArePast, Past
<1>3. ASSUME NEW i \in DOMAIN log
      PROVE  /\ log'[i].phase = "STALLED" <=> log'[i].kind = "stall"
             /\ log'[i].kind = "stall" => Past(log[i])'
  BY <1>1 DEF FlushInv, StallsArePast, Past
<1> QED
  BY <1>1, <1>2, <1>3 DEF StallsArePast

(* A step that leaves the store and the queue alone calls nobody new.      *)
LEMMA CallsKept ==
    ASSUME UNCHANGED <<store, log>>, NEW i
    PROVE  Calls(i)' <=> Calls(i)
BY DEF store, Calls, PhaseOf, LastOf, Of

(* A flusher that is not among those of the setting stays idle.            *)
LEMMA OthersKept ==
    ASSUME FlushInv, setting'.flushers = setting.flushers, NEW f \in Flushers, NEW p,
           pc' = [pc EXCEPT ![f] = p], f \in setting.flushers \/ pc[f] # "idle" \/ p = "idle"
    PROVE  OthersRest'
<1>1. pc \in [Flushers -> {"idle", "observe", "pending", "task", "sync", "alert", "mark"}]
  BY DEF FlushInv, OutboxTypeOK
<1> QED
  BY <1>1 DEF FlushInv, OthersRest

(* A flusher takes the snapshot of what runs: current().                   *)
LEMMA PulseStep ==
    ASSUME FlushInv, NEW f \in Flushers, Pulse(f)
    PROVE  FlushInv'
<1>1. OutboxTypeOK
  BY DEF FlushInv
<1>2. PICK p \in {"observe", "pending"}, s \in Snapshots :
          /\ pc[f] = "idle" /\ pc' = [pc EXCEPT ![f] = p] /\ snap' = [snap EXCEPT ![f] = s]
          /\ p = "observe" => \E t \in Tasks : s = ForTask(t) /\ taskStatus[t] = "RUNNING"
  <2>1. CASE Current = {}
    <3>1. snap[f] \in Snapshots /\ snap = [snap EXCEPT ![f] = snap[f]]
      BY <1>1 DEF OutboxTypeOK
    <3> QED
      BY <2>1, <3>1 DEF Pulse, At
  <2>2. ASSUME NEW t \in Current, snap' = [snap EXCEPT ![f] = ForTask(t)], At(f, "idle", "observe")
        PROVE  \E s \in Snapshots :
                  /\ pc[f] = "idle" /\ pc' = [pc EXCEPT ![f] = "observe"]
                  /\ snap' = [snap EXCEPT ![f] = s]
                  /\ \E u \in Tasks : s = ForTask(u) /\ taskStatus[u] = "RUNNING"
    <3>1. t \in Tasks /\ taskStatus[t] = "RUNNING"
      BY DEF Current
    <3> QED
      BY <1>1, <2>2, <3>1, SnapshotTyped DEF At
  <2> QED
    BY <2>1, <2>2 DEF Pulse
<1>3. /\ UNCHANGED store /\ UNCHANGED <<log, alerts, delivered, card, shown, pend, todo, setting>>
      /\ f \in setting.flushers
  BY DEF Pulse, outbox, provider
<1>4. OutboxTypeOK'
  <2>1. /\ setting \in Setups /\ log \in Seq(Events) /\ alerts \in Seq(Nat)
        /\ Len(alerts) = Len(log) /\ delivered \subseteq DOMAIN log
        /\ card \in [task : Tasks, seen : Nat] /\ shown \in [Tasks -> 0 .. Len(log)]
        /\ pend[f] \subseteq DOMAIN log /\ todo[f] \in Seq(Tasks)
        /\ pend = [pend EXCEPT ![f] = pend[f]] /\ todo = [todo EXCEPT ![f] = todo[f]]
    BY <1>1 DEF OutboxTypeOK
  <2>2. p \notin Delivering /\ p \in {"idle", "observe", "pending", "task", "sync", "alert", "mark"}
    BY <1>2 DEF Delivering
  <2>3. PICK P : P = pend[f]
    OBVIOUS
  <2>4. PICK q : q = todo[f]
    OBVIOUS
  <2>5. P \subseteq DOMAIN log /\ q \in Seq(Tasks) /\ Goes(f, p, s, P, q)
    BY <1>2, <1>3, <2>1, <2>3, <2>4 DEF Goes
  <2>6. /\ setting' \in Setups /\ setting'.beats = setting.beats
        /\ log' \in Seq(Events) /\ Len(log) <= Len(log')
        /\ alerts' \in Seq(Nat) /\ Len(alerts') = Len(log')
        /\ delivered' \subseteq DOMAIN log
        /\ card' \in [task : Tasks, seen : Nat] /\ shown' \in [Tasks -> 0 .. Len(log)]
    BY <1>3, <2>1
  <2> QED
    BY <1>1, <1>3, <2>2, <2>5, <2>6, FlusherTyped
<1>5. OthersRest'
  BY <1>2, <1>3, OthersKept
<1>6. pc \in [Flushers -> {"idle", "observe", "pending", "task", "sync", "alert", "mark"}] /\ snap \in [Flushers -> Snapshots]
  BY <1>1 DEF OutboxTypeOK
<1>7. HandsAreTrue' /\ DeliveredWasShown' /\ AlertNotLost' /\ InOrder'
  <2>1. \A i \in DOMAIN log : Calls(i)' => Calls(i)
    BY <1>3, CallsKept
  <2>2. \A g \in Flushers : pc'[g] \in Delivering =>
               pc'[g] = pc[g] /\ snap'[g] = snap[g] /\ pend'[g] = pend[g]
    BY <1>2, <1>3, <1>6 DEF Delivering
  <2> QED
    BY <1>3, <1>4, <2>1, <2>2, Undelivered DEF LogStep
<1>8. StallsArePast'
  <2>1. UNCHANGED <<taskStatus, run, beat, stale, log>>
    BY <1>3 DEF store
  <2>2. ASSUME p = "observe"
        PROVE  s.phase \in {"RUNNING", "STALLED"} /\ (s.phase = "STALLED" => Past(s))
    <3>1. PICK t \in Tasks : s = ForTask(t) /\ taskStatus[t] = "RUNNING"
      BY <1>2, <2>2
    <3>2. s.task = t /\ s.run = run[t] /\ s.beat = beat[t] /\ s.phase = PhaseOf(t)
      BY <1>1, <3>1, SnapshotTyped
    <3>3. run[t] \in Nat /\ beat[t] \in Nat
      BY <1>1 DEF OutboxTypeOK
    <3> QED
      BY <3>1, <3>2, <3>3 DEF PhaseOf, Past, TaskStatus
  <2>3. ASSUME NEW g \in Flushers, pc'[g] = "observe"
        PROVE  /\ snap'[g].phase \in {"RUNNING", "STALLED"}
               /\ snap'[g].phase = "STALLED" => Past(snap[g])'
    <3>1. CASE g = f
      <4>1. p = "observe" /\ snap'[g] = s
        BY <1>2, <1>6, <2>3, <3>1
      <4>2. Past(s) => Past(s)'
        BY <2>1 DEF Past
      <4> QED
        BY <2>2, <4>1, <4>2
    <3>2. CASE g # f
      <4>1. PICK r : r = snap[g]
        OBVIOUS
      <4>2. snap'[g] = r /\ pc[g] = "observe"
        BY <1>2, <1>6, <2>3, <3>2, <4>1
      <4>3. r.phase \in {"RUNNING", "STALLED"} /\ (r.phase = "STALLED" => Past(r))
        BY <4>1, <4>2 DEF FlushInv, StallsArePast
      <4>4. Past(r) => Past(r)'
        BY <2>1 DEF Past
      <4> QED
        BY <4>2, <4>3, <4>4
    <3> QED
      BY <3>1, <3>2
  <2>4. ASSUME NEW i \in DOMAIN log
        PROVE  /\ log'[i].phase = "STALLED" <=> log'[i].kind = "stall"
               /\ log'[i].kind = "stall" => Past(log[i])'
    BY <2>1 DEF FlushInv, StallsArePast, Past
  <2> QED
    BY <2>1, <2>3, <2>4 DEF StallsArePast
<1> QED
  BY <1>4, <1>5, <1>7, <1>8 DEF FlushInv

(* A stall or a recovery is queued, if its event is not in the queue yet.  *)
LEMMA ObserveStep ==
    ASSUME FlushInv, NEW f \in Flushers, Observe(f)
    PROVE  FlushInv'
<1>1. OutboxTypeOK
  BY DEF FlushInv
<1>2. PICK r : r = snap[f]
  OBVIOUS
<1>3. r \in Snapshots /\ r.phase \in {"RUNNING", "STALLED"} /\ (r.phase = "STALLED" => Past(r))
  BY <1>1, <1>2 DEF OutboxTypeOK, FlushInv, StallsArePast, Observe, At
<1>4. PICK e : e = [task |-> r.task, phase |-> r.phase,
                    kind |-> IF r.phase = "STALLED" THEN "stall" ELSE "recovered",
                    run |-> r.run, beat |-> r.beat]
  OBVIOUS
<1>5. e \in Events /\ (e.phase = "STALLED" <=> e.kind = "stall") /\ (e.kind = "stall" => Past(e))
  <2>1. r.task \in Tasks /\ r.phase \in Phases /\ r.run \in Nat /\ r.beat \in Nat
    BY <1>3 DEF Snapshots
  <2>2. e \in Events
    BY <1>4, <2>1 DEF Events
  <2>3. e.task = r.task /\ e.run = r.run /\ e.beat = r.beat
    BY <1>4
  <2> QED
    BY <1>3, <1>4, <2>2, <2>3 DEF Past
<1>6. UNCHANGED <<log, alerts>> \/ Queue(e)
  <2>1. \A x \in Observed(r) : x = e
    BY <1>4 DEF Observed
  <2> QED
    BY <1>2, <2>1 DEF Observe
<1>7. LogStep
  BY <1>5, <1>6 DEF LogStep
<1>8. /\ UNCHANGED store /\ UNCHANGED <<delivered, card, shown, pend, todo, setting>>
      /\ pc[f] = "observe" /\ pc' = [pc EXCEPT ![f] = "pending"]
      /\ snap' = [snap EXCEPT ![f] = NoSnapshot]
  BY DEF Observe, At
<1>9. UNCHANGED <<taskStatus, run, beat, stale>>
  BY <1>8 DEF store
<1>10. OutboxTypeOK'
  <2>1. PICK P : P = pend[f]
    OBVIOUS
  <2>2. PICK q : q = todo[f]
    OBVIOUS
  <2>3. /\ P \subseteq DOMAIN log /\ q \in Seq(Tasks)
        /\ pend = [pend EXCEPT ![f] = P] /\ todo = [todo EXCEPT ![f] = q]
    BY <1>1, <2>1, <2>2 DEF OutboxTypeOK
  <2>4. Goes(f, "pending", NoSnapshot, P, q) /\ "pending" \notin Delivering
    BY <1>8, <2>3 DEF Goes, Delivering
  <2>5. /\ setting' \in Setups /\ setting'.beats = setting.beats
        /\ delivered' \subseteq DOMAIN log
        /\ card' \in [task : Tasks, seen : Nat] /\ shown' \in [Tasks -> 0 .. Len(log)]
    BY <1>1, <1>8 DEF OutboxTypeOK
  <2>6. /\ log' \in Seq(Events) /\ Len(log) <= Len(log')
        /\ alerts' \in Seq(Nat) /\ Len(alerts') = Len(log') /\ NoSnapshot \in Snapshots
    BY <1>1, <1>7, LogGrows, SnapshotTyped
  <2> QED
    BY <1>1, <1>8, <2>3, <2>4, <2>5, <2>6, FlusherTyped
<1>11. OthersRest'
  BY <1>8, OthersKept
<1>12. pc \in [Flushers -> {"idle", "observe", "pending", "task", "sync", "alert", "mark"}] /\ snap \in [Flushers -> Snapshots]
  BY <1>1 DEF OutboxTypeOK
<1>13. HandsAreTrue' /\ DeliveredWasShown' /\ AlertNotLost' /\ InOrder'
  <2>1. \A i \in DOMAIN log : Calls(i)' => Calls(i)
    BY <1>7, <1>9, CallsBefore
  <2>2. \A g \in Flushers : pc'[g] \in Delivering =>
               pc'[g] = pc[g] /\ snap'[g] = snap[g] /\ pend'[g] = pend[g]
    BY <1>8, <1>12 DEF Delivering
  <2> QED
    BY <1>7, <1>8, <1>10, <2>1, <2>2, Undelivered
<1>14. StallsArePast'
  <2>1. ASSUME NEW g \in Flushers, pc'[g] = "observe"
        PROVE  /\ snap'[g].phase \in {"RUNNING", "STALLED"}
               /\ snap'[g].phase = "STALLED" => Past(snap[g])'
    <3>1. PICK s : s = snap[g]
      OBVIOUS
    <3>2. snap'[g] = s /\ pc[g] = "observe"
      BY <1>8, <1>12, <2>1, <3>1
    <3>3. s.phase \in {"RUNNING", "STALLED"} /\ (s.phase = "STALLED" => Past(s))
      BY <3>1, <3>2 DEF FlushInv, StallsArePast
    <3>4. Past(s) => Past(s)'
      BY <1>9 DEF Past
    <3> QED
      BY <3>2, <3>3, <3>4
  <2>2. ASSUME NEW i \in DOMAIN log'
        PROVE  /\ log'[i].phase = "STALLED" <=> log'[i].kind = "stall"
               /\ log'[i].kind = "stall" => Past(log[i])'
    <3>1. PICK x : x = log'[i]
      OBVIOUS
    <3>2. Past(x) => Past(x)'
      BY <1>9 DEF Past
    <3>3. CASE i \in DOMAIN log
      <4>1. log[i] = x
        BY <1>1, <1>7, <3>1, <3>3, LogGrows
      <4>2. /\ x.phase = "STALLED" <=> x.kind = "stall"
            /\ x.kind = "stall" => Past(x)
        BY <3>3, <4>1 DEF FlushInv, StallsArePast
      <4> QED
        BY <3>1, <3>2, <4>2
    <3>4. CASE i \notin DOMAIN log
      <4>1. log \in Seq(Events) /\ log' = Append(log, e)
        BY <1>1, <1>6, <3>4 DEF OutboxTypeOK, Queue
      <4>2. x = e
        <5>1. i = Len(log) + 1
          BY <3>4, <4>1
        <5> QED
          BY <3>1, <4>1, <5>1
      <4> QED
        BY <1>5, <3>1, <3>2, <4>2
    <3> QED
      BY <3>3, <3>4
  <2> QED
    BY <2>1, <2>2 DEF StallsArePast
<1> QED
  BY <1>10, <1>11, <1>13, <1>14 DEF FlushInv

(* A flusher that sends nothing and has nothing in hand after its step     *)
(* disturbs nobody.                                                        *)
LEMMA HandsEmpty ==
    ASSUME FlushInv, OutboxTypeOK', UNCHANGED <<store, log, alerts, delivered, card, shown>>,
           setting'.flushers = setting.flushers, NEW f \in Flushers,
           NEW p \in {"idle", "task"}, NEW s, NEW P, NEW q, Goes(f, p, s, P, q),
           pc[f] # "idle"
    PROVE  FlushInv'
<1>1. /\ pc \in [Flushers -> {"idle", "observe", "pending", "task", "sync", "alert", "mark"}]
      /\ snap \in [Flushers -> Snapshots] /\ pend \in [Flushers -> SUBSET DOMAIN log]
  BY DEF FlushInv, OutboxTypeOK
<1>2. OthersRest'
  BY OthersKept DEF Goes
<1>3. StallsArePast'
  <2>1. \A g \in Flushers : pc'[g] = "observe" => pc[g] = "observe" /\ snap'[g] = snap[g]
    BY <1>1 DEF Goes
  <2> QED
    BY <2>1, StallsKept
<1>4. HandsAreTrue' /\ DeliveredWasShown' /\ AlertNotLost' /\ InOrder'
  <2>1. \A i \in DOMAIN log : Calls(i)' => Calls(i)
    BY CallsKept
  <2>2. \A g \in Flushers : pc'[g] \in Delivering =>
               pc'[g] = pc[g] /\ snap'[g] = snap[g] /\ pend'[g] = pend[g]
    BY <1>1 DEF Goes, Delivering
  <2> QED
    BY <2>1, <2>2, Undelivered DEF LogStep
<1> QED
  BY <1>2, <1>3, <1>4 DEF FlushInv

(* The oldest rows that are not delivered, and their tasks.                *)
LEMMA ReadPendingStep ==
    ASSUME FlushInv, NEW f \in Flushers, ReadPending(f)
    PROVE  FlushInv'
<1>1. OutboxTypeOK
  BY DEF FlushInv
<1>2. PICK P : P = Oldest(setting.limit)
  OBVIOUS
<1>3. PICK q : q = TasksOf(P)
  OBVIOUS
<1>4. PICK s : s = snap[f]
  OBVIOUS
<1>5. /\ UNCHANGED store /\ UNCHANGED <<log, alerts, delivered, card, shown, setting>>
      /\ pc[f] # "idle" /\ Goes(f, "task", s, P, q)
  <2>1. snap = [snap EXCEPT ![f] = s]
    BY <1>1, <1>4 DEF OutboxTypeOK
  <2> QED
    BY <1>2, <1>3, <2>1 DEF ReadPending, At, outbox, provider, Goes
<1>6. OutboxTypeOK'
  <2>1. P \subseteq DOMAIN log /\ log \in Seq(Events) /\ s \in Snapshots
    BY <1>1, <1>2, <1>4 DEF Oldest, Pending, OutboxTypeOK
  <2>2. q \in Seq(Tasks) /\ "task" \notin Delivering
    BY <1>3, <2>1, TasksInOrder DEF Delivering
  <2>3. /\ setting' \in Setups /\ setting'.beats = setting.beats
        /\ log' \in Seq(Events) /\ Len(log) <= Len(log')
        /\ alerts' \in Seq(Nat) /\ Len(alerts') = Len(log')
        /\ delivered' \subseteq DOMAIN log
        /\ card' \in [task : Tasks, seen : Nat] /\ shown' \in [Tasks -> 0 .. Len(log)]
    BY <1>1, <1>5 DEF OutboxTypeOK
  <2> QED
    BY <1>1, <1>5, <2>1, <2>2, <2>3, FlusherTyped
<1> QED
  BY <1>5, <1>6, HandsEmpty

(* A bound is spent: what a setting may still hold.                        *)
LEMMA FaultSpent ==
    ASSUME OutboxTypeOK, Fault \/ UNCHANGED setting
    PROVE  setting' \in Setups /\ setting'.flushers = setting.flushers /\ setting'.beats = setting.beats
<1>1. setting \in Setups
  BY DEF OutboxTypeOK
<1>2. CASE Fault
  BY <1>1, <1>2 DEF Setups, Fault
<1> QED
  BY <1>1, <1>2

(* A flush that ends, or a process that dies, wherever it is.              *)
LEMMA LeavesStep ==
    ASSUME FlushInv, NEW f \in Flushers, FlushEnds(f) \/ Crash(f)
    PROVE  FlushInv'
<1>1. OutboxTypeOK
  BY DEF FlushInv
<1>2. /\ UNCHANGED store /\ UNCHANGED <<log, alerts, delivered, card, shown>>
      /\ pc[f] # "idle" /\ Goes(f, "idle", NoSnapshot, {}, <<>>)
  BY DEF FlushEnds, Crash, Leaves, outbox, provider, Goes
<1>3. setting' \in Setups /\ setting'.flushers = setting.flushers /\ setting'.beats = setting.beats
  BY <1>1, FaultSpent DEF FlushEnds, Crash
<1>4. OutboxTypeOK'
  <2>1. NoSnapshot \in Snapshots /\ {} \subseteq DOMAIN log /\ <<>> \in Seq(Tasks) /\ "idle" \notin Delivering
    BY <1>1, SnapshotTyped DEF Delivering
  <2>2. /\ log' \in Seq(Events) /\ Len(log) <= Len(log')
        /\ alerts' \in Seq(Nat) /\ Len(alerts') = Len(log')
        /\ delivered' \subseteq DOMAIN log
        /\ card' \in [task : Tasks, seen : Nat] /\ shown' \in [Tasks -> 0 .. Len(log)]
    BY <1>1, <1>2 DEF OutboxTypeOK
  <2> QED
    BY <1>1, <1>2, <1>3, <2>1, <2>2, FlusherTyped
<1> QED
  BY <1>2, <1>3, <1>4, HandsEmpty

(* The later of two positions: what Max({@, s.seen}) keeps of both.        *)
LEMMA LaterOf ==
    ASSUME NEW a \in Nat, NEW b \in Nat
    PROVE  Max({a, b}) \in {a, b} /\ a <= Max({a, b}) /\ b <= Max({a, b})
<1>1. {a, b} \subseteq 0..(a + b) /\ a + b \in Nat
  OBVIOUS
<1> QED
  BY <1>1, LastPosition

(* Nothing that was sent is taken back.                                    *)
Grows == /\ \A i \in DOMAIN log : alerts'[i] >= alerts[i]
         /\ \A t \in Tasks : shown'[t] >= shown[t]

(* ... so a snapshot in hand stays as true as it was,                      *)
LEMMA InHandStays ==
    ASSUME FlushInv, OutboxTypeOK', UNCHANGED <<store, log>>, Grows,
           NEW g \in Flushers, pc[g] \in Delivering,
           pc'[g] = pc[g], snap'[g] = snap[g], pend'[g] = pend[g]
    PROVE  InHand(g)'
<1>1. PICK s : s = snap[g]
  OBVIOUS
<1>2. /\ log \in Seq(Events) /\ alerts \in Seq(Nat) /\ Len(alerts) = Len(log)
      /\ shown \in [Tasks -> 0 .. Len(log)] /\ s \in Snapshots
  BY <1>1 DEF FlushInv, OutboxTypeOK
<1>3. /\ alerts' \in Seq(Nat) /\ Len(alerts') = Len(log) /\ shown' \in [Tasks -> 0 .. Len(log)]
  BY DEF OutboxTypeOK
<1>4. InHand(g) /\ snap'[g] = s
  BY <1>1 DEF FlushInv, HandsAreTrue
<1>5. s.task \in Tasks /\ s.seen \in Nat /\ s.last \in Nat
  BY <1>2 DEF Snapshots
<1>6. \A t : Of(t)' = Of(t)
  BY DEF Of
<1>7. Calls(s.last)' <=> Calls(s.last)
  BY CallsKept
<1>8. pc'[g] # "sync" => s.seen <= shown'[s.task]
  <2>1. pc'[g] # "sync" => s.seen <= shown[s.task]
    BY <1>1, <1>4 DEF InHand
  <2>2. shown'[s.task] >= shown[s.task] /\ shown[s.task] \in Nat /\ shown'[s.task] \in Nat
    BY <1>2, <1>3, <1>5 DEF Grows
  <2> QED
    BY <1>5, <2>1, <2>2
<1>9. pc'[g] = "mark" /\ s.phase \in ALERT_PHASES /\ s.last # 0 => alerts'[s.last] > 0
  <2> SUFFICES ASSUME pc'[g] = "mark", s.phase \in ALERT_PHASES, s.last # 0
               PROVE  alerts'[s.last] > 0
    OBVIOUS
  <2>1. alerts[s.last] > 0 /\ s.last \in DOMAIN log
    BY <1>1, <1>4 DEF InHand, Of
  <2>2. alerts[s.last] \in Nat /\ alerts'[s.last] \in Nat
    BY <1>2, <1>3, <2>1
  <2>3. alerts'[s.last] >= alerts[s.last]
    BY <2>1 DEF Grows
  <2> QED
    BY <2>1, <2>2, <2>3
<1>10. /\ s.seen <= Len(log') /\ pend'[g] \subseteq 1 .. s.seen
       /\ s.last \in Of(s.task)' \union {0}
       /\ \A i \in Of(s.task)' : i <= s.seen => i <= s.last
       /\ s.last # 0 /\ Calls(s.last)' => s.phase = log'[s.last].phase
  BY <1>1, <1>4, <1>6, <1>7 DEF InHand
<1> QED
  BY <1>4, <1>8, <1>9, <1>10 DEF InHand

(* ... and what is acknowledged was shown, and alerted if it called.       *)
LEMMA DeliveryStep ==
    ASSUME FlushInv, OutboxTypeOK', UNCHANGED <<store, log>>, Grows,
           setting'.flushers = setting.flushers,
           \A i \in delivered' : i \notin delivered =>
               i <= shown[log[i].task] /\ (Calls(i) => alerts[i] > 0),
           NEW f \in Flushers, NEW p, NEW s, NEW P, NEW q, Goes(f, p, s, P, q),
           pc[f] # "idle", p # "observe", p \in Delivering => InHand(f)', InOrder'
    PROVE  FlushInv'
<1>1. /\ pc \in [Flushers -> {"idle", "observe", "pending", "task", "sync", "alert", "mark"}]
      /\ snap \in [Flushers -> Snapshots] /\ pend \in [Flushers -> SUBSET DOMAIN log]
      /\ log \in Seq(Events) /\ alerts \in Seq(Nat) /\ Len(alerts) = Len(log)
      /\ shown \in [Tasks -> 0 .. Len(log)] /\ delivered \subseteq DOMAIN log
  BY DEF FlushInv, OutboxTypeOK
<1>2. /\ alerts' \in Seq(Nat) /\ Len(alerts') = Len(log) /\ shown' \in [Tasks -> 0 .. Len(log)]
      /\ delivered' \subseteq DOMAIN log
  BY DEF OutboxTypeOK
<1>3. OthersRest'
  BY OthersKept DEF Goes
<1>4. StallsArePast'
  <2>1. \A g \in Flushers : pc'[g] = "observe" => pc[g] = "observe" /\ snap'[g] = snap[g]
    BY <1>1 DEF Goes
  <2> QED
    BY <2>1, StallsKept
<1>5. HandsAreTrue'
  <2> SUFFICES ASSUME NEW g \in Flushers, pc'[g] \in Delivering PROVE InHand(g)'
    BY DEF HandsAreTrue
  <2>1. CASE g = f
    BY <1>1, <2>1 DEF Goes
  <2>2. CASE g # f
    <3>1. pc'[g] = pc[g] /\ snap'[g] = snap[g] /\ pend'[g] = pend[g]
      BY <1>1, <2>2 DEF Goes
    <3> QED
      BY <3>1, InHandStays
  <2> QED
    BY <2>1, <2>2
<1>6. \A i \in delivered' : i <= shown[log[i].task] /\ (Calls(i) => alerts[i] > 0)
  BY DEF FlushInv, DeliveredWasShown, AlertNotLost, Calls
<1>7. DeliveredWasShown'
  <2> SUFFICES ASSUME NEW i \in delivered' PROVE shown'[log'[i].task] >= i
    BY DEF DeliveredWasShown
  <2>1. i \in DOMAIN log /\ i \in Nat /\ log[i] \in Events /\ log'[i] = log[i]
    BY <1>1, <1>2
  <2>2. log[i].task \in Tasks
    BY <2>1, EventFields
  <2>3. /\ shown'[log[i].task] >= shown[log[i].task]
        /\ shown[log[i].task] \in Nat /\ shown'[log[i].task] \in Nat
    BY <1>1, <1>2, <2>2 DEF Grows
  <2> QED
    BY <1>6, <2>1, <2>3
<1>8. AlertNotLost'
  <2>1. ASSUME NEW i \in delivered', Calls(i)' PROVE alerts'[i] > 0
    <3>1. Calls(i) /\ i \in DOMAIN log
      BY <1>2, <2>1, CallsKept
    <3>2. alerts'[i] >= alerts[i] /\ alerts[i] \in Nat /\ alerts'[i] \in Nat
      BY <1>1, <1>2, <3>1 DEF Grows
    <3> QED
      BY <1>6, <3>1, <3>2
  <2> QED
    BY <2>1 DEF AlertNotLost, Calls
<1> QED
  BY <1>3, <1>4, <1>5, <1>7, <1>8 DEF FlushInv

(* A step that shows nothing keeps the order.                              *)
LEMMA OrderKept ==
    ASSUME FlushInv, UNCHANGED <<card, shown>>, setting'.flushers = setting.flushers,
           \A g \in Flushers : pc'[g] = "sync" => pc[g] = "sync" /\ snap'[g] = snap[g]
    PROVE  InOrder'
BY DEF FlushInv, InOrder

(* One flusher shows what it read last.                                    *)
LEMMA OrderSent ==
    ASSUME FlushInv, setting'.flushers = setting.flushers,
           NEW f \in Flushers, pc[f] = "sync", Shows(snap[f]),
           pc'[f] # "sync", \A g \in Flushers : pc'[g] = "sync" => pc[g] = "sync"
    PROVE  InOrder'
<1> SUFFICES ASSUME Cardinality(setting.flushers) = 1
             PROVE  /\ shown'[card'.task] <= card'.seen
                    /\ \A g \in Flushers : pc'[g] # "sync"
  BY DEF InOrder
<1>1. PICK s : s = snap[f]
  OBVIOUS
<1>2. /\ s \in Snapshots /\ shown \in [Tasks -> 0 .. Len(log)] /\ log \in Seq(Events)
      /\ setting.flushers \in SUBSET Flushers
  BY <1>1 DEF FlushInv, OutboxTypeOK, Setups
<1>3. s.task \in Tasks /\ s.seen \in Nat /\ shown[s.task] \in Nat /\ shown[s.task] <= s.seen
  BY <1>1, <1>2 DEF Snapshots, FlushInv, InOrder
<1>4. shown'[card'.task] <= card'.seen
  <2>1. card'.task = s.task /\ card'.seen = s.seen /\ shown'[s.task] = Max({shown[s.task], s.seen})
    BY <1>1, <1>2, <1>3 DEF Shows
  <2>2. Max({shown[s.task], s.seen}) \in {shown[s.task], s.seen}
    BY <1>3, LaterOf
  <2> QED
    BY <1>3, <2>1, <2>2
<1>5. \A g \in Flushers : pc[g] = "sync" => g = f
  <2>1. IsFiniteSet(setting.flushers)
    BY <1>2, OutboxAssumption, FS_Subset
  <2>2. PICK x : setting.flushers = {x}
    BY <2>1, FS_Singleton
  <2>3. \A g \in Flushers : pc[g] = "sync" => g = x
    BY <2>2 DEF FlushInv, OthersRest
  <2> QED
    BY <2>3
<1> QED
  BY <1>4, <1>5

(* for_task() of the next task.                                            *)
LEMMA ReadTaskStep ==
    ASSUME FlushInv, NEW f \in Flushers, ReadTask(f)
    PROVE  FlushInv'
<1>1. OutboxTypeOK
  BY DEF FlushInv
<1>2. PICK q : q = todo[f]
  OBVIOUS
<1>3. PICK P : P = pend[f]
  OBVIOUS
<1>4. PICK t : t = Head(q)
  OBVIOUS
<1>5. PICK s : s = ForTask(t)
  OBVIOUS
<1>6. /\ q \in Seq(Tasks) /\ q # <<>> /\ P \subseteq DOMAIN log /\ t \in Tasks
      /\ log \in Seq(Events)
  BY <1>1, <1>2, <1>3, <1>4 DEF OutboxTypeOK, ReadTask
<1>7. /\ UNCHANGED store /\ UNCHANGED <<log, alerts, delivered, card, shown, setting>>
      /\ pc[f] = "task" /\ Goes(f, "sync", s, P, q)
  <2>1. pend = [pend EXCEPT ![f] = P] /\ todo = [todo EXCEPT ![f] = q]
    BY <1>1, <1>2, <1>3 DEF OutboxTypeOK
  <2> QED
    BY <1>2, <1>4, <1>5, <2>1 DEF ReadTask, At, outbox, provider, Goes
<1>8. /\ s \in Snapshots /\ s.task = t /\ s.seen = Len(log) /\ s.last = LastOf(t)
      /\ s.phase = PhaseOf(t)
  BY <1>1, <1>5, <1>6, SnapshotTyped
<1>9. OutboxTypeOK'
  <2>1. /\ setting' \in Setups /\ setting'.beats = setting.beats
        /\ log' \in Seq(Events) /\ Len(log) <= Len(log')
        /\ alerts' \in Seq(Nat) /\ Len(alerts') = Len(log')
        /\ delivered' \subseteq DOMAIN log
        /\ card' \in [task : Tasks, seen : Nat] /\ shown' \in [Tasks -> 0 .. Len(log)]
    BY <1>1, <1>7 DEF OutboxTypeOK
  <2>2. q # <<>> /\ s.task = Head(q)
    BY <1>4, <1>6, <1>8
  <2> QED
    BY <1>1, <1>6, <1>7, <1>8, <2>1, <2>2, FlusherTyped
<1>10. /\ pc \in [Flushers -> {"idle", "observe", "pending", "task", "sync", "alert", "mark"}]
       /\ snap \in [Flushers -> Snapshots] /\ pend \in [Flushers -> SUBSET DOMAIN log]
       /\ alerts \in Seq(Nat) /\ Len(alerts) = Len(log) /\ shown \in [Tasks -> 0 .. Len(log)]
  BY <1>1 DEF OutboxTypeOK
<1>11. InHand(f)'
  <2>1. pc'[f] = "sync" /\ snap'[f] = s /\ pend'[f] = P
    BY <1>7, <1>10 DEF Goes
  <2>2. \A u : Of(u)' = Of(u)
    BY <1>7 DEF Of
  <2>3. /\ LastOf(t) \in Of(t) \union {0} /\ Of(t) \subseteq 1..Len(log)
        /\ \A i \in Of(t) : i <= LastOf(t)
    BY <1>6, LastEventOf
  <2>4. ASSUME s.last # 0, Calls(s.last)' PROVE s.phase = log'[s.last].phase
    <3>1. Calls(s.last)
      BY <1>7, <2>4, CallsKept
    <3>2. log[s.last].task = t
      BY <1>8, <2>3, <2>4 DEF Of
    <3> QED
      BY <1>7, <1>8, <3>1, <3>2 DEF Calls
  <2>5. s.seen <= Len(log') /\ pend'[f] \subseteq 1 .. s.seen
    BY <1>6, <1>7, <1>8, <2>1
  <2>6. /\ s.last \in Of(s.task)' \union {0}
        /\ \A i \in Of(s.task)' : i <= s.seen => i <= s.last
    BY <1>8, <2>2, <2>3
  <2>7. pc'[f] # "mark"
    BY <2>1
  <2> QED
    BY <2>1, <2>4, <2>5, <2>6, <2>7 DEF InHand
<1>12. InOrder'
  <2>1. \A u \in Tasks : shown'[u] <= Len(log)
    BY <1>6, <1>7, <1>10
  <2>2. ASSUME NEW g \in Flushers, pc'[g] = "sync", g # f
        PROVE  pc[g] = "sync" /\ snap'[g] = snap[g]
    BY <1>7, <1>10, <2>2 DEF Goes
  <2>3. snap'[f] = s
    BY <1>7, <1>10 DEF Goes
  <2> QED
    BY <1>7, <1>8, <2>1, <2>2, <2>3 DEF FlushInv, InOrder
<1>13. Grows
  BY <1>6, <1>7, <1>10 DEF Grows
<1> QED
  BY <1>7, <1>9, <1>11, <1>12, <1>13, DeliveryStep

(* What a sent snapshot makes of the card and of what was shown.           *)
LEMMA ShowsTyped ==
    ASSUME OutboxTypeOK, NEW s \in Snapshots, Shows(s), s.seen <= Len(log)
    PROVE  /\ card' \in [task : Tasks, seen : Nat] /\ shown' \in [Tasks -> 0 .. Len(log)]
           /\ \A t \in Tasks : shown'[t] >= shown[t]
           /\ s.seen <= shown'[s.task]
<1>1. shown \in [Tasks -> 0 .. Len(log)] /\ log \in Seq(Events) /\ Len(log) \in Nat
  BY DEF OutboxTypeOK
<1>2. s.task \in Tasks /\ s.seen \in Nat
  BY DEF Snapshots
<1>3. PICK m : m = Max({shown[s.task], s.seen})
  OBVIOUS
<1>4. m \in 0 .. Len(log) /\ shown[s.task] <= m /\ s.seen <= m
  <2>1. shown[s.task] \in Nat /\ shown[s.task] <= Len(log)
    BY <1>1, <1>2
  <2> QED
    BY <1>1, <1>2, <1>3, <2>1, LaterOf
<1>5. shown' = [shown EXCEPT ![s.task] = m] /\ card' = [task |-> s.task, seen |-> s.seen]
  BY <1>3 DEF Shows
<1> QED
  BY <1>1, <1>2, <1>4, <1>5

(* The description of the card is replaced.                                *)
LEMMA SyncStep ==
    ASSUME FlushInv, NEW f \in Flushers, Sync(f)
    PROVE  FlushInv'
<1>1. OutboxTypeOK
  BY DEF FlushInv
<1>2. PICK q : q = todo[f]
  OBVIOUS
<1>3. PICK P : P = pend[f]
  OBVIOUS
<1>4. PICK s : s = snap[f]
  OBVIOUS
<1>5. PICK p : p = IF s.phase \in ALERT_PHASES THEN "alert" ELSE "mark"
  OBVIOUS
<1>6. /\ UNCHANGED store /\ UNCHANGED <<log, alerts, delivered, setting>>
      /\ pc[f] = "sync" /\ Goes(f, p, s, P, q) /\ Shows(s)
  <2>1. pend = [pend EXCEPT ![f] = P] /\ todo = [todo EXCEPT ![f] = q] /\ snap = [snap EXCEPT ![f] = s]
    BY <1>1, <1>2, <1>3, <1>4 DEF OutboxTypeOK
  <2> QED
    BY <1>4, <1>5, <2>1 DEF Sync, At, outbox, Goes
<1>7. /\ q \in Seq(Tasks) /\ P \subseteq DOMAIN log /\ s \in Snapshots
      /\ q # <<>> /\ s.task = Head(q) /\ p \in {"alert", "mark"}
  BY <1>1, <1>2, <1>3, <1>4, <1>5, <1>6 DEF OutboxTypeOK
<1>8. InHand(f)
  BY <1>6 DEF FlushInv, HandsAreTrue, Delivering
<1>9. /\ card' \in [task : Tasks, seen : Nat] /\ shown' \in [Tasks -> 0 .. Len(log)]
      /\ \A t \in Tasks : shown'[t] >= shown[t]
      /\ s.seen <= shown'[s.task]
  <2>1. s.seen <= Len(log)
    BY <1>4, <1>8 DEF InHand
  <2> QED
    BY <1>1, <1>6, <1>7, <2>1, ShowsTyped
<1>10. OutboxTypeOK'
  <2>1. /\ setting' \in Setups /\ setting'.beats = setting.beats
        /\ log' \in Seq(Events) /\ Len(log) <= Len(log')
        /\ alerts' \in Seq(Nat) /\ Len(alerts') = Len(log')
        /\ delivered' \subseteq DOMAIN log
    BY <1>1, <1>6 DEF OutboxTypeOK
  <2>2. p \in {"idle", "observe", "pending", "task", "sync", "alert", "mark"}
    BY <1>7
  <2> QED
    BY <1>1, <1>6, <1>7, <1>9, <2>1, <2>2, FlusherTyped
<1>11. /\ pc \in [Flushers -> {"idle", "observe", "pending", "task", "sync", "alert", "mark"}]
       /\ snap \in [Flushers -> Snapshots] /\ pend \in [Flushers -> SUBSET DOMAIN log]
       /\ alerts \in Seq(Nat) /\ log \in Seq(Events) /\ Len(alerts) = Len(log)
  BY <1>1 DEF OutboxTypeOK
<1>12. pc'[f] = p /\ snap'[f] = s /\ pend'[f] = P
  BY <1>6, <1>11 DEF Goes
<1>13. InHand(f)'
  <2>1. \A t : Of(t)' = Of(t)
    BY <1>6 DEF Of
  <2>2. Calls(s.last)' <=> Calls(s.last)
    BY <1>6, CallsKept
  <2>3. /\ s.seen <= Len(log') /\ pend'[f] \subseteq 1 .. s.seen
        /\ s.last \in Of(s.task)' \union {0}
        /\ \A i \in Of(s.task)' : i <= s.seen => i <= s.last
        /\ s.last # 0 /\ Calls(s.last)' => s.phase = log'[s.last].phase
    BY <1>3, <1>4, <1>6, <1>8, <1>12, <2>1, <2>2 DEF InHand
  <2>4. ~ (pc'[f] = "mark" /\ s.phase \in ALERT_PHASES)
    BY <1>5, <1>12
  <2> QED
    BY <1>9, <1>12, <2>3, <2>4 DEF InHand
<1>14. InOrder'
  <2>1. pc'[f] # "sync" /\ \A g \in Flushers : pc'[g] = "sync" => pc[g] = "sync"
    BY <1>6, <1>7, <1>11, <1>12 DEF Goes
  <2> QED
    BY <1>4, <1>6, <2>1, OrderSent
<1>15. Grows
  BY <1>6, <1>9, <1>11 DEF Grows
<1> QED
  BY <1>6, <1>7, <1>10, <1>13, <1>14, <1>15, DeliveryStep

(* One more comment about the last event of a snapshot, if it has one.     *)
LEMMA CommentsTyped ==
    ASSUME OutboxTypeOK, NEW s, s.last \in DOMAIN log \union {0}, Comments(s)
    PROVE  /\ alerts' \in Seq(Nat) /\ Len(alerts') = Len(log)
           /\ \A i \in DOMAIN log : alerts'[i] >= alerts[i]
           /\ s.last # 0 => alerts'[s.last] > 0
<1>1. /\ alerts \in Seq(Nat) /\ Len(alerts) = Len(log) /\ log \in Seq(Events)
      /\ DOMAIN log = DOMAIN alerts
  BY DEF OutboxTypeOK
<1>2. \A i \in DOMAIN log : alerts[i] \in Nat
  BY <1>1
<1>3. CASE s.last = 0
  BY <1>1, <1>2, <1>3 DEF Comments
<1>4. CASE s.last # 0
  <2>1. PICK i \in DOMAIN log : i = s.last
    BY <1>4
  <2>2. alerts' = [alerts EXCEPT ![i] = @ + 1]
    BY <1>4, <2>1 DEF Comments
  <2>3. alerts[i] + 1 \in Nat /\ alerts[i] + 1 > 0 /\ alerts[i] + 1 >= alerts[i]
    BY <1>2
  <2>4. alerts' \in Seq(Nat) /\ Len(alerts') = Len(log)
    BY <1>1, <2>2, <2>3
  <2>5. \A j \in DOMAIN log : alerts'[j] >= alerts[j]
    BY <1>1, <1>2, <2>2, <2>3
  <2>6. alerts'[i] > 0
    BY <1>1, <2>2, <2>3
  <2> QED
    BY <2>1, <2>4, <2>5, <2>6
<1> QED
  BY <1>3, <1>4

(* Somebody is told of the last event of the snapshot.                     *)
LEMMA AlertStep ==
    ASSUME FlushInv, NEW f \in Flushers, Alert(f)
    PROVE  FlushInv'
<1>1. OutboxTypeOK
  BY DEF FlushInv
<1>2. PICK q : q = todo[f]
  OBVIOUS
<1>3. PICK P : P = pend[f]
  OBVIOUS
<1>4. PICK s : s = snap[f]
  OBVIOUS
<1>5. /\ UNCHANGED store /\ UNCHANGED <<log, delivered, card, shown, setting>>
      /\ pc[f] = "alert" /\ Goes(f, "mark", s, P, q) /\ Comments(s)
  <2>1. pend = [pend EXCEPT ![f] = P] /\ todo = [todo EXCEPT ![f] = q] /\ snap = [snap EXCEPT ![f] = s]
    BY <1>1, <1>2, <1>3, <1>4 DEF OutboxTypeOK
  <2> QED
    BY <1>4, <2>1 DEF Alert, At, outbox, Goes
<1>6. /\ q \in Seq(Tasks) /\ P \subseteq DOMAIN log /\ s \in Snapshots
      /\ q # <<>> /\ s.task = Head(q)
  BY <1>1, <1>2, <1>3, <1>4, <1>5 DEF OutboxTypeOK
<1>7. InHand(f)
  BY <1>5 DEF FlushInv, HandsAreTrue, Delivering
<1>8. /\ alerts' \in Seq(Nat) /\ Len(alerts') = Len(log)
      /\ \A i \in DOMAIN log : alerts'[i] >= alerts[i]
      /\ s.last # 0 => alerts'[s.last] > 0
  <2>1. s.last \in DOMAIN log \union {0}
    BY <1>4, <1>7 DEF InHand, Of
  <2> QED
    BY <1>1, <1>5, <2>1, CommentsTyped
<1>9. OutboxTypeOK'
  <2>1. /\ setting' \in Setups /\ setting'.beats = setting.beats
        /\ log' \in Seq(Events) /\ Len(log) <= Len(log')
        /\ delivered' \subseteq DOMAIN log
        /\ card' \in [task : Tasks, seen : Nat] /\ shown' \in [Tasks -> 0 .. Len(log)]
        /\ Len(log') = Len(log)
    BY <1>1, <1>5 DEF OutboxTypeOK
  <2>2. alerts' \in Seq(Nat) /\ Len(alerts') = Len(log')
    BY <1>8, <2>1
  <2> QED
    BY <1>1, <1>5, <1>6, <2>1, <2>2, FlusherTyped
<1>10. /\ pc \in [Flushers -> {"idle", "observe", "pending", "task", "sync", "alert", "mark"}]
       /\ snap \in [Flushers -> Snapshots] /\ pend \in [Flushers -> SUBSET DOMAIN log]
       /\ shown \in [Tasks -> 0 .. Len(log)] /\ log \in Seq(Events)
  BY <1>1 DEF OutboxTypeOK
<1>11. pc'[f] = "mark" /\ snap'[f] = s /\ pend'[f] = P
  BY <1>5, <1>10 DEF Goes
<1>12. InHand(f)'
  <2>1. \A t : Of(t)' = Of(t)
    BY <1>5 DEF Of
  <2>2. Calls(s.last)' <=> Calls(s.last)
    BY <1>5, CallsKept
  <2>3. /\ s.seen <= Len(log') /\ pend'[f] \subseteq 1 .. s.seen
        /\ s.last \in Of(s.task)' \union {0}
        /\ \A i \in Of(s.task)' : i <= s.seen => i <= s.last
        /\ s.last # 0 /\ Calls(s.last)' => s.phase = log'[s.last].phase
    BY <1>3, <1>4, <1>5, <1>7, <1>11, <2>1, <2>2 DEF InHand
  <2>4. s.seen <= shown'[s.task]
    BY <1>4, <1>5, <1>7 DEF InHand
  <2> QED
    BY <1>8, <1>11, <2>3, <2>4 DEF InHand
<1>13. InOrder'
  <2>1. \A g \in Flushers : pc'[g] = "sync" => pc[g] = "sync" /\ snap'[g] = snap[g]
    BY <1>5, <1>10 DEF Goes
  <2> QED
    BY <1>5, <2>1, OrderKept
<1>14. Grows
  BY <1>5, <1>8, <1>10 DEF Grows
<1> QED
  BY <1>5, <1>9, <1>12, <1>13, <1>14, DeliveryStep

(* A row is acknowledged: the snapshot in hand was read with it in the     *)
(* queue, and if it calls somebody it is the last event of the snapshot.   *)
LEMMA MarkStep ==
    ASSUME FlushInv, NEW f \in Flushers, Mark(f)
    PROVE  FlushInv'
<1>1. OutboxTypeOK
  BY DEF FlushInv
<1>2. PICK s : s = snap[f]
  OBVIOUS
<1>3. PICK P : P = pend[f]
  OBVIOUS
<1>4. PICK q : q = todo[f]
  OBVIOUS
<1>5. PICK left : left = {i \in P : log[i].task = Head(q)} \ delivered
  OBVIOUS
<1>6. /\ q \in Seq(Tasks) /\ P \subseteq DOMAIN log /\ s \in Snapshots
      /\ q # <<>> /\ s.task = Head(q) /\ log \in Seq(Events) /\ delivered \subseteq DOMAIN log
  BY <1>1, <1>2, <1>3, <1>4 DEF OutboxTypeOK, Mark
<1>7. /\ UNCHANGED store /\ UNCHANGED <<log, card, alerts, shown, setting, pend>>
      /\ pc[f] = "mark"
      /\ delivered' = IF left = {} THEN delivered ELSE delivered \union {Min(left)}
  BY <1>3, <1>4, <1>5 DEF Mark, provider
<1>8. \E p \in {"mark", "task"}, r \in Snapshots, w \in Seq(Tasks) :
          /\ Goes(f, p, r, P, w)
          /\ p = "mark" => r = s /\ w = q
  <2>1. /\ pend = [pend EXCEPT ![f] = P] /\ todo = [todo EXCEPT ![f] = q]
        /\ snap = [snap EXCEPT ![f] = s] /\ pc = [pc EXCEPT ![f] = pc[f]]
    BY <1>1, <1>2, <1>3, <1>4 DEF OutboxTypeOK
  <2>2. CASE UNCHANGED <<pc, todo, snap>>
    <3>1. Goes(f, "mark", s, P, q)
      BY <1>7, <2>1, <2>2 DEF Goes
    <3> QED
      BY <1>6, <3>1
  <2>3. CASE /\ pc' = [pc EXCEPT ![f] = "task"] /\ todo' = [todo EXCEPT ![f] = Tail(@)]
             /\ snap' = [snap EXCEPT ![f] = NoSnapshot]
    <3>1. Goes(f, "task", NoSnapshot, P, Tail(q))
      BY <1>4, <1>7, <2>1, <2>3 DEF Goes
    <3>2. NoSnapshot \in Snapshots /\ Tail(q) \in Seq(Tasks)
      BY <1>1, <1>6, SnapshotTyped
    <3> QED
      BY <3>1, <3>2
  <2> QED
    BY <2>2, <2>3 DEF Mark
<1>9. PICK p \in {"mark", "task"}, r \in Snapshots, w \in Seq(Tasks) :
          /\ Goes(f, p, r, P, w)
          /\ p = "mark" => r = s /\ w = q
  BY <1>8
<1>10. InHand(f)
  BY <1>7 DEF FlushInv, HandsAreTrue, Delivering
<1>11. left \subseteq Nat /\ left \subseteq P \intersect Of(s.task)
  BY <1>5, <1>6 DEF Of
<1>12. \A i \in delivered' : i \notin delivered => i \in left
  BY <1>7, <1>11, FirstPosition
<1>13. OutboxTypeOK'
  <2>1. /\ setting' \in Setups /\ setting'.beats = setting.beats
        /\ log' \in Seq(Events) /\ Len(log) <= Len(log')
        /\ alerts' \in Seq(Nat) /\ Len(alerts') = Len(log')
        /\ card' \in [task : Tasks, seen : Nat] /\ shown' \in [Tasks -> 0 .. Len(log)]
    BY <1>1, <1>7 DEF OutboxTypeOK
  <2>2. delivered' \subseteq DOMAIN log
    BY <1>6, <1>11, <1>12
  <2>3. /\ p \in {"idle", "observe", "pending", "task", "sync", "alert", "mark"}
        /\ p \in Delivering => w # <<>> /\ r.task = Head(w)
    BY <1>6, <1>9 DEF Delivering
  <2> QED
    BY <1>1, <1>6, <1>7, <1>9, <2>1, <2>2, <2>3, FlusherTyped
<1>14. /\ pc \in [Flushers -> {"idle", "observe", "pending", "task", "sync", "alert", "mark"}]
       /\ snap \in [Flushers -> Snapshots] /\ pend \in [Flushers -> SUBSET DOMAIN log]
       /\ shown \in [Tasks -> 0 .. Len(log)] /\ alerts \in Seq(Nat) /\ Len(alerts) = Len(log)
  BY <1>1 DEF OutboxTypeOK
<1>15. Grows
  <2>1. \A i \in DOMAIN log : alerts[i] \in Nat
    BY <1>6, <1>14
  <2>2. \A t \in Tasks : shown[t] \in Nat
    BY <1>6, <1>14
  <2> QED
    BY <1>7, <2>1, <2>2 DEF Grows
<1>16. \A i \in left : i <= shown[log[i].task] /\ (Calls(i) => alerts[i] > 0)
  <2> SUFFICES ASSUME NEW i \in left
               PROVE  i <= shown[log[i].task] /\ (Calls(i) => alerts[i] > 0)
    OBVIOUS
  <2>1. i \in Nat /\ i \in P /\ i \in Of(s.task) /\ log[i].task = s.task
    BY <1>11 DEF Of
  <2>2. s.task \in Tasks /\ s.seen \in Nat /\ s.last \in Nat
    BY <1>6 DEF Snapshots
  <2>3. i <= s.seen /\ s.seen <= shown[s.task] /\ shown[s.task] \in Nat
    BY <1>2, <1>3, <1>6, <1>7, <1>10, <1>14, <2>1, <2>2 DEF InHand
  <2>4. ASSUME Calls(i) PROVE alerts[i] > 0
    <3>1. i = LastOf(s.task) /\ log[i].phase \in ALERT_PHASES
      BY <2>1, <2>4 DEF Calls
    <3>2. s.last \in Of(s.task) \union {0} /\ i <= s.last
      BY <1>2, <1>10, <2>1, <2>3 DEF InHand
    <3>3. i # 0 /\ \A j \in Of(s.task) : j <= i
      BY <1>6, <2>1, <3>1, LastEventOf
    <3>4. s.last = i
      BY <2>1, <2>2, <3>2, <3>3
    <3> QED
      BY <1>2, <1>7, <1>10, <2>4, <3>1, <3>3, <3>4 DEF InHand
  <2> QED
    BY <2>1, <2>2, <2>3, <2>4
<1>17. p \in Delivering => InHand(f)'
  <2> SUFFICES ASSUME p = "mark" PROVE InHand(f)'
    BY <1>9 DEF Delivering
  <2>1. pc'[f] = pc[f] /\ snap'[f] = snap[f] /\ pend'[f] = pend[f]
    BY <1>2, <1>3, <1>7, <1>9, <1>14 DEF Goes
  <2>2. pc[f] \in Delivering
    BY <1>7 DEF Delivering
  <2> QED
    BY <1>7, <1>13, <1>15, <2>1, <2>2, InHandStays
<1>18. InOrder'
  <2>1. \A g \in Flushers : pc'[g] = "sync" => pc[g] = "sync" /\ snap'[g] = snap[g]
    BY <1>9, <1>14 DEF Goes
  <2> QED
    BY <1>7, <2>1, OrderKept
<1> QED
  BY <1>7, <1>9, <1>12, <1>13, <1>15, <1>16, <1>17, <1>18, DeliveryStep

(* A send that fails was applied or not; its flush is over.                *)
LEMMA SendFailsStep ==
    ASSUME FlushInv, NEW f \in Flushers, SendFails(f)
    PROVE  FlushInv'
<1>1. OutboxTypeOK
  BY DEF FlushInv
<1>2. PICK s : s = snap[f]
  OBVIOUS
<1>3. /\ UNCHANGED store /\ UNCHANGED <<log, delivered>>
      /\ pc[f] \in {"sync", "alert"} /\ Goes(f, "idle", NoSnapshot, {}, <<>>)
      /\ pc[f] = "sync" => Shows(s) \/ UNCHANGED <<card, shown>>
      /\ pc[f] # "sync" => UNCHANGED <<card, shown>>
      /\ UNCHANGED alerts \/ Comments(s)
  BY <1>2 DEF SendFails, Leaves, outbox, Goes
<1>4. setting' \in Setups /\ setting'.flushers = setting.flushers /\ setting'.beats = setting.beats
  BY <1>1, FaultSpent DEF SendFails
<1>5. /\ pc \in [Flushers -> {"idle", "observe", "pending", "task", "sync", "alert", "mark"}]
      /\ snap \in [Flushers -> Snapshots] /\ log \in Seq(Events)
      /\ alerts \in Seq(Nat) /\ Len(alerts) = Len(log) /\ shown \in [Tasks -> 0 .. Len(log)]
      /\ card \in [task : Tasks, seen : Nat] /\ delivered \subseteq DOMAIN log
  BY <1>1 DEF OutboxTypeOK
<1>6. s \in Snapshots /\ InHand(f)
  BY <1>2, <1>3, <1>5 DEF FlushInv, HandsAreTrue, Delivering
<1>7. /\ card' \in [task : Tasks, seen : Nat] /\ shown' \in [Tasks -> 0 .. Len(log)]
      /\ \A t \in Tasks : shown'[t] >= shown[t]
  <2>1. CASE UNCHANGED <<card, shown>>
    <3>1. \A t \in Tasks : shown[t] \in Nat
      BY <1>5
    <3> QED
      BY <1>5, <2>1, <3>1
  <2>2. CASE Shows(s)
    <3>1. s.seen <= Len(log)
      BY <1>2, <1>6 DEF InHand
    <3> QED
      BY <1>1, <1>6, <2>2, <3>1, ShowsTyped
  <2> QED
    BY <1>3, <2>1, <2>2
<1>8. /\ alerts' \in Seq(Nat) /\ Len(alerts') = Len(log')
      /\ \A i \in DOMAIN log : alerts'[i] >= alerts[i]
  <2>1. CASE UNCHANGED alerts
    <3>1. \A i \in DOMAIN log : alerts[i] \in Nat
      BY <1>5
    <3> QED
      BY <1>3, <1>5, <2>1, <3>1
  <2>2. CASE Comments(s)
    <3>1. s.last \in DOMAIN log \union {0}
      BY <1>2, <1>6 DEF InHand, Of
    <3> QED
      BY <1>1, <1>3, <2>2, <3>1, CommentsTyped
  <2> QED
    BY <1>3, <2>1, <2>2
<1>9. OutboxTypeOK'
  <2>1. /\ NoSnapshot \in Snapshots /\ {} \subseteq DOMAIN log /\ <<>> \in Seq(Tasks)
        /\ "idle" \notin Delivering /\ delivered' \subseteq DOMAIN log
        /\ log' \in Seq(Events) /\ Len(log) <= Len(log')
    BY <1>1, <1>3, <1>5, SnapshotTyped DEF Delivering
  <2> QED
    BY <1>1, <1>3, <1>4, <1>7, <1>8, <2>1, FlusherTyped
<1>10. pc'[f] = "idle" /\ \A g \in Flushers : g # f => pc'[g] = pc[g] /\ snap'[g] = snap[g]
  BY <1>3, <1>5 DEF Goes
<1>11. InOrder'
  <2>1. CASE UNCHANGED <<card, shown>>
    <3>1. \A g \in Flushers : pc'[g] = "sync" => pc[g] = "sync" /\ snap'[g] = snap[g]
      BY <1>10
    <3> QED
      BY <1>4, <2>1, <3>1, OrderKept
  <2>2. CASE pc[f] = "sync" /\ Shows(s)
    <3>1. pc'[f] # "sync" /\ \A g \in Flushers : pc'[g] = "sync" => pc[g] = "sync"
      BY <1>10
    <3> QED
      BY <1>2, <1>4, <2>2, <3>1, OrderSent
  <2> QED
    BY <1>3, <2>1, <2>2
<1>12. Grows
  BY <1>7, <1>8 DEF Grows
<1>13. "idle" \notin Delivering /\ "idle" # "observe" /\ pc[f] # "idle"
  BY <1>3 DEF Delivering
<1> QED
  BY <1>3, <1>4, <1>9, <1>11, <1>12, <1>13, DeliveryStep

-----------------------------------------------------------------------------
(* Nothing is queued, shown or in hand at the beginning.                   *)
LEMMA InitFlushInv == OutboxInit => FlushInv
<1> SUFFICES ASSUME OutboxInit PROVE FlushInv
  OBVIOUS
<1>1. setting \in Setups /\ setting.tasks \in SUBSET Tasks /\ setting.start \in SUBSET TaskStatus
      /\ setting.beats \in Nat
  BY OutboxAssumption DEF OutboxInit, Setups
<1>2. /\ log = <<>> /\ delivered = {} /\ alerts = <<>> /\ Len(log) = 0
      /\ card \in [task : setting.tasks, seen : {0}] /\ shown = [t \in Tasks |-> 0]
      /\ pc = [f \in Flushers |-> "idle"] /\ snap = [f \in Flushers |-> NoSnapshot]
      /\ pend = [f \in Flushers |-> {}] /\ todo = [f \in Flushers |-> <<>>]
  BY DEF OutboxInit
<1>3. OutboxTypeOK
  <2>1. Cardinality(setting.tasks) \in Nat
    BY <1>1, OutboxAssumption, FS_Subset, FS_CardinalityType
  <2>2. touched \in [Tasks -> Nat]
    BY <2>1 DEF OutboxInit
  <2>3. taskStatus \in [Tasks -> TaskStatus]
    BY <1>1 DEF OutboxInit, TaskStatus
  <2>4. beat \in [Tasks -> 1 .. Max({1, setting.beats})]
    <3>1. 1 \in 1 .. Max({1, setting.beats})
      BY <1>1, LaterOf
    <3> QED
      BY <3>1 DEF OutboxInit
  <2>5. run \in [Tasks -> Nat] /\ stale \in [Tasks -> BOOLEAN]
    BY DEF OutboxInit
  <2>6. /\ log \in Seq(Events) /\ delivered \subseteq DOMAIN log /\ alerts \in Seq(Nat)
        /\ Len(alerts) = Len(log) /\ card \in [task : Tasks, seen : Nat]
        /\ shown \in [Tasks -> 0 .. Len(log)]
    BY <1>1, <1>2
  <2>7. NoSnapshot \in Snapshots
    <3>1. (CHOOSE t \in Tasks : TRUE) \in Tasks /\ "READY" \in Phases
      BY OutboxAssumption DEF Phases, TaskStatus
    <3> QED
      BY <3>1 DEF NoSnapshot, Snapshots
  <2>8. /\ pc \in [Flushers -> {"idle", "observe", "pending", "task", "sync", "alert", "mark"}]
        /\ snap \in [Flushers -> Snapshots] /\ pend \in [Flushers -> SUBSET DOMAIN log]
        /\ todo \in [Flushers -> Seq(Tasks)]
        /\ \A f \in Flushers : pc[f] \notin {"sync", "alert", "mark"}
    BY <1>2, <2>7
  <2> QED
    BY <1>1, <2>2, <2>3, <2>4, <2>5, <2>6, <2>8 DEF OutboxTypeOK
<1>4. OthersRest /\ StallsArePast /\ HandsAreTrue /\ DeliveredWasShown /\ AlertNotLost
  BY <1>2 DEF OthersRest, StallsArePast, HandsAreTrue, Delivering, DeliveredWasShown, AlertNotLost
<1>5. InOrder
  <2>1. card.seen = 0 /\ shown[card.task] = 0
    BY <1>1, <1>2
  <2> QED
    BY <1>2, <2>1 DEF InOrder
<1> QED
  BY <1>3, <1>4, <1>5 DEF FlushInv

(* Every step of a task or of a flusher keeps the invariant.               *)
LEMMA FlushInvStep == FlushInv /\ [OutboxNext]_outboxVars => FlushInv'
<1> SUFFICES ASSUME FlushInv, [OutboxNext]_outboxVars PROVE FlushInv'
  OBVIOUS
<1>1. ASSUME NEW t \in Tasks, (\E to \in TaskStatus : Move(t, to)) \/ Heartbeat(t) \/ Misses(t)
      PROVE  FlushInv'
  BY <1>1, TaskStep
<1>2. ASSUME NEW f \in Flushers, Flush(f) \/ SendFails(f) \/ Crash(f)
      PROVE  FlushInv'
  BY <1>2, PulseStep, ObserveStep, ReadPendingStep, ReadTaskStep, LeavesStep, SyncStep,
     AlertStep, MarkStep, SendFailsStep DEF Flush
<1>3. CASE UNCHANGED outboxVars
  <2>1. /\ UNCHANGED <<setting, taskStatus, touched, run, beat, stale, log, delivered, card,
                       alerts, shown, pc, snap, pend, todo>>
    BY <1>3 DEF outboxVars, store, outbox, provider, local
  <2>2. OutboxTypeOK'
    BY <2>1 DEF FlushInv, OutboxTypeOK
  <2>3. UNCHANGED store /\ LogStep
    BY <2>1 DEF store, LogStep
  <2>4. \A i \in DOMAIN log : Calls(i)' => Calls(i)
    BY <2>1, <2>3, CallsKept
  <2>5. HandsAreTrue' /\ DeliveredWasShown' /\ AlertNotLost' /\ InOrder'
    BY <2>1, <2>2, <2>3, <2>4, Undelivered
  <2>6. StallsArePast'
    BY <2>1, <2>3, StallsKept
  <2>7. OthersRest'
    BY <2>1 DEF FlushInv, OthersRest
  <2> QED
    BY <2>2, <2>5, <2>6, <2>7 DEF FlushInv
<1> QED
  BY <1>1, <1>2, <1>3 DEF OutboxNext

LEMMA FlushInvAlways == OutboxSpec => []FlushInv
<1>1. FlushInv /\ [OutboxNext]_outboxVars => FlushInv'
  BY FlushInvStep
<1> QED
  BY <1>1, InitFlushInv, PTL DEF OutboxSpec

(* Every column, snapshot and local keeps its type, and a flusher that     *)
(* delivers has a task to deliver (status_events.py flush).                *)
THEOREM OutboxTyped == OutboxSpec => []OutboxTypeOK
<1>1. FlushInv => OutboxTypeOK
  BY DEF FlushInv
<1> QED
  BY <1>1, FlushInvAlways, PTL

(* What is acknowledged was shown, and at rest the card is current, for    *)
(* every number of tasks and flushers and whatever fails                   *)
(* (status_events.py:50-70).                                               *)
THEOREM CardProved == OutboxSpec => []CardIsTrue
<1>1. FlushInv => CardIsTrue
  <2> SUFFICES ASSUME FlushInv PROVE CardIsCurrent
    BY DEF FlushInv, CardIsTrue
  <2> SUFFICES ASSUME Cardinality(setting.flushers) = 1, Pending = {}
               PROVE  card.seen >= LastOf(card.task)
    BY DEF CardIsCurrent
  <2>1. /\ log \in Seq(Events) /\ card.task \in Tasks /\ card.seen \in Nat
        /\ shown \in [Tasks -> 0 .. Len(log)]
    BY DEF FlushInv, OutboxTypeOK
  <2>2. PICK l : l = LastOf(card.task)
    OBVIOUS
  <2>3. l \in Of(card.task) \union {0} /\ l \in 0 .. Len(log)
    BY <2>1, <2>2, LastEventOf
  <2>4. shown[card.task] <= card.seen
    BY DEF FlushInv, InOrder
  <2>5. CASE l \in Of(card.task)
    <3>1. l \in delivered /\ log[l].task = card.task
      BY <2>5 DEF Of, Pending
    <3>2. l <= shown[card.task]
      BY <3>1 DEF FlushInv, DeliveredWasShown
    <3> QED
      BY <2>1, <2>2, <2>3, <2>4, <3>2
  <2>6. CASE l = 0
    BY <2>1, <2>2, <2>6
  <2> QED
    BY <2>3, <2>5, <2>6
<1> QED
  BY <1>1, FlushInvAlways, PTL

(* No event that still calls a person is acknowledged before somebody was  *)
(* alerted, whichever send fails and wherever a flusher dies               *)
(* (status_events.py:64-70).                                               *)
THEOREM AlertsProved == OutboxSpec => []AlertNotLost
<1>1. FlushInv => AlertNotLost
  BY DEF FlushInv
<1> QED
  BY <1>1, FlushInvAlways, PTL
===============================================================================
