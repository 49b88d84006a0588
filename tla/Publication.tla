------------------------------ MODULE Publication ------------------------------
(***************************************************************************)
(* Publication of a green run (orchestration/publication.py and the        *)
(* runtime's handling of its failures), and the provider's verdict on the  *)
(* pull request (runtime.py, human reviews).  Pushing the branch and       *)
(* opening the provider's pull request are one external step here.         *)
(***************************************************************************)
EXTENDS Worker

(* _require_publishable: the latest run, successful, with green gates. *)
MayPublish(s) == /\ IsLatestRun(task[s], job[s].id)
                 /\ Publishable(LatestRun(task[s]))

(* A row for this run: an earlier pass published it.  A row for the branch *)
(* under an earlier run: a review cycle, the push updates it.              *)
Published(s) == PrForRun(task[s], job[s].id)
UnderReview(s) == ~ Published(s) /\ PrForBranch(task[s], job[s].ws)

InPublish(s) == At(s, "publish")
                /\ UNCHANGED <<status, reason, hist, runs, rework>>
                /\ UNCHANGED <<engine, task, job>>

PublishRefused(s) ==
    /\ InPublish(s)
    /\ \/ ~ MayPublish(s)
       \/ /\ ~ Published(s) /\ ~ UnderReview(s)
          /\ status[task[s]] # "VALIDATING"
    /\ Goto(s, "pubfail")
    /\ UNCHANGED <<prs, faults, note>>

(* A critical finding, or no review at all, blocks the task. *)
SecurityBlocks(s) ==
    /\ InPublish(s)
    /\ MayPublish(s)
    /\ status[task[s]] # "WAITING_HUMAN"
    /\ Fault("security")
    /\ BlockLater(s, "security", 0)
    /\ UNCHANGED prs

(* git, the provider or the stored identity fails. *)
PublishFails(s) ==
    /\ InPublish(s)
    /\ MayPublish(s)
    /\ ~ Published(s)
    /\ status[task[s]] = "VALIDATING"
    /\ Fault("publish")
    /\ Goto(s, "pubfail")
    /\ UNCHANGED <<prs, note>>

PublishExisting(s) ==
    /\ InPublish(s)
    /\ MayPublish(s)
    /\ \/ Published(s)
       \/ UnderReview(s) /\ status[task[s]] # "VALIDATING"
    /\ Goto(s, "open")
    /\ UNCHANGED <<prs, faults, note>>

(* Wrong variants: the row keeps the earlier run; a second row is added. *)
PublishRevisionUnrecorded(s) ==
    /\ InPublish(s)
    /\ MayPublish(s)
    /\ UnderReview(s)
    /\ status[task[s]] = "VALIDATING"
    /\ Goto(s, "open")
    /\ UNCHANGED <<prs, faults, note>>

(* Wrong variant: a second row for the branch. *)
PublishRevisionInserts(s) ==
    /\ InPublish(s)
    /\ MayPublish(s)
    /\ UnderReview(s)
    /\ status[task[s]] = "VALIDATING"
    /\ prs' = [prs EXCEPT ![task[s]] =
                 @ \union {[ws |-> job[s].ws, run |-> job[s].id]}]
    /\ Goto(s, "open")
    /\ UNCHANGED <<faults, note>>

(* Push to the reviewed branch and point its row at this run. *)
PublishRevision(s) ==
    /\ InPublish(s)
    /\ MayPublish(s)
    /\ UnderReview(s)
    /\ status[task[s]] = "VALIDATING"
    /\ prs' = [prs EXCEPT ![task[s]] =
                 {pr \in @ : pr.ws # job[s].ws}
                   \union {[ws |-> job[s].ws, run |-> job[s].id]}]
    /\ Goto(s, "open")
    /\ UNCHANGED <<faults, note>>

PublishNew(s) ==
    /\ InPublish(s)
    /\ MayPublish(s)
    /\ ~ Published(s) /\ ~ UnderReview(s)
    /\ status[task[s]] = "VALIDATING"
    /\ Goto(s, "persist")
    /\ UNCHANGED <<prs, faults, note>>

(* A row that exists already is the answer if it is this run's. *)
PersistPr(s) ==
    /\ At(s, "persist")
    /\ IF UnderReview(s)
       THEN Goto(s, "pubfail") /\ UNCHANGED prs
       ELSE /\ Goto(s, "open")
            /\ prs' = [prs EXCEPT ![task[s]] =
                         @ \union {[ws |-> job[s].ws, run |-> job[s].id]}]
    /\ UNCHANGED <<status, reason, hist, runs, rework>>
    /\ UNCHANGED <<engine, faults, task, job, note>>

(* Wrong variant: straight to WAITING_HUMAN. *)
OpenPrSkipped(s) ==
    /\ At(s, "open")
    /\ Record(task[s], "WAITING_HUMAN")
    /\ Goto(s, "await")
    /\ UNCHANGED <<reason, runs, rework, prs, engine, faults, task, job, note>>

(* _reconcile: VALIDATING -> PR_OPEN -> WAITING_HUMAN, whatever applies. *)
OpenPr(s) ==
    /\ At(s, "open")
    /\ IF status[task[s]] = "VALIDATING" THEN Transition(task[s], "PR_OPEN")
                                         ELSE UNCHANGED <<status, hist>>
    /\ Goto(s, "await")
    /\ UNCHANGED <<reason, runs, rework, prs, engine, faults, task, job, note>>

AwaitHuman(s) ==
    /\ At(s, "await")
    /\ IF status[task[s]] = "PR_OPEN" THEN Transition(task[s], "WAITING_HUMAN")
                                      ELSE UNCHANGED <<status, hist>>
    /\ Leave(s)
    /\ UNCHANGED <<reason, runs, rework, prs, engine, faults, task>>

(* The pool keeps a task whose publication failed out of its next pass. *)
BlockFailedPublication(s) ==
    /\ At(s, "pubfail")
    /\ IF /\ status[task[s]] = "VALIDATING"
          /\ MayPublish(s)
          /\ ~ Published(s)
       THEN BlockLater(s, "publication", job[s].id) /\ UNCHANGED job
       ELSE Leave(s)
    /\ UNCHANGED <<store, engine, faults, task>>

-----------------------------------------------------------------------------
(* Provider reviews *)

Reviewable(s, t) ==
    /\ At(s, "idle") /\ Free(t)
    /\ IsCode(t)
    /\ status[t] \in {"WAITING_HUMAN", "VALIDATING"}
    /\ HasRun(t)
    /\ PrForRun(t, LatestRun(t).id) \/ PrForBranch(t, LatestRun(t).ws)

ReviewMerged(s, t) ==
    /\ Reviewable(s, t)
    /\ Transition(t, "DONE")
    /\ UNCHANGED <<reason, runs, rework, prs>>
    /\ UNCHANGED <<engine, faults, pc, task, job, note>>

ReviewClosed(s, t) ==
    /\ Reviewable(s, t)
    /\ Transition(t, "CANCELLED")
    /\ Take(s, t, "note")
    /\ note' = [note EXCEPT ![s] =
                  [to |-> "CANCELLED", why |-> [kind |-> "closed", run |-> 0]]]
    /\ UNCHANGED <<reason, runs, rework, prs, engine, faults, job>>

=============================================================================
