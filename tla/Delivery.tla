------------------------------- MODULE Delivery -------------------------------
(***************************************************************************)
(* From the end of an agent's run to the Pull Request: Validation and      *)
(* GitPublish over one worktree, one task and one budget of faults and     *)
(* changes.  A process first refreshes the run and then publishes it; the  *)
(* validation of the task's first run is modelled command by command, that *)
(* of a reworked one by its result (Rework).                               *)
(***************************************************************************)
EXTENDS GitPublish

CONSTANTS
    Specs, Required,  \* the gates, and which of them must be green
    Passing           \* <<gate, content>> pairs that exit with 0

ASSUME DeliveryAssumption ==
    /\ Specs \in Seq(STRING) /\ Required \subseteq {Specs[i] : i \in DOMAIN Specs}
    /\ Valid = {t \in Trees : \A g \in Required : <<g, t>> \in Passing}

VARIABLES ended, status, gates, vpc, vloc  \* see Validation

V == INSTANCE Validation
     WITH Contents <- Trees, files <- tree, pc <- vpc, loc <- vloc,
          published <- row # NoRow \/ OpenPrs # {}

validation == <<ended, status, gates, vpc, vloc>>
publication == <<index, head, commits, provider, base, reason, run, row, reviews,
                 pc, loc, pushed>>
deliveryVars == <<vars, validation>>

DeliveryInit == Init /\ V!Init

(* _run_once: the run is refreshed, then published, by one process. *)
ValidationPass(p) ==
    pc[p] = "idle" /\ run = 1 /\ UNCHANGED publication /\ V!Pass(p)

PublicationPass(p) ==
    vpc[p] = "idle" /\ UNCHANGED validation /\ Pass(p)

Failure(p) ==
    \/ UNCHANGED validation /\ (CallFails(p) \/ Crash(p))
    \/ UNCHANGED publication /\ (V!Crash(p) \/ V!GateWrites(p))

Environment ==
    \/ UNCHANGED validation /\ Others
    \/ UNCHANGED publication /\ V!EngineEnds

Requeue == UNCHANGED publication /\ V!Requeue

DeliveryNext ==
    \/ \E p \in Procs : ValidationPass(p) \/ PublicationPass(p) \/ Failure(p)
    \/ Requeue \/ Environment

(* run, watch and pool repeat their passes, the agent ends or is timed out,*)
(* and the operator retries what is blocked and decides on findings.       *)
DeliverySpec ==
    /\ DeliveryInit /\ [][DeliveryNext]_deliveryVars
    /\ \A p \in Procs : WF_deliveryVars(ValidationPass(p) \/ PublicationPass(p))
    /\ WF_deliveryVars(Requeue)
    /\ WF_deliveryVars(UNCHANGED publication /\ V!EngineEnds)
    /\ WF_deliveryVars(UNCHANGED validation /\ (Retry \/ Override))

-----------------------------------------------------------------------------
(* Properties *)

(* The types of both parts. *)
DeliveryTypeOK == TypeOK /\ V!TypeOK

(* "only the exact revision that passed the gates may be published"        *)
(* (tracking.py): what is pushed passes every required gate, although the  *)
(* files change while gates run, commits are made and passes are repeated. *)
(* The settings change the files at most once before a revision is bound:  *)
(* a change that is undone between the two fingerprints is not noticed.    *)
PushedPassesGates == \A x \in pushed : commits[x[2]].tree \in Valid

(* A published run keeps its green gates and a revision: no later          *)
(* refresh, recovery or repeated validation takes them back (tracking.py   *)
(* _reconcile_terminal).                                                   *)
PublishedStaysBound ==
    \A x \in pushed : x[1] = 1 =>
        V!RequiredGreen(gates) /\ validated[1] # None

(* A run that ended is validated and its task is driven, through crashes,  *)
(* failed commands and a lost worktree; runs of earlier releases get their *)
(* revision or are rejected (tracking.py refresh).                         *)
ValidationEnds ==
    ended ~> /\ task # "RUNNING"
             /\ validated[1] # None \/ ~V!RequiredGreen(gates)

(* What is published is exactly what was validated and gated, and stays    *)
(* validated.                                                              *)
PublishedIsExact ==
    PublishedIsValidated /\ PushedPassesGates /\ PublishedStaysBound

(* The branch, the stored row and the person's view of them agree: nothing *)
(* a person or a run put there is dropped (publication.py, pr_sqlite.py).  *)
BranchIsTrue == RowIsPublished /\ PersonsWorkKept /\ HumanSeesLatest

(* A run that ended is validated, and an undisturbed publication reaches a *)
(* person, whatever fails in between (tracking.py, publication.py).        *)
DeliveryEnds == ValidationEnds /\ PublicationSettles
=============================================================================
