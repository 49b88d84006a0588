------------------------------- MODULE Engines -------------------------------
(***************************************************************************)
(* The execution engine of a factory: exactly one adapter is built from    *)
(* the settings, and it is either the Codex CLI behind its detached worker *)
(* or the OpenHands agent server behind HTTP.  Both are shown to implement *)
(* the same agent, the one the rest of the factory is modelled with.       *)
(***************************************************************************)
EXTENDS CodexWorker

CONSTANTS
    RetryLimit,    \* RecoveryPolicy.run_retry_limit
    ServerFaults   \* faults of the OpenHands server and of the wire

ASSUME EnginesAssumption ==
    /\ RetryLimit \in Nat \ {0}
    /\ ServerFaults \subseteq {"lost", "refused", "unread", "gone", "stop"}

VARIABLES
    adapter,                                        \* the adapter in use
    task, rows, job, pc, seen, conv, wire, faults   \* see OpenHands

OH == INSTANCE OpenHands WITH Faults <- ServerFaults

openHands == <<task, rows, job, pc, seen, conv, wire, faults>>
engineVars == <<vars, openHands, adapter>>

(* _build_agent_adapter, at the start of the process. *)
BuildAgentAdapter == adapter \in {"codex", "openhands"}

EnginesInit == Init /\ OH!Init /\ BuildAgentAdapter

CodexNext == adapter = "codex" /\ Next /\ UNCHANGED <<openHands, adapter>>

OpenHandsNext ==
    adapter = "openhands" /\ OH!Next /\ UNCHANGED <<vars, adapter>>

EnginesNext == CodexNext \/ OpenHandsNext

(* Both adapters' own fairness: the steps of the one that was not built    *)
(* are never enabled.                                                      *)
EnginesSpec ==
    /\ EnginesInit
    /\ [][EnginesNext]_engineVars
    /\ Fairness
    /\ OH!Fairness

-----------------------------------------------------------------------------
(* Properties of the OpenHands engine, stated in its module. *)

(* The types of the engine in use. *)
EnginesTypeOK == TypeOK /\ OH!TypeOK

(* Only what the agent finished is validated (status.py, adapter.py). *)
SuccessMeansFinished == OH!SuccessMeansFinished

(* No two agents the factory knows of write one checkout (dispatch.py      *)
(* dispatch_rework, adapter.py cancel).                                    *)
OneConversationPerCheckout == OH!OneConversationPerCheckout

(* The correction of a task implements the abstract agent (tracking.py     *)
(* refresh over the adapter).                                              *)
OpenHandsImplementsAgent == OH!ImplementsAgent

(* An active OpenHands run ends unless its conversation is interrupted or  *)
(* deleted (adapter.py collect).                                           *)
OpenHandsRunEnds == OH!RunEnds

(* Whichever adapter is built implements the agent the factory is modelled *)
(* with (domain/models.py AgentAdapter).                                   *)
EnginesImplementAgent == ImplementsAgent /\ OpenHandsImplementsAgent

(* Whichever adapter is built, an active run ends. *)
EveryRunEnds == RunEnds /\ OpenHandsRunEnds

(* What the factory takes as the end of an agent is its end: a result, the *)
(* proof of an orphan, a finished conversation.                            *)
EvidenceIsSound ==
    ResultMeansChildEnded /\ OrphanProofIsSound /\ SuccessMeansFinished

=============================================================================
