----------------------------- MODULE AgentStage -----------------------------
(***************************************************************************)
(* The agent stage: agents/agent_worker.py reads stream:to_agent as the    *)
(* only consumer of group:agent, runs the event processing graph on each   *)
(* message, posts the card it gives to the backend (publish_card), reports *)
(* the outcome on the raw_events row (_notify_status) and acknowledges,    *)
(* whatever happened.  The worker reads new messages only and nothing      *)
(* reclaims this group's pending entries.                                  *)
(*                                                                         *)
(* A message is run at most once and its card has a fresh id, so the id of *)
(* the message stands for the id of its card.  A request the client gave   *)
(* up on may still reach the backend: it is then in a `late` set.          *)
(***************************************************************************)
EXTENDS Streams, FiniteSets

CONSTANTS PatchAttempts,  \* stop_after_attempt of _patch_status
          ForwardLimit    \* bound on messages forwarded from outside

ASSUME AgentAssumption == PatchAttempts \in Nat \ {0} /\ ForwardLimit \in Nat

VARIABLES agentCursor,  \* last-delivered-id of group:agent
          agentPel,     \* delivered and not acknowledged
          agent,        \* what agent-worker-1 is doing, and its batch
          cards,        \* event_cards stored by upsert_card
          reported,     \* messages whose outcome is recorded in raw_events
          latePosts,    \* cards posted that may still arrive
          latePatches   \* status patches sent that may still arrive

agentVars == <<agentCursor, agentPel, agent, cards, reported, latePosts, latePatches>>
agentStageVars == <<streamVars, agentVars>>

Outcomes == {"processed", "failed"}
Patch == [msg : Nat, outcome : Outcomes, attempt : 1..PatchAttempts]

(* `attempt` is the PATCH the worker is about to send. *)
AgentFree == [pc |-> "free", batch |-> {}, outcome |-> "failed", attempt |-> 1]

AgentTypeOK ==
    /\ agentCursor \in Nat
    /\ agentPel \subseteq Nat
    /\ agent \in [pc : {"free", "graph", "publish", "notify", "ack"}, batch : SUBSET Nat,
                  outcome : Outcomes, attempt : 1..PatchAttempts]
    /\ cards \subseteq Nat
    /\ reported \subseteq Nat
    /\ latePosts \subseteq Nat
    /\ latePatches \subseteq Patch

AgentInit ==
    /\ agentCursor = 0
    /\ agentPel = {}
    /\ agent = AgentFree
    /\ cards = {}
    /\ reported = {}
    /\ latePosts = {}
    /\ latePatches = {}

-----------------------------------------------------------------------------
InHand == First(agent.batch)
AgentGoto(stage) == agent' = [agent EXCEPT !.pc = stage]

(* Mutant: only the first message of a batch is handled. *)
AgentDropsRest == agent' = AgentFree

AgentAdvance ==
    LET rest == agent.batch \ {InHand}
    IN  agent' = IF rest = {} THEN AgentFree
                 ELSE [AgentFree EXCEPT !.pc = "graph", !.batch = rest]

(* Mutant: the worker waits for a full batch. *)
AgentReadsFullBatch ==
    /\ agent.pc = "free"
    /\ agentCursor + BatchSize <= Len(agentLog)
    /\ LET new == agentCursor + 1 .. LastRead(agentLog, agentCursor)
       IN  /\ agentCursor' = LastRead(agentLog, agentCursor)
           /\ agentPel' = agentPel \cup new
           /\ agent' = [AgentFree EXCEPT !.pc = "graph", !.batch = new]
    /\ UNCHANGED <<streamVars, cards, reported, latePosts, latePatches>>

AgentRead ==
    /\ agent.pc = "free"
    /\ agentCursor < Len(agentLog)
    /\ LET new == agentCursor + 1 .. LastRead(agentLog, agentCursor)
       IN  /\ agentCursor' = LastRead(agentLog, agentCursor)
           /\ agentPel' = agentPel \cup new
           /\ agent' = [AgentFree EXCEPT !.pc = "graph", !.batch = new]
    /\ UNCHANGED <<streamVars, cards, reported, latePosts, latePatches>>

(* graph_run gives a card, or raises and the except branch reports failed. *)
AgentRunsGraph ==
    /\ agent.pc = "graph"
    /\ \E outcome \in Outcomes :
          agent' = [agent EXCEPT !.outcome = outcome,
                                 !.pc = IF outcome = "processed" THEN "publish" ELSE "notify"]
    /\ UNCHANGED <<streamVars, agentCursor, agentPel, cards, reported, latePosts, latePatches>>

AgentPublishes ==
    /\ agent.pc = "publish"
    /\ cards' = cards \cup {InHand}
    /\ AgentGoto("notify")
    /\ UNCHANGED <<streamVars, agentCursor, agentPel, reported, latePosts, latePatches>>

(* publish_card swallows its exception; the caller ignores what it returns.*)
AgentPublishFails ==
    /\ agent.pc = "publish"
    /\ Fault
    /\ latePosts' \in {latePosts, latePosts \cup {InHand}}
    /\ AgentGoto("notify")
    /\ UNCHANGED <<rawLog, agentLog, agentCursor, agentPel, cards, reported, latePatches>>

(* The backend records an outcome; what that does to the row is the        *)
(* store's action.                                                         *)
Record(msg) == reported' = reported \cup {msg}

AgentNotifies ==
    /\ agent.pc = "notify"
    /\ Record(InHand)
    /\ AgentGoto("ack")
    /\ UNCHANGED <<streamVars, agentCursor, agentPel, cards, latePosts, latePatches>>

(* Mutant: the first failure is final. *)
AgentTriesOnce ==
    /\ agent.pc = "notify"
    /\ Fault
    /\ LET patch == [msg |-> InHand, outcome |-> agent.outcome, attempt |-> agent.attempt]
       IN  latePatches' \in {latePatches, latePatches \cup {patch}}
    /\ AgentGoto("ack")
    /\ UNCHANGED <<rawLog, agentLog, agentCursor, agentPel, cards, reported, latePosts>>

(* An attempt at the PATCH fails; after the last one the worker goes on.   *)
AgentNotifyFails ==
    /\ agent.pc = "notify"
    /\ Fault
    /\ LET patch == [msg |-> InHand, outcome |-> agent.outcome, attempt |-> agent.attempt]
       IN  latePatches' \in {latePatches, latePatches \cup {patch}}
    /\ agent' = IF agent.attempt = PatchAttempts
                THEN [agent EXCEPT !.pc = "ack"]
                ELSE [agent EXCEPT !.attempt = @ + 1]
    /\ UNCHANGED <<rawLog, agentLog, agentCursor, agentPel, cards, reported, latePosts>>

AgentAcks ==
    /\ agent.pc = "ack"
    /\ agentPel' = agentPel \ {InHand}
    /\ AgentAdvance
    /\ UNCHANGED <<streamVars, agentCursor, cards, reported, latePosts, latePatches>>

(* The XACK of the finally block raises: the process ends. *)
AgentAckFails ==
    /\ agent.pc = "ack"
    /\ Fault
    /\ agentPel' \in {agentPel, agentPel \ {InHand}}
    /\ agent' = AgentFree
    /\ UNCHANGED <<rawLog, agentLog, agentCursor, cards, reported, latePosts, latePatches>>

AgentCrashes ==
    /\ agent.pc # "free"
    /\ Fault
    /\ agent' = AgentFree
    /\ UNCHANGED <<rawLog, agentLog, agentCursor, agentPel, cards, reported, latePosts, latePatches>>

LatePostLands(msg) ==
    /\ latePosts' = latePosts \ {msg}
    /\ cards' = cards \cup {msg}
    /\ UNCHANGED <<streamVars, agentCursor, agentPel, agent, reported, latePatches>>

LatePatchLands(patch) ==
    /\ latePatches' = latePatches \ {patch}
    /\ Record(patch.msg)
    /\ UNCHANGED <<streamVars, agentCursor, agentPel, agent, cards, latePosts>>

(* The steps that leave the raw_events table alone, and those that do not. *)
AgentLocal == AgentRead \/ AgentRunsGraph \/ AgentPublishes \/ AgentAcks
AgentFails == AgentPublishFails \/ AgentNotifyFails \/ AgentAckFails \/ AgentCrashes

-----------------------------------------------------------------------------
(* The stage on its own: the ingest stage forwards ForwardLimit messages.  *)
Arrive(r) ==
    /\ Len(agentLog) < ForwardLimit
    /\ agentLog' = Append(agentLog, [row |-> r, of |-> 0])
    /\ UNCHANGED <<rawLog, faults, agentVars>>

AgentStageInit == StreamsInit /\ AgentInit
AgentStageNext ==
    \/ AgentLocal \/ AgentNotifies \/ AgentFails
    \/ \E msg \in latePosts : LatePostLands(msg)
    \/ \E patch \in latePatches : LatePatchLands(patch)
    \/ \E r \in Rows : Arrive(r)

AgentStageSpec == AgentStageInit /\ [][AgentStageNext]_agentStageVars

(* The container restarts the worker, and no call blocks for ever. *)
AgentStageFairSpec ==
    AgentStageSpec /\ WF_agentStageVars(AgentLocal \/ AgentNotifies)

-----------------------------------------------------------------------------
Acked == 1..agentCursor \ agentPel
Stranded == agentPel \ agent.batch

(* _notify_status: a message is acknowledged with its outcome recorded in   *)
(* raw_events, unless every one of the attempts at it has failed.           *)
AckedIsReported == \A msg \in Acked : msg \in reported \/ faults >= PatchAttempts

(* Nobody reads a pending entry of group:agent again, so every end of the   *)
(* worker loses what it had in hand: one batch, and never more than that.   *)
StrandedIsOneBatchPerFault == Cardinality(Stranded) <= faults * BatchSize

(* The worker keeps up: through failures and restarts, every message of     *)
(* stream:to_agent is in the end read.                                      *)
EventuallyRead == <>[](agentCursor = Len(agentLog))

=============================================================================
