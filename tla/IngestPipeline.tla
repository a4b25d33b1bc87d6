--------------------------- MODULE IngestPipeline ---------------------------
(***************************************************************************)
(* The pipeline from a collected item to its event card: the raw_events    *)
(* store publishes to stream:raw_events, the ingest stage forwards to      *)
(* stream:to_agent, the agent stage stores cards and reports the outcome   *)
(* on the row; the recovery scheduler works on the store and on the ingest *)
(* stage.  The components share the two streams and the fault budget; the  *)
(* agent's status PATCH is a joint step of the agent and the store.        *)
(***************************************************************************)
EXTENDS RawQueue, AgentStage, RawEventStore

pipelineVars == <<streamVars, queueVars, agentVars, storeVars>>

(* Mutant: the id of the raw message is reported as that of the card. *)
ReportOnRawId(msg, outcome) == UpdateStatus(agentLog[msg].row, outcome, agentLog[msg].of)

(* What a PATCH about a message does to its row. *)
ReportOn(msg, outcome) == UpdateStatus(agentLog[msg].row, outcome, msg)

AgentReports ==
    /\ AgentNotifies
    /\ ReportOn(InHand, agent.outcome)
    /\ UNCHANGED <<queueVars, task>>

LateReport(patch) ==
    /\ LatePatchLands(patch)
    /\ ReportOn(patch.msg, patch.outcome)
    /\ UNCHANGED <<queueVars, task>>

AgentAlone == AgentLocal \/ AgentFails \/ \E msg \in latePosts : LatePostLands(msg)

Init == StreamsInit /\ QueueInit /\ AgentInit /\ StoreInit

Next ==
    \/ QueueNext /\ UNCHANGED <<agentVars, storeVars>>
    \/ AgentAlone /\ UNCHANGED <<queueVars, storeVars>>
    \/ StoreNext /\ UNCHANGED <<queueVars, agentVars>>
    \/ AgentReports
    \/ \E patch \in latePatches : LateReport(patch)

(* The fairness of the components: docker-compose.dev.yml restarts both     *)
(* workers and the recovery scheduler when they fail, every client call has *)
(* a timeout, the scheduler ticks for ever, the clock runs.                 *)
Fairness ==
    /\ WF_pipelineVars(WorkerWorks /\ UNCHANGED <<agentVars, storeVars>>)
    /\ WF_pipelineVars(ReaperWorks(Scheduler) /\ UNCHANGED <<agentVars, storeVars>>)
    /\ WF_pipelineVars(\E i \in rawPel : GrowIdle(i) /\ UNCHANGED <<agentVars, storeVars>>)
    /\ WF_pipelineVars(AgentLocal /\ UNCHANGED <<queueVars, storeVars>>)
    /\ WF_pipelineVars(AgentReports)
    /\ \A t \in Tasks :
          WF_pipelineVars(TaskWorks(t) /\ UNCHANGED <<queueVars, agentVars>>)
    /\ WF_pipelineVars(\E t \in Tasks : AutoRequeue(t) /\ UNCHANGED <<queueVars, agentVars>>)
    /\ WF_pipelineVars(\E t \in Tasks : ListStuck(t) /\ UNCHANGED <<queueVars, agentVars>>)
    /\ \A r \in Rows : WF_pipelineVars(Age(r) /\ UNCHANGED <<queueVars, agentVars>>)

Spec == Init /\ [][Next]_pipelineVars
FairSpec == Spec /\ Fairness

-----------------------------------------------------------------------------
TypeOK == StreamsTypeOK /\ QueueTypeOK /\ AgentTypeOK /\ StoreTypeOK

(* Lineage: every agent message was forwarded for a published message of    *)
(* the same row, and a row's event_card_id names a graph run on a message   *)
(* of that very row whose outcome was recorded; a processed row has one.    *)
Lineage ==
    /\ \A k \in AgentIds : /\ agentLog[k].of \in RawIds
                           /\ rawLog[agentLog[k].of].row = agentLog[k].row
    /\ \A r \in Rows :
          LET card == rows[r].card
          IN  /\ rows[r].status = "processed" => card # 0
              /\ card # 0 => /\ card \in reported
                             /\ card <= agentCursor
                             /\ agentLog[card].row = r

(* End to end: a published message that parses is being worked on by the    *)
(* ingest stage, set aside in the dead letter stream, or forwarded as an    *)
(* agent message that waits, is pending, has its outcome recorded in        *)
(* raw_events - or that as many failures as _patch_status has attempts have *)
(* left unreported.                                                         *)
EndToEnd == \A i \in {j \in RawIds : Parses(j)} :
    LET root == rawLog[i].root
        forwards == {k \in AgentIds : rawLog[agentLog[k].of].root = root}
    IN  \/ \E j \in Live \cup dlq : rawLog[j].root = root
        \/ \E k \in forwards : k > agentCursor \/ k \in agentPel \/ k \in reported
        \/ forwards # {} /\ faults >= PatchAttempts

(* Every stored row comes to rest processed or failed, whatever is slow,    *)
(* duplicated or late, except for one that a failure left collected.        *)
RowsTerminate ==
    <>[](\A r \in Rows : \/ rows[r].status \in {"absent", "processed", "failed"}
                         \/ rows[r].status = "collected" /\ faults > 0)

=============================================================================
