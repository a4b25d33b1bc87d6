------------------------ MODULE IngestPipelineProofs ------------------------
(***************************************************************************)
(* What holds of the agent stage, and of the whole pipeline, for every     *)
(* number of rows, messages, requests, reapers and failures.               *)
(*                                                                         *)
(* The pipeline is proved from its components: each of its steps is a step *)
(* of one of them and, to each of the others, something that component's   *)
(* invariant has been shown to survive.                                    *)
(***************************************************************************)
EXTENDS IngestPipeline, RawQueueProofs, RawEventStoreProofs

-----------------------------------------------------------------------------
(* The agent stage.  Where the ids of the group lie, and what the batch in *)
(* hand has to do with the pending entries.                                *)
AgentShape ==
    /\ StreamsTypeOK /\ AgentTypeOK
    /\ agentCursor <= Len(agentLog)
    /\ agentPel \subseteq 1..agentCursor /\ agent.batch \subseteq agentPel
    /\ agent.pc = "free" <=> agent.batch = {}
    /\ Cardinality(agent.batch) <= BatchSize
    /\ reported \subseteq 1..agentCursor
    /\ \A patch \in latePatches : patch.msg \in 1..agentCursor

AgentRecord == [pc : {"free", "graph", "publish", "notify", "ack"}, batch : SUBSET Nat,
                outcome : Outcomes, attempt : 1..PatchAttempts]
USE DEF AgentRecord

(* What the failures so far account for. *)
AckIsReported == agent.pc = "ack" => InHand \in reported \/ faults >= PatchAttempts
AgentCounts ==
    /\ agent.attempt <= faults + 1
    /\ AckIsReported
    /\ StrandedIsOneBatchPerFault
    /\ AckedIsReported

LEMMA AgentParts ==
    ASSUME AgentShape
    PROVE  /\ agentLog \in Seq(AgentEntry) /\ Len(agentLog) \in Nat
           /\ faults \in Nat /\ agentCursor \in Nat /\ BatchSize \in Nat \ {0}
           /\ PatchAttempts \in Nat \ {0} /\ agent.attempt \in 1..PatchAttempts
           /\ agent \in AgentRecord
  BY StreamParts, LenProperties, StreamsAssumption, AgentAssumption
  DEF AgentShape, AgentTypeOK, StreamsTypeOK

LEMMA InHandIsPending ==
    ASSUME AgentShape, agent.pc # "free"
    PROVE  InHand \in agent.batch /\ InHand \in agentPel /\ InHand \in 1..agentCursor
<1>1. agent.batch \in SUBSET Nat /\ agent.batch # {}
  BY AgentParts DEF AgentShape
<1>2. InHand \in agent.batch
  BY <1>1, FirstIsListed DEF InHand
<1> QED
  BY <1>2 DEF AgentShape

LEMMA SetsOfIds ==
    ASSUME AgentShape
    PROVE  IsFiniteSet(agentPel) /\ IsFiniteSet(agent.batch) /\ IsFiniteSet(Stranded)
<1>1. IsFiniteSet(1..agentCursor)
  BY AgentParts, FS_Interval
<1> QED
  BY <1>1, FS_Subset DEF AgentShape, Stranded

(* More failures allow for more batches. *)
LEMMA BatchesGrow ==
    ASSUME NEW m \in Nat, NEW n \in Nat, m <= n, NEW b \in Nat
    PROVE  m * b <= n * b /\ m * b \in Nat /\ n * b \in Nat
<1>1. PICK d \in Nat : n = m + d
  BY n - m \in Nat
<1>2. n * b = m * b + d * b /\ d * b \in Nat /\ m * b \in Nat /\ n * b \in Nat
  BY <1>1
<1> QED
  BY <1>2

LEMMA OneBatchMore ==
    ASSUME NEW m \in Nat, NEW b \in Nat
    PROVE  (m + 1) * b = m * b + b /\ m * b \in Nat
  OBVIOUS

(* The worker between two batches, and with a batch to begin on.           *)
Busy(batch) == [AgentFree EXCEPT !.pc = "graph", !.batch = batch]

LEMMA AgentFreeOK ==
    /\ AgentFree \in AgentRecord
    /\ AgentFree.batch = {} /\ AgentFree.attempt = 1 /\ AgentFree.pc = "free"
<1>1. 1 \in 1..PatchAttempts
  BY AgentAssumption
<1> QED
  BY <1>1 DEF AgentFree, Outcomes

LEMMA BusyOK ==
    ASSUME NEW batch \in SUBSET Nat
    PROVE  /\ Busy(batch) \in AgentRecord
           /\ Busy(batch).batch = batch /\ Busy(batch).attempt = 1
           /\ Busy(batch).pc = "graph"
  BY AgentFreeOK DEF Busy

(* A step that leaves the batch and the pending entries alone.             *)
LEMMA AgentWorksOn ==
    ASSUME AgentShape, AgentCounts, StreamsTypeOK', AgentTypeOK',
           Len(agentLog) <= Len(agentLog'), faults <= faults',
           UNCHANGED <<agentCursor, agentPel>>, agent'.batch = agent.batch,
           agent'.pc = "free" <=> agent.pc = "free",
           agent'.attempt <= faults' + 1, AckIsReported',
           reported \subseteq reported', reported' \subseteq 1..agentCursor,
           \A patch \in latePatches' : patch.msg \in 1..agentCursor
    PROVE  AgentShape' /\ AgentCounts'
<1>1. faults \in Nat /\ faults' \in Nat /\ Len(agentLog) \in Nat /\ Len(agentLog') \in Nat
      /\ BatchSize \in Nat /\ agentCursor \in Nat /\ PatchAttempts \in Nat
  <2>1. faults' \in 0..FaultLimit /\ Len(agentLog') \in Nat
    BY DEF StreamsTypeOK
  <2> QED
    BY <2>1, AgentParts
<1>2. AgentShape'
  BY <1>1 DEF AgentShape
<1>3. Stranded' = Stranded /\ Acked' = Acked
  BY DEF Stranded, Acked
<1>4. Cardinality(Stranded') <= faults' * BatchSize
  <2>1. faults * BatchSize <= faults' * BatchSize
    /\ faults * BatchSize \in Nat /\ faults' * BatchSize \in Nat
    BY <1>1, BatchesGrow
  <2>2. Cardinality(Stranded) \in Nat /\ Cardinality(Stranded) <= faults * BatchSize
    BY SetsOfIds, FS_CardinalityType DEF AgentCounts, StrandedIsOneBatchPerFault
  <2>3. Cardinality(Stranded') = Cardinality(Stranded)
    BY <1>3
  <2> QED
    BY <2>1, <2>2, <2>3
<1>5. AckedIsReported'
  <2>1. faults >= PatchAttempts => faults' >= PatchAttempts
    BY <1>1
  <2>2. AckedIsReported
    BY DEF AgentCounts
  <2> QED
    BY <1>3, <2>1, <2>2 DEF AckedIsReported
<1> QED
  BY <1>2, <1>4, <1>5 DEF AgentCounts, StrandedIsOneBatchPerFault

LEMMA AgentStreams ==
    ASSUME AgentShape, UNCHANGED <<rawLog, agentLog>>, Fault \/ faults' = faults
    PROVE  /\ StreamsTypeOK' /\ Len(agentLog) <= Len(agentLog') /\ faults <= faults'
           /\ Fault => faults' = faults + 1
<1>1. faults' \in 0..FaultLimit /\ faults <= faults'
  BY FaultOK DEF AgentShape
<1> QED
  BY <1>1, AgentParts DEF AgentShape, StreamsTypeOK, Fault

LEMMA RunsStep ==
    ASSUME AgentShape, AgentCounts, AgentRunsGraph
    PROVE  AgentShape' /\ AgentCounts'
<1>1. PICK outcome \in Outcomes :
          agent' = [agent EXCEPT !.outcome = outcome,
                                 !.pc = IF outcome = "processed" THEN "publish" ELSE "notify"]
  BY DEF AgentRunsGraph
<1>2. /\ UNCHANGED <<rawLog, agentLog, agentCursor, agentPel, cards, reported, latePosts, latePatches>>
      /\ faults' = faults /\ agent.pc = "graph"
  BY DEF AgentRunsGraph, streamVars
<1>3. PICK stage \in {"publish", "notify"} :
          agent' = [agent EXCEPT !.outcome = outcome, !.pc = stage]
  BY <1>1
<1>4. /\ agent' \in AgentRecord
      /\ agent'.batch = agent.batch /\ agent'.pc = stage /\ agent'.attempt = agent.attempt
  BY <1>3, AgentParts
<1>5. AgentTypeOK'
  BY <1>2, <1>4 DEF AgentTypeOK, AgentShape
<1>6. AckIsReported'
  BY <1>4 DEF AckIsReported
<1>7. StreamsTypeOK' /\ Len(agentLog) <= Len(agentLog') /\ faults <= faults'
  BY <1>2, AgentStreams
<1>8. agent'.attempt <= faults' + 1
  BY <1>2, <1>4 DEF AgentCounts
<1> QED
  BY <1>2, <1>4, <1>5, <1>6, <1>7, <1>8, AgentWorksOn DEF AgentShape

LEMMA PublishesStep ==
    ASSUME AgentShape, AgentCounts, AgentPublishes \/ AgentPublishFails
    PROVE  AgentShape' /\ AgentCounts'
<1>1. /\ UNCHANGED <<rawLog, agentLog, agentCursor, agentPel, reported, latePatches>>
      /\ Fault \/ faults' = faults
      /\ agent.pc = "publish" /\ agent' = [agent EXCEPT !.pc = "notify"]
  BY DEF AgentPublishes, AgentPublishFails, AgentGoto, streamVars
<1>2. InHand \in Nat
  BY <1>1, InHandIsPending, AgentParts DEF AgentShape
<1>3. cards' \subseteq Nat /\ latePosts' \subseteq Nat
  BY <1>2 DEF AgentPublishes, AgentPublishFails, AgentShape, AgentTypeOK
<1>4. /\ agent' \in AgentRecord
      /\ agent'.batch = agent.batch /\ agent'.pc = "notify" /\ agent'.attempt = agent.attempt
  BY <1>1, AgentParts
<1>5. AgentTypeOK'
  BY <1>1, <1>3, <1>4 DEF AgentTypeOK, AgentShape
<1>6. AckIsReported'
  BY <1>4 DEF AckIsReported
<1>7. StreamsTypeOK' /\ Len(agentLog) <= Len(agentLog') /\ faults <= faults'
  BY <1>1, AgentStreams
<1>8. agent'.attempt <= faults' + 1
  <2>1. faults' \in Nat /\ agent.attempt <= faults + 1
    BY <1>7 DEF AgentCounts, StreamsTypeOK
  <2> QED
    BY <1>4, <1>7, <2>1, AgentParts
<1> QED
  BY <1>1, <1>4, <1>5, <1>6, <1>7, <1>8, AgentWorksOn DEF AgentShape

LEMMA NotifiesStep ==
    ASSUME AgentShape, AgentCounts, AgentNotifies
    PROVE  AgentShape' /\ AgentCounts'
<1>1. /\ UNCHANGED <<rawLog, agentLog, agentCursor, agentPel, cards, latePosts, latePatches>>
      /\ faults' = faults /\ reported' = reported \cup {InHand}
      /\ agent.pc = "notify" /\ agent' = [agent EXCEPT !.pc = "ack"]
  BY DEF AgentNotifies, AgentGoto, Record, streamVars
<1>2. InHand \in 1..agentCursor /\ InHand \in Nat
  BY <1>1, InHandIsPending, AgentParts
<1>3. /\ agent' \in AgentRecord
      /\ agent'.batch = agent.batch /\ agent'.pc = "ack" /\ agent'.attempt = agent.attempt
  BY <1>1, AgentParts
<1>4. AgentTypeOK'
  BY <1>1, <1>2, <1>3 DEF AgentTypeOK, AgentShape
<1>5. InHand' = InHand
  BY <1>3 DEF InHand
<1>6. AckIsReported'
  BY <1>1, <1>5 DEF AckIsReported
<1>7. StreamsTypeOK' /\ Len(agentLog) <= Len(agentLog') /\ faults <= faults'
  BY <1>1, AgentStreams
<1>8. agent'.attempt <= faults' + 1
  BY <1>1, <1>3 DEF AgentCounts
<1> QED
  BY <1>1, <1>2, <1>3, <1>4, <1>6, <1>7, <1>8, AgentWorksOn DEF AgentShape

LEMMA NotifyFailsStep ==
    ASSUME AgentShape, AgentCounts, AgentNotifyFails
    PROVE  AgentShape' /\ AgentCounts'
<1>1. /\ UNCHANGED <<rawLog, agentLog, agentCursor, agentPel, cards, reported, latePosts>>
      /\ Fault /\ agent.pc = "notify"
  BY DEF AgentNotifyFails
<1>2. InHand \in 1..agentCursor /\ InHand \in Nat
  BY <1>1, InHandIsPending, AgentParts
<1>3. PICK patch : /\ patch = [msg |-> InHand, outcome |-> agent.outcome, attempt |-> agent.attempt]
                   /\ latePatches' \subseteq latePatches \cup {patch}
  BY DEF AgentNotifyFails
<1>4. patch \in Patch /\ patch.msg = InHand
  BY <1>2, <1>3, AgentParts DEF Patch
<1>5. /\ latePatches' \subseteq Patch
      /\ \A other \in latePatches' : other.msg \in 1..agentCursor
  BY <1>2, <1>3, <1>4 DEF AgentShape, AgentTypeOK
<1>6. StreamsTypeOK' /\ Len(agentLog) <= Len(agentLog') /\ faults <= faults' /\ faults' = faults + 1
  BY <1>1, AgentStreams
<1>7. /\ agent' \in AgentRecord
      /\ agent'.batch = agent.batch /\ agent'.pc # "free" /\ agent'.attempt <= faults' + 1
      /\ agent'.pc = "ack" => faults' >= PatchAttempts
  <2>1. agent.attempt <= faults + 1
    BY DEF AgentCounts
  <2>2. CASE agent.attempt = PatchAttempts
    <3>1. agent' = [agent EXCEPT !.pc = "ack"]
      BY <2>2 DEF AgentNotifyFails
    <3>2. agent'.batch = agent.batch /\ agent'.attempt = agent.attempt /\ agent'.pc = "ack"
      BY <3>1, AgentParts
    <3>3. agent'.attempt <= faults' + 1 /\ faults' >= PatchAttempts
      BY <1>6, <2>1, <2>2, <3>2, AgentParts
    <3> QED
      BY <3>1, <3>2, <3>3, AgentParts
  <2>3. CASE agent.attempt # PatchAttempts
    <3>1. agent' = [agent EXCEPT !.attempt = agent.attempt + 1]
      BY <2>3 DEF AgentNotifyFails
    <3>2. agent.attempt + 1 \in 1..PatchAttempts
      BY <2>3, AgentParts
    <3>3. /\ agent'.batch = agent.batch /\ agent'.attempt = agent.attempt + 1
          /\ agent'.pc = "notify"
      BY <1>1, <3>1, AgentParts
    <3>4. agent'.attempt <= faults' + 1
      BY <1>6, <2>1, <3>3, AgentParts
    <3> QED
      BY <3>1, <3>2, <3>3, <3>4, AgentParts
  <2> QED
    BY <2>2, <2>3
<1>8. AgentTypeOK'
  BY <1>1, <1>5, <1>7 DEF AgentTypeOK, AgentShape
<1>9. AckIsReported'
  BY <1>7 DEF AckIsReported
<1> QED
  BY <1>1, <1>5, <1>6, <1>7, <1>8, <1>9, AgentWorksOn DEF AgentShape

LEMMA LateStep ==
    ASSUME AgentShape, AgentCounts,
           \/ \E msg \in latePosts : LatePostLands(msg)
           \/ \E patch \in latePatches : LatePatchLands(patch)
    PROVE  AgentShape' /\ AgentCounts'
<1> DEFINE Lands == /\ UNCHANGED <<rawLog, agentLog, agentCursor, agentPel, agent>>
                    /\ faults' = faults
                    /\ cards' \subseteq Nat /\ latePosts' \subseteq Nat
                    /\ latePatches' \subseteq latePatches
                    /\ reported \subseteq reported' /\ reported' \subseteq 1..agentCursor
<1>1. Lands
  <2>1. ASSUME NEW msg \in latePosts, LatePostLands(msg) PROVE Lands
    BY <2>1 DEF LatePostLands, streamVars, AgentShape, AgentTypeOK
  <2>2. ASSUME NEW patch \in latePatches, LatePatchLands(patch) PROVE Lands
    BY <2>2 DEF LatePatchLands, Record, streamVars, AgentShape, AgentTypeOK
  <2> QED
    BY <2>1, <2>2
<1>2. AgentTypeOK'
  BY <1>1, AgentParts DEF AgentTypeOK, AgentShape
<1>3. InHand' = InHand
  BY <1>1 DEF InHand
<1>4. AckIsReported' /\ agent'.attempt <= faults' + 1
  BY <1>1, <1>3 DEF AckIsReported, AgentCounts
<1>5. StreamsTypeOK' /\ Len(agentLog) <= Len(agentLog') /\ faults <= faults'
  BY <1>1, AgentStreams
<1> QED
  BY <1>1, <1>2, <1>4, <1>5, AgentWorksOn DEF AgentShape

(* A new batch: nothing is in hand before, and none of it is pending yet.  *)
LEMMA AgentReadStep ==
    ASSUME AgentShape, AgentCounts, AgentRead
    PROVE  AgentShape' /\ AgentCounts'
<1>1. PICK last : last = LastRead(agentLog, agentCursor)
  OBVIOUS
<1>2. PICK new : new = agentCursor + 1 .. last
  OBVIOUS
<1>3. /\ UNCHANGED <<rawLog, agentLog, cards, reported, latePosts, latePatches>>
      /\ faults' = faults /\ agent.pc = "free" /\ agentCursor < Len(agentLog)
      /\ agentCursor' = last /\ agentPel' = agentPel \cup new
      /\ agent' = [AgentFree EXCEPT !.pc = "graph", !.batch = new]
  BY <1>1, <1>2 DEF AgentRead, streamVars
<1>4. /\ last \in Nat /\ agentCursor < last /\ last <= Len(agentLog)
      /\ last - agentCursor <= BatchSize
  BY <1>1, <1>3, AgentParts DEF LastRead
<1>5. /\ new \subseteq 1..last /\ new # {} /\ new \subseteq Nat
      /\ new \cap (1..agentCursor) = {} /\ 1..last = (1..agentCursor) \cup new
  <2>1. last \in new
    BY <1>2, <1>4, AgentParts
  <2> QED
    BY <1>2, <1>4, <2>1, AgentParts
<1>6. Cardinality(new) <= BatchSize
  <2>1. Cardinality(new) = last - (agentCursor + 1) + 1
    BY <1>2, <1>4, AgentParts, FS_Interval
  <2> QED
    BY <1>4, <2>1, AgentParts
<1>7. /\ agent' \in AgentRecord
      /\ agent'.pc = "graph" /\ agent'.batch = new /\ agent'.attempt = 1
  BY <1>3, <1>5, BusyOK DEF Busy
<1>8. AgentTypeOK'
  BY <1>3, <1>4, <1>5, <1>7, AgentParts DEF AgentTypeOK, AgentShape
<1>9. AgentShape'
  <2>1. StreamsTypeOK' /\ agentCursor' <= Len(agentLog')
    BY <1>3, <1>4, AgentStreams
  <2>2. agentPel' \subseteq 1..agentCursor' /\ agent'.batch \subseteq agentPel'
    BY <1>3, <1>5, <1>7 DEF AgentShape
  <2>3. 1..agentCursor \subseteq 1..agentCursor'
    BY <1>3, <1>5
  <2> QED
    BY <1>3, <1>5, <1>6, <1>7, <1>8, <2>1, <2>2, <2>3 DEF AgentShape
<1>10. Stranded' = Stranded /\ Acked' = Acked
  <2>1. agent.batch = {} /\ agentPel \subseteq 1..agentCursor
    BY <1>3 DEF AgentShape
  <2> QED
    BY <1>3, <1>5, <1>7, <2>1 DEF Stranded, Acked
<1>11. agent'.attempt <= faults' + 1 /\ AckIsReported'
  BY <1>3, <1>7, AgentParts DEF AckIsReported
<1>12. AckedIsReported' /\ StrandedIsOneBatchPerFault'
  BY <1>3, <1>10 DEF AgentCounts, AckedIsReported, StrandedIsOneBatchPerFault
<1> QED
  BY <1>9, <1>11, <1>12 DEF AgentCounts

(* On to the next message of the batch, acknowledged: nothing is stranded. *)
LEMMA AgentAcksStep ==
    ASSUME AgentShape, AgentCounts, AgentAcks
    PROVE  AgentShape' /\ AgentCounts'
<1>1. /\ UNCHANGED <<rawLog, agentLog, agentCursor, cards, reported, latePosts, latePatches>>
      /\ faults' = faults /\ agent.pc = "ack" /\ agentPel' = agentPel \ {InHand}
  BY DEF AgentAcks, streamVars
<1>2. InHand \in agent.batch /\ agent.batch \subseteq agentPel /\ agent.batch \subseteq Nat
  BY <1>1, InHandIsPending, AgentParts DEF AgentShape
<1>3. PICK rest : rest = agent.batch \ {InHand}
  OBVIOUS
<1>4. agent' = IF rest = {} THEN AgentFree ELSE [AgentFree EXCEPT !.pc = "graph", !.batch = rest]
  BY <1>3 DEF AgentAcks, AgentAdvance
<1>5. /\ agent' \in AgentRecord
      /\ agent'.batch = rest /\ agent'.attempt = 1
      /\ agent'.pc # "ack" /\ (agent'.pc = "free" <=> rest = {})
  BY <1>2, <1>3, <1>4, AgentFreeOK, BusyOK DEF Busy
<1>6. AgentTypeOK'
  BY <1>1, <1>5 DEF AgentTypeOK, AgentShape
<1>7. Cardinality(rest) <= BatchSize
  <2>1. Cardinality(rest) \in Nat /\ Cardinality(rest) <= Cardinality(agent.batch)
        /\ Cardinality(agent.batch) \in Nat
    BY <1>3, SetsOfIds, FS_Subset, FS_CardinalityType
  <2> QED
    BY <2>1, AgentParts DEF AgentShape
<1>8. AgentShape'
  <2>1. StreamsTypeOK'
    BY <1>1, AgentStreams
  <2>2. agentPel' \subseteq 1..agentCursor' /\ agent'.batch \subseteq agentPel'
    BY <1>1, <1>2, <1>3, <1>5 DEF AgentShape
  <2> QED
    BY <1>1, <1>5, <1>6, <1>7, <2>1, <2>2 DEF AgentShape
<1>9. Stranded' = Stranded /\ Acked' \subseteq Acked \cup {InHand}
  BY <1>1, <1>2, <1>3, <1>5 DEF Stranded, Acked
<1>10. agent'.attempt <= faults' + 1 /\ AckIsReported'
  BY <1>1, <1>5, AgentParts DEF AckIsReported
<1>11. AckedIsReported' /\ StrandedIsOneBatchPerFault'
  BY <1>1, <1>9 DEF AgentCounts, AckIsReported, AckedIsReported, StrandedIsOneBatchPerFault
<1> QED
  BY <1>8, <1>10, <1>11 DEF AgentCounts

(* The process ends: the batch in hand is stranded, and a failure counted. *)
LEMMA AgentEndsStep ==
    ASSUME AgentShape, AgentCounts, AgentAckFails \/ AgentCrashes
    PROVE  AgentShape' /\ AgentCounts'
<1>1. /\ UNCHANGED <<rawLog, agentLog, agentCursor, cards, reported, latePosts, latePatches>>
      /\ Fault /\ agent.pc # "free" /\ agent' = AgentFree
      /\ \/ agentPel' = agentPel
         \/ agentPel' = agentPel \ {InHand} /\ agent.pc = "ack"
  BY DEF AgentAckFails, AgentCrashes
<1>2. /\ agent' \in AgentRecord
      /\ agent'.batch = {} /\ agent'.attempt = 1 /\ agent'.pc = "free"
  BY <1>1, AgentFreeOK
<1>3. StreamsTypeOK' /\ faults' = faults + 1
  BY <1>1, AgentStreams
<1>4. AgentShape'
  <2>1. AgentTypeOK'
    BY <1>1, <1>2 DEF AgentTypeOK, AgentShape
  <2>2. agentPel' \subseteq 1..agentCursor' /\ agent'.batch \subseteq agentPel'
    BY <1>1, <1>2 DEF AgentShape
  <2>3. Cardinality(agent'.batch) = 0
    BY <1>2, FS_EmptySet
  <2> QED
    BY <1>1, <1>2, <1>3, <2>1, <2>2, <2>3, AgentParts DEF AgentShape
<1>5. StrandedIsOneBatchPerFault'
  <2>1. Stranded' \subseteq Stranded \cup agent.batch
    BY <1>1, <1>2 DEF Stranded
  <2>2. /\ IsFiniteSet(Stranded \cup agent.batch)
        /\ Cardinality(Stranded \cup agent.batch)
             = Cardinality(Stranded) + Cardinality(agent.batch) - Cardinality(Stranded \cap agent.batch)
    BY SetsOfIds, FS_Union
  <2>3. Stranded \cap agent.batch = {} /\ Cardinality({}) = 0
    BY FS_EmptySet DEF Stranded
  <2>4. Cardinality(Stranded') <= Cardinality(Stranded) + Cardinality(agent.batch)
    /\ Cardinality(Stranded') \in Nat
    <3>1. Cardinality(Stranded) \in Nat /\ Cardinality(agent.batch) \in Nat
      BY SetsOfIds, FS_CardinalityType
    <3>2. /\ Cardinality(Stranded') <= Cardinality(Stranded \cup agent.batch)
          /\ Cardinality(Stranded') \in Nat
      BY <2>1, <2>2, FS_Subset, FS_CardinalityType
    <3> QED
      BY <2>2, <2>3, <3>1, <3>2
  <2>5. /\ Cardinality(Stranded) <= faults * BatchSize /\ Cardinality(Stranded) \in Nat
        /\ Cardinality(agent.batch) <= BatchSize /\ Cardinality(agent.batch) \in Nat
    BY SetsOfIds, FS_CardinalityType DEF AgentCounts, AgentShape, StrandedIsOneBatchPerFault
  <2>6. PICK m \in Nat : m = faults * BatchSize /\ (faults + 1) * BatchSize = m + BatchSize
    BY AgentParts, OneBatchMore
  <2>7. Cardinality(Stranded') <= m + BatchSize
    BY <2>4, <2>5, <2>6, AgentParts
  <2> QED
    BY <1>3, <2>6, <2>7 DEF StrandedIsOneBatchPerFault
<1>6. AckedIsReported'
  <2>1. Acked' \subseteq Acked \/ (agent.pc = "ack" /\ Acked' \subseteq Acked \cup {InHand})
    BY <1>1 DEF Acked
  <2>2. \A msg \in Acked' : msg \in reported \/ faults >= PatchAttempts
    BY <2>1 DEF AgentCounts, AckIsReported, AckedIsReported
  <2> QED
    BY <1>1, <1>3, <2>2, AgentParts DEF AckedIsReported
<1>7. agent'.attempt <= faults' + 1 /\ AckIsReported'
  BY <1>2, <1>3, AgentParts DEF AckIsReported
<1> QED
  BY <1>4, <1>5, <1>6, <1>7 DEF AgentCounts

-----------------------------------------------------------------------------
(* A step of the stage, or one that others take: they forward messages and *)
(* fail.                                                                   *)
AgentElsewhere ==
    /\ UNCHANGED agentVars /\ StreamsTypeOK'
    /\ Len(agentLog) <= Len(agentLog') /\ faults <= faults'
AgentStep ==
    \/ AgentLocal \/ AgentNotifies \/ AgentFails
    \/ \E msg \in latePosts : LatePostLands(msg)
    \/ \E patch \in latePatches : LatePatchLands(patch)
    \/ AgentElsewhere

LEMMA AgentElsewhereStep ==
    ASSUME AgentShape, AgentCounts, AgentElsewhere
    PROVE  AgentShape' /\ AgentCounts'
<1>1. UNCHANGED <<agentCursor, agentPel, agent, cards, reported, latePosts, latePatches>>
  BY DEF AgentElsewhere, agentVars
<1>2. AgentTypeOK' /\ InHand' = InHand
  BY <1>1 DEF AgentTypeOK, AgentShape, InHand
<1>3. agent.attempt <= faults' + 1 /\ AckIsReported'
  <2>1. faults' \in Nat /\ faults \in Nat /\ faults <= faults'
    BY AgentParts DEF AgentElsewhere, StreamsTypeOK
  <2>2. agent.attempt <= faults + 1 /\ AckIsReported
    BY DEF AgentCounts
  <2> QED
    BY <1>1, <1>2, <2>1, <2>2, AgentParts DEF AckIsReported
<1> QED
  BY <1>1, <1>2, <1>3, AgentWorksOn DEF AgentElsewhere, AgentShape

LEMMA AgentStepIsGood ==
    ASSUME AgentShape, AgentCounts, AgentStep
    PROVE  AgentShape' /\ AgentCounts'
  BY AgentReadStep, RunsStep, PublishesStep, NotifiesStep, NotifyFailsStep, AgentAcksStep,
     AgentEndsStep, LateStep, AgentElsewhereStep
  DEF AgentStep, AgentLocal, AgentFails

LEMMA AgentStarts == StreamsInit /\ AgentInit => AgentShape /\ AgentCounts
<1> SUFFICES ASSUME StreamsInit, AgentInit PROVE AgentShape /\ AgentCounts
  OBVIOUS
<1>1. StreamsTypeOK /\ Len(agentLog) = 0 /\ faults = 0
  BY StreamsAssumption DEF StreamsInit, StreamsTypeOK
<1>2. /\ agent.pc = "free" /\ agent.batch = {} /\ agent.attempt = 1
      /\ AgentTypeOK /\ agentCursor = 0 /\ agentPel = {} /\ reported = {} /\ latePatches = {}
  BY AgentFreeOK DEF AgentInit, AgentTypeOK
<1>3. Stranded = {} /\ Acked = {} /\ Cardinality({}) = 0
  BY <1>2, FS_EmptySet DEF Stranded, Acked
<1>4. AgentShape
  BY <1>1, <1>2, <1>3, StreamsAssumption DEF AgentShape
<1>5. StrandedIsOneBatchPerFault
  BY <1>1, <1>3, StreamsAssumption DEF StrandedIsOneBatchPerFault
<1> QED
  BY <1>1, <1>2, <1>3, <1>4, <1>5 DEF AgentCounts, AckIsReported, AckedIsReported

LEMMA AgentSteps ==
    ASSUME AgentShape, [AgentStageNext]_agentStageVars
    PROVE  AgentStep
<1>1. CASE UNCHANGED agentStageVars
  BY <1>1, AgentParts DEF AgentStep, AgentElsewhere, agentStageVars, streamVars, agentVars,
     AgentShape, StreamsTypeOK
<1>2. ASSUME NEW r \in Rows, Arrive(r) PROVE AgentElsewhere
  <2>1. [row |-> r, of |-> 0] \in AgentEntry
    BY DEF AgentEntry
  <2>2. agentLog' \in Seq(AgentEntry) /\ Len(agentLog') = Len(agentLog) + 1
    BY <1>2, <2>1, AppendProperties, AgentParts DEF Arrive
  <2> QED
    BY <1>2, <2>2, AgentParts
    DEF Arrive, agentVars, AgentElsewhere, AgentShape, StreamsTypeOK
<1> QED
  BY <1>1, <1>2 DEF AgentStageNext, AgentStep

LEMMA AgentAlways == AgentStageSpec => [](AgentShape /\ AgentCounts)
<1>1. AgentStageInit => AgentShape /\ AgentCounts
  BY AgentStarts DEF AgentStageInit
<1>2. AgentShape /\ AgentCounts /\ [AgentStageNext]_agentStageVars
      => (AgentShape /\ AgentCounts)'
  BY AgentSteps, AgentStepIsGood
<1> QED
  BY <1>1, <1>2, PTL DEF AgentStageSpec

(* _notify_status of agent_worker.py: whatever fails, crashes or arrives   *)
(* late, a message is acknowledged only with its outcome recorded, or with *)
(* every attempt at that failed.                                           *)
THEOREM AckedIsAlwaysReported == AgentStageSpec => []AckedIsReported
<1>1. AgentShape /\ AgentCounts => AckedIsReported
  BY DEF AgentCounts
<1> QED
  BY <1>1, AgentAlways, PTL

(* Nobody reclaims the pending entries of group:agent: every end of the    *)
(* worker strands what it had in hand, and nothing else ever does.         *)
THEOREM StrandedIsBounded == AgentStageSpec => []StrandedIsOneBatchPerFault
<1>1. AgentShape /\ AgentCounts => StrandedIsOneBatchPerFault
  BY DEF AgentCounts
<1> QED
  BY <1>1, AgentAlways, PTL

-----------------------------------------------------------------------------
(* The pipeline.  Its invariant is that of the components and lineage.     *)
LinkedForwards == \A k \in AgentIds : rawLog[agentLog[k].of].row = agentLog[k].row
CardsKnown == \A r \in Rows :
    /\ rows[r].status = "processed" => rows[r].card # 0
    /\ rows[r].card # 0 => /\ rows[r].card \in reported
                           /\ rows[r].card <= agentCursor
                           /\ agentLog[rows[r].card].row = r

PipelineInv ==
    /\ QueueInv
    /\ StoreShape /\ StoreSound /\ CollectedIsUnderWay
    /\ AgentShape /\ AgentCounts
    /\ LinkedForwards /\ CardsKnown

(* What the ingest stage does to the others: it publishes copies of entries,*)
(* forwards messages and fails.                                            *)
LEMMA StageFails == QueueNext => Fault \/ faults' = faults
  BY DEF QueueNext, WorkerWorks, ReaperWorks, QueueFails, WorkerRead, WorkerProcess, WorkerAck,
     Route, RouteAck, ReaperClaim, WorkerProcessFails, WorkerAckFails, RouteFails,
     RouteAckFails, Crash, GrowIdle, streamVars

LEMMA StageKeepsRows ==
    ASSUME Shape, QueueNext, rows' = rows, \A i \in RawIds : rawLog[i].row \in Stored
    PROVE  (\A i \in RawIds : rawLog[i].row \in Stored)'
<1>1. Stored' = Stored
  BY DEF Stored
<1>2. CASE rawLog' = rawLog
  BY <1>1, <1>2 DEF RawIds
<1>3. ASSUME NEW i \in RawIds, rawLog' = Append(rawLog, Copy(i))
      PROVE  (\A j \in RawIds : rawLog[j].row \in Stored)'
  <2>1. PICK n : n = Len(rawLog) + 1
    OBVIOUS
  <2>2. /\ Len(rawLog') = n /\ rawLog'[n] = Copy(i)
        /\ \A j \in RawIds : rawLog'[j] = rawLog[j]
    BY <1>3, <2>1, CopyIsEntry, RawAppend
  <2>3. RawIds' = RawIds \cup {n}
    BY <2>1, <2>2, ShapeParts DEF RawIds
  <2>4. rawLog'[n].row \in Stored
    BY <1>3, <2>2 DEF Copy
  <2> QED
    BY <1>1, <2>2, <2>3, <2>4
<1> QED
  BY <1>2, <1>3, KindOfNext DEF StageKinds, Preserve, Retry, Bury

LEMMA LinkedStep ==
    ASSUME Shape, ForwardsKnown, LinkedForwards, QueueStep
    PROVE  LinkedForwards'
<1>1. Shape' /\ Grows /\ Len(agentLog) \in Nat
  BY ShapeStep, ShapeParts
<1>2. CASE UNCHANGED agentLog
  BY <1>1, <1>2 DEF ForwardsKnown, LinkedForwards, AgentIds, Grows
<1>3. ASSUME NEW i \in RawIds, Forward(i) PROVE LinkedForwards'
  <2>1. PICK n \in Nat : n = Len(agentLog) + 1
    BY <1>1
  <2>2. /\ AgentIds' = AgentIds \cup {n}
        /\ agentLog'[n].of = i /\ agentLog'[n].row = rawLog[i].row
    BY <1>1, <1>3, <2>1, ForwardAppends DEF AgentIds
  <2>3. \A k \in AgentIds : agentLog'[k] = agentLog[k]
    BY <1>1 DEF Grows
  <2> QED
    BY <1>1, <2>2, <2>3 DEF ForwardsKnown, LinkedForwards, Grows
<1> QED
  BY <1>2, <1>3, KindOfStep DEF StepKinds, StageKinds

(* What the store does to the others: it publishes and fails.              *)
LEMMA StorePublishes ==
    ASSUME StoreShape, StoreSound, StoreNext
    PROVE  UNCHANGED agentLog /\ (UNCHANGED rawLog \/ Published)
<1> DEFINE Goal == UNCHANGED agentLog /\ (UNCHANGED rawLog \/ Published)
<1>1. ASSUME NEW t \in Tasks,
             CreateXadd(t) \/ RequeueXadd(t) \/ CreateXaddFails(t) \/ RequeueXaddFails(t)
      PROVE  Goal
  <2>1. task[t].row \subseteq Rows
    BY TaskType DEF StoreShape
  <2> QED
    BY <1>1, <2>1 DEF CreateXadd, RequeueXadd, CreateXaddFails, RequeueXaddFails,
       EnqueueRawEvent, Published, Origins
<1>2. ASSUME NEW t \in Tasks,
             \/ CreateMark(t) \/ CreateMarkFailed(t) \/ AutoNext(t) \/ RequeueMark(t)
             \/ MarkStuck(t) \/ CreateMarkFails(t) \/ CreateMarkFailedFails(t)
             \/ RequeueMarkFails(t) \/ MarkStuckFails(t) \/ SelectFails(t) \/ Recover(t)
      PROVE  Goal
  BY <1>2 DEF CreateMark, CreateMarkFailed, AutoNext, RequeueMark, MarkStuck, CreateMarkFails,
     CreateMarkFailedFails, RequeueMarkFails, MarkStuckFails, SelectFails, Recover,
     AutoRequeue, ListStuck, ReadForRequeue, streamVars
<1>3. ASSUME NEW t \in Tasks, NEW r \in Rows, InsertRow(t, r) \/ RequeueByHand(t, r)
      PROVE  Goal
  BY <1>3 DEF InsertRow, RequeueByHand, ReadForRequeue, streamVars
<1>4. (\E r \in Rows : Age(r)) \/ BackendCrashes => Goal
  BY DEF Age, BackendCrashes, streamVars
<1> QED
  BY <1>1, <1>2, <1>3, <1>4 DEF StoreNext, TaskWorks, TaskFails

(* A request of the backend links no card and reports no row processed.    *)
SameCards == \A r \in Rows : /\ rows'[r].card = rows[r].card
                             /\ rows'[r].status = "processed" => rows[r].status = "processed"

LEMMA StoreKeepsCards ==
    ASSUME StoreShape, StoreSound, StoreNext
    PROVE  SameCards
<1>1. ASSUME NEW t \in Tasks,
             \/ MarkEnqueued(t) \/ MarkXaddFailed(t) \/ MarkRequeued(t) \/ FailStuck(t)
      PROVE  SameCards
  BY <1>1, MarkEnqueuedOK, MarkXaddFailedOK, MarkRequeuedOK, FailStuckOK
  DEF StoreShape, RowsBut, Enqueued, FailedNow, SameCards
<1>2. rows' = rows => SameCards
  BY DEF SameCards
<1>3. ASSUME NEW t \in Tasks, TaskWorks(t) \/ TaskFails(t) \/ Recover(t) PROVE SameCards
  BY <1>1, <1>2, <1>3 DEF TaskWorks, TaskFails, Recover, CreateXadd, RequeueXadd,
     CreateXaddFails, RequeueXaddFails, CreateMark, CreateMarkFailed, AutoNext, RequeueMark,
     MarkStuck, CreateMarkFails, CreateMarkFailedFails, RequeueMarkFails, MarkStuckFails,
     SelectFails, AutoRequeue, ListStuck, ReadForRequeue, MaybeApplied
<1>4. ASSUME NEW t \in Tasks, NEW r \in Rows, InsertRow(t, r) PROVE SameCards
  <2>1. rows' = [rows EXCEPT ![r].status = "collected"] /\ rows \in [Rows -> Row]
    BY <1>4 DEF InsertRow, StoreShape, StoreTypeOK
  <2> QED
    BY <2>1 DEF Row, SameCards
<1>5. ASSUME NEW r \in Rows, Age(r) PROVE SameCards
  <2>1. rows' = [rows EXCEPT ![r].aged = TRUE] /\ rows \in [Rows -> Row]
    BY <1>5 DEF Age, StoreShape, StoreTypeOK
  <2> QED
    BY <2>1 DEF Row, SameCards
<1>6. ASSUME NEW t \in Tasks, NEW r \in Rows, RequeueByHand(t, r) PROVE SameCards
  BY <1>2, <1>6 DEF RequeueByHand, ReadForRequeue
<1>7. BackendCrashes => SameCards
  BY <1>2 DEF BackendCrashes
<1> QED
  BY <1>3, <1>4, <1>5, <1>6, <1>7 DEF StoreNext

(* What the agent stage does to the others: its streams do not move.       *)
LEMMA AgentMoves ==
    ASSUME AgentShape, AgentAlone \/ AgentNotifies \/ \E patch \in latePatches : LatePatchLands(patch)
    PROVE  /\ UNCHANGED <<rawLog, agentLog>> /\ (Fault \/ faults' = faults)
           /\ AgentStep
<1>1. UNCHANGED <<rawLog, agentLog>> /\ (Fault \/ faults' = faults)
  BY DEF AgentAlone, AgentLocal, AgentFails, AgentRead, AgentRunsGraph, AgentPublishes, AgentAcks,
     AgentPublishFails, AgentNotifyFails, AgentAckFails, AgentCrashes, LatePostLands,
     AgentNotifies, LatePatchLands, streamVars
<1> QED
  BY <1>1 DEF AgentAlone, AgentStep

LEMMA AgentGrows ==
    ASSUME AgentShape, AgentStep
    PROVE  reported \subseteq reported' /\ agentCursor <= agentCursor'
<1>1. agentCursor \in Nat
  BY AgentParts
<1>2. CASE AgentRead
  <2>1. reported' = reported /\ agentCursor' = LastRead(agentLog, agentCursor)
    BY <1>2 DEF AgentRead
  <2> QED
    BY <1>2, <2>1, AgentParts DEF AgentRead, LastRead
<1>3. CASE AgentElsewhere
  BY <1>1, <1>3 DEF AgentElsewhere, agentVars
<1>4. CASE \/ AgentRunsGraph \/ AgentPublishes \/ AgentAcks \/ AgentNotifies \/ AgentFails
           \/ \E msg \in latePosts : LatePostLands(msg)
           \/ \E patch \in latePatches : LatePatchLands(patch)
  <2>1. agentCursor' = agentCursor /\ reported \subseteq reported'
    BY <1>4 DEF AgentRunsGraph, AgentPublishes, AgentAcks, AgentNotifies, AgentFails,
       AgentPublishFails, AgentNotifyFails, AgentAckFails, AgentCrashes, LatePostLands,
       LatePatchLands, Record
  <2> QED
    BY <1>1, <2>1
<1> QED
  BY <1>2, <1>3, <1>4 DEF AgentStep, AgentLocal

(* A report is about a message whose row has been published.               *)
LEMMA ReportIsPatch ==
    ASSUME PipelineInv, NEW msg \in 1..agentCursor, NEW outcome \in Outcomes,
           ReportOn(msg, outcome), UNCHANGED <<streamVars, task>>
    PROVE  Patched /\ agentLog[msg].row \in Rows /\ msg \in Nat \ {0}
<1>1. msg \in AgentIds /\ msg \in Nat \ {0}
  BY AgentParts DEF PipelineInv, AgentShape, AgentIds
<1>2. agentLog[msg] \in AgentEntry
  BY <1>1, AgentParts, ElementOfSeq DEF PipelineInv, AgentIds
<1>3. agentLog[msg].row \in Rows
  BY <1>2 DEF AgentEntry
<1>4. /\ agentLog[msg].of \in RawIds
      /\ rawLog[agentLog[msg].of].row = agentLog[msg].row
  BY <1>1 DEF PipelineInv, QueueInv, ForwardsKnown, LinkedForwards
<1> QED
  BY <1>1, <1>3, <1>4 DEF ReportOn, Patched, Outcomes

(* What a step of the pipeline is to each of the components.               *)
Parts == QueueStep /\ StoreStep /\ AgentStep

LEMMA StageParts ==
    ASSUME PipelineInv, QueueNext, UNCHANGED <<agentVars, storeVars>>
    PROVE  Parts
<1>1. Shape' /\ Grows
  BY ShapeStep DEF PipelineInv, QueueInv, QueueStep
<1>2. StreamsTypeOK' /\ faults <= faults'
  BY <1>1, StageFails, FaultOK DEF Shape, PipelineInv, StoreShape
<1>3. (\A i \in RawIds : rawLog[i].row \in Stored)'
  BY StageKeepsRows DEF PipelineInv, QueueInv, StoreSound, storeVars
<1> QED
  BY <1>1, <1>2, <1>3
  DEF Parts, QueueStep, StoreStep, AgentStep, Elsewhere, AgentElsewhere, Grows

LEMMA AgentAloneParts ==
    ASSUME PipelineInv, AgentAlone, UNCHANGED <<queueVars, storeVars>>
    PROVE  Parts
<1>1. UNCHANGED <<rawLog, agentLog>> /\ (Fault \/ faults' = faults) /\ AgentStep
  BY AgentMoves DEF PipelineInv
<1>2. StreamsTypeOK' /\ faults <= faults' /\ faults' \in 0..FaultLimit
  BY <1>1, AgentStreams DEF PipelineInv, StreamsTypeOK
<1>3. (\A i \in RawIds : rawLog[i].row \in Stored)' /\ Len(rawLog) <= Len(rawLog')
  BY <1>1, StreamParts DEF PipelineInv, StoreSound, StoreShape, RawIds, Stored, storeVars
<1> QED
  BY <1>1, <1>2, <1>3 DEF Parts, QueueStep, Outside, StoreStep, Elsewhere, queueVars

LEMMA StoreParts ==
    ASSUME PipelineInv, StoreNext, UNCHANGED <<queueVars, agentVars>>
    PROVE  Parts
<1>1. UNCHANGED agentLog /\ (UNCHANGED rawLog \/ Published)
  BY StorePublishes DEF PipelineInv
<1>2. StoreGood
  BY StoreStepIsGood DEF PipelineInv, StoreStep
<1>3. StreamsTypeOK' /\ faults <= faults' /\ faults' \in 0..FaultLimit
  BY <1>2 DEF StoreGood, StoreShape, StoreGrows, StreamsTypeOK
<1>4. Len(agentLog) <= Len(agentLog')
  BY <1>1, AgentParts DEF PipelineInv
<1> QED
  BY <1>1, <1>3, <1>4 DEF Parts, QueueStep, Outside, StoreStep, AgentStep, AgentElsewhere

LEMMA ReportParts ==
    ASSUME PipelineInv, AgentReports \/ \E patch \in latePatches : LateReport(patch)
    PROVE  Parts
<1>1. UNCHANGED <<streamVars, queueVars, task>>
  BY DEF AgentReports, LateReport, AgentNotifies, LatePatchLands
<1>2. AgentStep
  BY DEF AgentReports, LateReport, AgentStep
<1>3. Outside
  BY <1>1, StreamParts DEF Outside, streamVars, PipelineInv, StoreShape
<1>4. Patched
  <2>1. CASE AgentReports
    <3>1. InHand \in 1..agentCursor /\ agent.outcome \in Outcomes
      BY <2>1, InHandIsPending, AgentParts DEF AgentReports, AgentNotifies, PipelineInv
    <3> QED
      BY <1>1, <2>1, <3>1, ReportIsPatch DEF AgentReports
  <2>2. ASSUME NEW patch \in latePatches, LateReport(patch) PROVE Patched
    <3>1. patch.msg \in 1..agentCursor /\ patch.outcome \in Outcomes
      BY DEF PipelineInv, AgentShape, AgentTypeOK, Patch
    <3> QED
      BY <1>1, <2>2, <3>1, ReportIsPatch DEF LateReport
  <2> QED
    BY <2>1, <2>2
<1> QED
  BY <1>2, <1>3, <1>4 DEF Parts, QueueStep, StoreStep

LEMMA StillParts ==
    ASSUME PipelineInv, UNCHANGED pipelineVars
    PROVE  Parts
<1>1. UNCHANGED <<rawLog, agentLog, faults, queueVars, agentVars, storeVars>>
  BY DEF pipelineVars, streamVars
<1>2. StreamsTypeOK' /\ faults <= faults' /\ faults' \in 0..FaultLimit
  BY <1>1, AgentStreams DEF PipelineInv, StreamsTypeOK
<1>3. /\ (\A i \in RawIds : rawLog[i].row \in Stored)' /\ Len(rawLog) <= Len(rawLog')
      /\ Len(agentLog) <= Len(agentLog')
  BY <1>1, StreamParts, AgentParts
  DEF PipelineInv, StoreSound, StoreShape, RawIds, Stored, storeVars
<1> QED
  BY <1>1, <1>2, <1>3
  DEF Parts, QueueStep, Outside, StoreStep, Elsewhere, AgentStep, AgentElsewhere

LEMMA StepParts ==
    ASSUME PipelineInv, [Next]_pipelineVars
    PROVE  Parts
  BY StageParts, AgentAloneParts, StoreParts, ReportParts, StillParts DEF Next

-----------------------------------------------------------------------------
(* Cards: only a report writes event_card_id, and it names the message.    *)
LEMMA CardsStay ==
    ASSUME PipelineInv, Parts, NEW r \in Rows,
           rows'[r].card = rows[r].card,
           rows'[r].status = "processed" => rows[r].status = "processed"
    PROVE  /\ rows'[r].status = "processed" => rows'[r].card # 0
           /\ rows'[r].card # 0 => /\ rows'[r].card \in reported'
                                   /\ rows'[r].card <= agentCursor'
                                   /\ agentLog'[rows'[r].card].row = r
<1>1. /\ reported \subseteq reported' /\ agentCursor <= agentCursor'
      /\ agentCursor \in Nat /\ agentCursor' \in Nat
  <2>1. AgentShape' /\ AgentShape
    BY AgentStepIsGood DEF PipelineInv, Parts
  <2> QED
    BY <2>1, AgentGrows DEF PipelineInv, Parts, AgentShape, AgentTypeOK
<1>2. \A k \in AgentIds : agentLog'[k] = agentLog[k]
  BY ShapeStep DEF PipelineInv, QueueInv, Parts, Grows
<1>3. ASSUME rows[r].card # 0
      PROVE  /\ rows[r].card \in reported' /\ rows[r].card <= agentCursor'
             /\ agentLog'[rows[r].card].row = r
  <2>1. /\ rows[r].card \in reported /\ rows[r].card <= agentCursor
        /\ agentLog[rows[r].card].row = r
    BY <1>3 DEF PipelineInv, CardsKnown
  <2>2. rows[r].card \in AgentIds /\ rows[r].card \in Nat
    <3>1. rows[r].card \in 1..agentCursor /\ agentCursor <= Len(agentLog)
      BY <2>1 DEF PipelineInv, AgentShape
    <3> QED
      BY <3>1, AgentParts DEF PipelineInv, AgentIds
  <2> QED
    BY <1>1, <1>2, <2>1, <2>2
<1> QED
  BY <1>3 DEF PipelineInv, CardsKnown

LEMMA CardsReported ==
    ASSUME PipelineInv, Parts, NEW msg \in 1..agentCursor, NEW outcome \in Outcomes,
           ReportOn(msg, outcome), UNCHANGED <<streamVars, task, agentCursor>>,
           reported' = reported \cup {msg}
    PROVE  CardsKnown'
<1>1. PICK r : r = agentLog[msg].row
  OBVIOUS
<1>2. r \in Rows /\ msg \in Nat \ {0} /\ agentLog' = agentLog
  BY <1>1, ReportIsPatch DEF streamVars
<1>3. /\ RowsBut({r}) /\ rows'[r].status = outcome
      /\ rows'[r].card = IF outcome = "processed" THEN msg ELSE rows[r].card
  BY <1>1, <1>2, UpdateStatusOK DEF ReportOn, PipelineInv, StoreShape, Outcomes
<1>4. ASSUME NEW q \in Rows, q # r \/ outcome = "failed"
      PROVE  /\ rows'[q].card = rows[q].card
             /\ rows'[q].status = "processed" => rows[q].status = "processed"
  BY <1>3, <1>4 DEF RowsBut
<1>5. ASSUME outcome = "processed"
      PROVE  /\ rows'[r].card = msg /\ msg \in reported' /\ msg <= agentCursor'
             /\ agentLog'[msg].row = r
  BY <1>1, <1>2, <1>3, <1>5, AgentParts DEF PipelineInv
<1> QED
  BY <1>2, <1>4, <1>5, CardsStay DEF CardsKnown, Outcomes

LEMMA CardsStep ==
    ASSUME PipelineInv, [Next]_pipelineVars
    PROVE  CardsKnown'
<1>0. Parts
  BY StepParts
<1>1. CASE StoreNext
  BY <1>0, <1>1, StoreKeepsCards, CardsStay DEF PipelineInv, SameCards, CardsKnown
<1>2. CASE UNCHANGED rows
  BY <1>0, <1>2, CardsStay DEF CardsKnown
<1>3. CASE AgentReports
  <2>1. InHand \in 1..agentCursor /\ agent.outcome \in Outcomes
    BY <1>3, InHandIsPending, AgentParts DEF AgentReports, AgentNotifies, PipelineInv
  <2> QED
    BY <1>0, <1>3, <2>1, CardsReported DEF AgentReports, AgentNotifies, Record
<1>4. ASSUME NEW patch \in latePatches, LateReport(patch) PROVE CardsKnown'
  <2>1. patch.msg \in 1..agentCursor /\ patch.outcome \in Outcomes
    BY DEF PipelineInv, AgentShape, AgentTypeOK, Patch
  <2> QED
    BY <1>0, <1>4, <2>1, CardsReported DEF LateReport, LatePatchLands, Record
<1> QED
  BY <1>1, <1>2, <1>3, <1>4 DEF Next, pipelineVars, storeVars

-----------------------------------------------------------------------------
LEMMA PipelineStarts == Init => PipelineInv
<1> SUFFICES ASSUME Init PROVE PipelineInv
  OBVIOUS
<1>1. QueueInv
  BY ShapeInit DEF Init, RawQueueInit, StreamsInit, QueueInit, QueueInv, RetryLedger, AckIsEarned,
     AtAck, Free, NoSilentDrop, Settled, ForwardsKnown, RawIds, AgentIds
<1>2. StoreShape /\ StoreSound
  BY StoreStarts DEF Init
<1>3. AgentShape /\ AgentCounts
  BY AgentStarts DEF Init
<1>4. CollectedIsUnderWay /\ CardsKnown
  BY DEF Init, StoreInit, Absent, CollectedIsUnderWay, CardsKnown
<1>5. LinkedForwards
  BY DEF Init, StreamsInit, LinkedForwards, AgentIds
<1> QED
  BY <1>1, <1>2, <1>3, <1>4, <1>5 DEF PipelineInv

LEMMA PipelineStep ==
    ASSUME PipelineInv, [Next]_pipelineVars
    PROVE  PipelineInv'
<1>1. Parts
  BY StepParts
<1>2. QueueInv'
  BY <1>1, QueueInvStep DEF Parts, PipelineInv
<1>3. StoreShape' /\ StoreSound' /\ CollectedIsUnderWay'
  BY <1>1, StoreStepIsGood, CollectedStep DEF Parts, PipelineInv, StoreGood
<1>4. AgentShape' /\ AgentCounts'
  BY <1>1, AgentStepIsGood DEF Parts, PipelineInv
<1>5. LinkedForwards' /\ CardsKnown'
  BY <1>1, LinkedStep, CardsStep DEF Parts, PipelineInv, QueueInv
<1> QED
  BY <1>2, <1>3, <1>4, <1>5 DEF PipelineInv

LEMMA PipelineAlways == Spec => []PipelineInv
<1>1. PipelineInv /\ [Next]_pipelineVars => PipelineInv'
  BY PipelineStep
<1> QED
  BY <1>1, PipelineStarts, PTL DEF Spec

(* Type correctness of the whole pipeline.                                 *)
THEOREM PipelineTypeCorrect == Spec => []TypeOK
<1>1. PipelineInv => TypeOK
  BY DEF PipelineInv, QueueInv, Shape, ConsumersOK, QueueTypeOK, StoreShape, AgentShape, TypeOK
<1> QED
  BY <1>1, PipelineAlways, PTL

(* What was proved of the components on their own they keep together:      *)
(* composed, none is driven to what its own surroundings did not include.  *)
THEOREM ComponentsHold ==
    Spec => [](/\ RetryLedger /\ NoSilentDrop
               /\ RowsAndStreamAgree /\ RequeueLedger /\ CollectedIsUnderWay
               /\ AckedIsReported /\ StrandedIsOneBatchPerFault)
<1>1. PipelineInv => /\ RetryLedger /\ NoSilentDrop
                     /\ RowsAndStreamAgree /\ RequeueLedger /\ CollectedIsUnderWay
                     /\ AckedIsReported /\ StrandedIsOneBatchPerFault
  BY SoundAgrees, SoundLedger DEF PipelineInv, QueueInv, AgentCounts
<1> QED
  BY <1>1, PipelineAlways, PTL

(* The ingest stage keeps its promise inside the pipeline.                 *)
THEOREM PipelineImplementsHandoff == Spec => ImplementsHandoff
<1>1. Init => Promise!HandoffInit
  BY HandoffInitial DEF Init, RawQueueInit
<1>2. PipelineInv /\ [Next]_pipelineVars => [Promise!HandoffNext]_Promise!handoffVars
  BY StepParts, HandoffStep DEF PipelineInv, Parts
<1> QED
  BY <1>1, <1>2, PipelineAlways, PTL DEF Spec, ImplementsHandoff, Promise!HandoffSafety

(* Lineage: a card linked to a row was made from a message of that very    *)
(* row, whatever was retried, duplicated, requeued or came late.           *)
THEOREM LineageHolds == Spec => []Lineage
<1>1. PipelineInv => Lineage
  BY DEF PipelineInv, QueueInv, ForwardsKnown, LinkedForwards, CardsKnown, Lineage
<1> QED
  BY <1>1, PipelineAlways, PTL

(* End to end: a message that parses is being worked on, set aside, or its *)
(* outcome waits, is recorded, or was lost to as many failures as there    *)
(* are attempts at reporting it.                                           *)
THEOREM NothingIsLostEndToEnd == Spec => []EndToEnd
<1>1. ASSUME PipelineInv, NEW i \in RawIds, Parses(i),
             ~\E j \in Live \cup dlq : rawLog[j].root = rawLog[i].root
      PROVE  \E k \in AgentIds :
                /\ rawLog[agentLog[k].of].root = rawLog[i].root
                /\ k > agentCursor \/ k \in agentPel \/ k \in reported \/ faults >= PatchAttempts
  <2>1. \A j \in RawIds : rawLog[j].root = rawLog[i].root => Accounted(j)
    BY <1>1 DEF PipelineInv, QueueInv, NoSilentDrop, Live
  <2>2. rawLog[i].root \in Delivered \cup Dead
    BY <1>1, <2>1, AccountedMessage DEF PipelineInv, QueueInv
  <2>3. rawLog[i].root \notin Dead
    BY <1>1 DEF Dead, Messages
  <2>4. PICK k \in AgentIds : rawLog[agentLog[k].of].root = rawLog[i].root
    BY <2>2, <2>3 DEF Delivered
  <2>5. k > agentCursor \/ k \in agentPel \/ k \in Acked
    BY <1>1, AgentParts DEF PipelineInv, AgentIds, Acked
  <2> QED
    BY <1>1, <2>4, <2>5 DEF PipelineInv, AgentCounts, AckedIsReported
<1>2. PipelineInv => EndToEnd
  BY <1>1 DEF EndToEnd
<1> QED
  BY <1>2, PipelineAlways, PTL

=============================================================================
