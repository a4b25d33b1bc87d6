--------------------------- MODULE RawQueueProofs ---------------------------
(***************************************************************************)
(* What holds of RawQueue for every number of messages, failures, retries  *)
(* and reapers, every batch size and every interleaving.                   *)
(***************************************************************************)
EXTENDS RawQueue, WellFoundedInduction, SequenceTheorems, TLAPS

-----------------------------------------------------------------------------
(* A non-empty set of ids has a least one, so that First picks a member.   *)
Below == OpToRel(<, Nat)

LEMMA LeastExists ==
    ASSUME NEW B \in SUBSET Nat, B # {}
    PROVE  \E i \in B : \A j \in B : i <= j
<1>1. PICK i \in B : \A j \in B : <<j, i>> \notin Below
  BY NatLessThanWellFounded, WFMin DEF Below
<1>2. Below = {p \in Nat \X Nat : p[1] < p[2]}
  BY Zenon DEF Below, OpToRel
<1>3. ASSUME NEW j \in B PROVE i <= j
  <2>1. <<j, i>> \notin {p \in Nat \X Nat : p[1] < p[2]}
    BY <1>1, <1>2
  <2> HIDE DEF Below
  <2>2. ~(j < i)
    BY <2>1
  <2> QED
    BY <2>2
<1> QED
  BY <1>3

LEMMA FirstIsListed ==
    ASSUME NEW B \in SUBSET Nat, B # {}
    PROVE  First(B) \in B
  BY LeastExists DEF First

-----------------------------------------------------------------------------
(* The shape of the state: types, and where the ids of the group lie.      *)
ConsumersOK ==
    /\ consumer \in [Consumers -> [pc : Stages, batch : SUBSET Nat]]
    /\ \A c \in Consumers : /\ consumer[c].batch \subseteq 1..rawCursor
                            /\ consumer[c].pc # "free" => consumer[c].batch # {}

Shape ==
    /\ StreamsTypeOK
    /\ rawCursor \in 0..Len(rawLog)
    /\ rawPel \subseteq 1..rawCursor
    /\ rawIdle \subseteq rawPel
    /\ dlq \subseteq Nat
    /\ ConsumersOK

(* Entries are appended to the streams, and never changed or taken away.   *)
Grows ==
    /\ Len(rawLog) <= Len(rawLog') /\ \A i \in RawIds : rawLog'[i] = rawLog[i]
    /\ Len(agentLog) <= Len(agentLog') /\ \A k \in AgentIds : agentLog'[k] = agentLog[k]
    /\ dlq \subseteq dlq'

LEMMA WorkerIsNoReaper == Worker \notin Reapers /\ Worker \in Consumers /\ Reapers \subseteq Consumers
  BY RawQueueAssumption DEF Consumers

LEMMA CurrentIsListed ==
    ASSUME Shape, NEW c \in Consumers, ~At(c, "free")
    PROVE  /\ Current(c) \in consumer[c].batch
           /\ Current(c) \in 1..rawCursor
           /\ Current(c) \in RawIds
           /\ rawLog[Current(c)] \in RawEntry
<1>1. consumer[c].batch \in SUBSET Nat /\ consumer[c].batch # {}
  BY DEF Shape, ConsumersOK, At
<1>2. Current(c) \in consumer[c].batch
  BY <1>1, FirstIsListed DEF Current
<1>3. Current(c) \in 1..rawCursor
  BY <1>2 DEF Shape, ConsumersOK
<1>4. Current(c) \in RawIds
  BY <1>3 DEF Shape, RawIds, StreamsTypeOK
<1> QED
  BY <1>2, <1>3, <1>4, ElementOfSeq DEF Shape, StreamsTypeOK, RawIds

(* What an appended entry does to the stream it is appended to.            *)
LEMMA RawAppend ==
    ASSUME Shape, NEW e \in RawEntry, rawLog' = Append(rawLog, e)
    PROVE  /\ rawLog' \in Seq(RawEntry)
           /\ Len(rawLog') = Len(rawLog) + 1
           /\ \A i \in RawIds : rawLog'[i] = rawLog[i]
           /\ rawLog'[Len(rawLog) + 1] = e
  BY AppendProperties DEF Shape, StreamsTypeOK, RawIds

LEMMA ForwardAppends ==
    ASSUME Shape, NEW i \in RawIds, Forward(i)
    PROVE  /\ agentLog' \in Seq(AgentEntry)
           /\ Len(agentLog') = Len(agentLog) + 1
           /\ \A k \in AgentIds : agentLog'[k] = agentLog[k]
           /\ agentLog'[Len(agentLog) + 1].of = i
           /\ agentLog'[Len(agentLog) + 1].row = rawLog[i].row
<1> DEFINE e == [row |-> rawLog[i].row, of |-> i]
<1>1. rawLog[i] \in RawEntry
  BY ElementOfSeq DEF Shape, StreamsTypeOK, RawIds
<1>2. e \in AgentEntry
  BY <1>1 DEF RawEntry, AgentEntry, RawIds
<1> QED
  BY <1>2, AppendProperties DEF Forward, Shape, StreamsTypeOK, AgentIds

LEMMA CopyIsEntry ==
    ASSUME Shape, NEW i \in RawIds
    PROVE  Copy(i) \in RawEntry
<1>1. rawLog[i] \in RawEntry
  BY ElementOfSeq DEF Shape, StreamsTypeOK, RawIds
<1>2. i \in Nat
  BY DEF RawIds
<1> QED
  BY <1>1, <1>2 DEF Copy, RawEntry, Origins

LEMMA PreserveGrows ==
    ASSUME Shape, NEW i \in RawIds, Preserve(i)
    PROVE  /\ rawLog' \in Seq(RawEntry)
           /\ Len(rawLog) <= Len(rawLog')
           /\ \A j \in RawIds : rawLog'[j] = rawLog[j]
           /\ dlq' \subseteq Nat
           /\ dlq \subseteq dlq'
<1>1. CASE Retry(i)
  <2>1. rawLog' = Append(rawLog, Copy(i)) /\ dlq' = dlq
    BY <1>1 DEF Retry
  <2>2. Copy(i) \in RawEntry
    BY CopyIsEntry
  <2>3. Len(rawLog) \in Nat
    BY DEF Shape, StreamsTypeOK
  <2>4. dlq \subseteq Nat
    BY DEF Shape
  <2>5. /\ rawLog' \in Seq(RawEntry)
        /\ Len(rawLog') = Len(rawLog) + 1
        /\ \A j \in RawIds : rawLog'[j] = rawLog[j]
    BY <2>1, <2>2, RawAppend
  <2>6. Len(rawLog) <= Len(rawLog')
    BY <2>3, <2>5
  <2>7. dlq' \subseteq Nat /\ dlq \subseteq dlq'
    BY <2>1, <2>4
  <2> QED
    BY <2>5, <2>6, <2>7
<1>2. CASE Bury(i)
  BY <1>2 DEF Bury, Shape, StreamsTypeOK, RawIds
<1> QED
  BY <1>1, <1>2 DEF Preserve

-----------------------------------------------------------------------------
(* What the moves of a consumer leave of its record.                       *)
LEMMA GotoOK ==
    ASSUME Shape, NEW c \in Consumers, ~At(c, "free"), NEW s \in Stages,
           Goto(c, s), rawCursor' = rawCursor
    PROVE  /\ ConsumersOK'
           /\ consumer'[c].pc = s
           /\ \A d \in Consumers \ {c} : consumer'[d] = consumer[d]
           /\ \A d \in Consumers : consumer'[d].batch = consumer[d].batch
  BY DEF Shape, ConsumersOK, Goto, At

LEMMA StopOK ==
    ASSUME Shape, NEW c \in Consumers, Stop(c), rawCursor' = rawCursor
    PROVE  /\ ConsumersOK'
           /\ consumer'[c].pc = "free"
           /\ \A d \in Consumers \ {c} : consumer'[d] = consumer[d]
  BY DEF Shape, ConsumersOK, Stop, Free, Stages

LEMMA AdvanceOK ==
    ASSUME Shape, NEW c \in Consumers, Advance(c), rawCursor' = rawCursor
    PROVE  /\ ConsumersOK'
           /\ consumer'[c].pc \in {"free", "process", "route"}
           /\ \A d \in Consumers \ {c} : consumer'[d] = consumer[d]
  BY DEF Shape, ConsumersOK, Advance, Free, Stages

LEMMA GiveUpOK ==
    ASSUME Shape, NEW c \in Consumers, GiveUp(c), rawCursor' = rawCursor
    PROVE  /\ ConsumersOK'
           /\ consumer'[c].pc \in {"free", "process", "route"}
           /\ \A d \in Consumers \ {c} : consumer'[d] = consumer[d]
  BY AdvanceOK, StopOK DEF GiveUp

LEMMA BeginOK ==
    ASSUME Shape, NEW c \in Consumers, NEW s \in Stages,
           NEW B, B \subseteq 1..rawCursor', B # {},
           consumer' = [consumer EXCEPT ![c] = [pc |-> s, batch |-> B]],
           rawCursor' \in Nat, rawCursor <= rawCursor'
    PROVE  /\ ConsumersOK'
           /\ consumer'[c].pc = s
           /\ \A d \in Consumers \ {c} : consumer'[d] = consumer[d]
<1>1. consumer \in [Consumers -> [pc : Stages, batch : SUBSET Nat]] /\ rawCursor \in Nat
  BY DEF Shape, ConsumersOK, StreamsTypeOK
<1>2. [pc |-> s, batch |-> B] \in [pc : Stages, batch : SUBSET Nat]
  OBVIOUS
<1>3. /\ consumer' \in [Consumers -> [pc : Stages, batch : SUBSET Nat]]
      /\ consumer'[c] = [pc |-> s, batch |-> B]
      /\ \A d \in Consumers \ {c} : consumer'[d] = consumer[d]
  BY <1>1, <1>2
<1>4. ASSUME NEW d \in Consumers
      PROVE  /\ consumer'[d].batch \subseteq 1..rawCursor'
             /\ consumer'[d].pc # "free" => consumer'[d].batch # {}
  <2>1. CASE d = c
    BY <1>3, <2>1
  <2>2. CASE d # c
    <3>1. consumer'[d] = consumer[d]
      BY <1>3, <2>2
    <3>2. consumer[d].batch \subseteq 1..rawCursor /\ (consumer[d].pc # "free" => consumer[d].batch # {})
      BY DEF Shape, ConsumersOK
    <3>3. 1..rawCursor \subseteq 1..rawCursor'
      BY <1>1
    <3> QED
      BY <3>1, <3>2, <3>3
  <2> QED
    BY <2>1, <2>2
<1> QED
  BY <1>3, <1>4 DEF ConsumersOK

LEMMA XAckShrinks ==
    ASSUME Shape, NEW i, XAck(i) \/ UNCHANGED <<rawPel, rawIdle>>
    PROVE  rawPel' \subseteq rawPel /\ rawIdle' \subseteq rawPel'
  BY DEF Shape, XAck

LEMMA FaultCounts ==
    ASSUME Shape, Fault
    PROVE  faults' \in 0..FaultLimit
  BY StreamsAssumption DEF Shape, StreamsTypeOK, Fault

-----------------------------------------------------------------------------
(* Every step keeps the shape, and only appends to the streams.            *)
LEMMA ShapeInit == RawQueueInit => Shape
  BY StreamsAssumption, EmptySeq DEF RawQueueInit, StreamsInit, QueueInit, Shape,
     StreamsTypeOK, ConsumersOK, Free, Stages

(* The parts of Shape that the proofs below use again and again.           *)
LEMMA ShapeParts ==
    ASSUME Shape
    PROVE  /\ rawLog \in Seq(RawEntry) /\ agentLog \in Seq(AgentEntry) /\ faults \in 0..FaultLimit
           /\ Len(rawLog) \in Nat /\ Len(agentLog) \in Nat /\ rawCursor \in 0..Len(rawLog)
           /\ rawPel \subseteq 1..rawCursor /\ rawIdle \subseteq rawPel /\ dlq \subseteq Nat
  BY DEF Shape, StreamsTypeOK

LEMMA ShapeWorker ==
    ASSUME Shape, WorkerRead \/ WorkerProcess \/ WorkerAck
    PROVE  Shape' /\ Grows
<1> USE WorkerIsNoReaper, ShapeParts
<1>1. CASE WorkerRead
  <2>1. /\ LastRead(rawLog, rawCursor) \in rawCursor + 1 .. Len(rawLog)
    BY <1>1, StreamsAssumption DEF WorkerRead, LastRead
  <2> DEFINE new == rawCursor + 1 .. LastRead(rawLog, rawCursor)
  <2>2. /\ rawCursor' = LastRead(rawLog, rawCursor)
        /\ rawPel' = rawPel \cup new
        /\ consumer' = [consumer EXCEPT ![Worker] = [pc |-> "process", batch |-> new]]
        /\ UNCHANGED <<rawLog, agentLog, faults, rawIdle, dlq>>
    BY <1>1 DEF WorkerRead, streamVars
  <2>3. new \subseteq 1..rawCursor' /\ new # {} /\ rawCursor <= rawCursor' /\ rawCursor' \in Nat
    BY <2>1, <2>2
  <2>4. ConsumersOK'
    <3> HIDE DEF new
    <3> QED
      BY <2>2, <2>3, BeginOK DEF Stages
  <2>5. rawPel' \subseteq 1..rawCursor'
    <3>1. 1..rawCursor \subseteq 1..rawCursor'
      BY <2>3
    <3> HIDE DEF new
    <3> QED
      BY <2>2, <2>3, <3>1
  <2> QED
    BY <2>1, <2>2, <2>4, <2>5 DEF Shape, StreamsTypeOK, Grows, RawIds, AgentIds
<1>2. CASE WorkerProcess
  <2>1. ~At(Worker, "free") /\ Current(Worker) \in RawIds
    BY <1>2, CurrentIsListed DEF WorkerProcess, At
  <2>2. ConsumersOK'
    BY <1>2, <2>1, GotoOK DEF WorkerProcess, Stages
  <2>3. /\ agentLog' \in Seq(AgentEntry)
        /\ Len(agentLog) <= Len(agentLog')
        /\ \A k \in AgentIds : agentLog'[k] = agentLog[k]
    <3>1. CASE UNCHANGED agentLog
      BY <3>1
    <3>2. CASE Forward(Current(Worker))
      BY <2>1, <3>2, ForwardAppends
    <3> QED
      BY <1>2, <3>1, <3>2 DEF WorkerProcess
  <2> QED
    BY <1>2, <2>2, <2>3 DEF WorkerProcess, Shape, StreamsTypeOK, Grows, RawIds
<1>3. CASE WorkerAck
  <2>1. ConsumersOK'
    BY <1>3, AdvanceOK DEF WorkerAck
  <2>2. rawPel' \subseteq rawPel /\ rawIdle' \subseteq rawPel'
    BY <1>3, XAckShrinks DEF WorkerAck
  <2> QED
    BY <1>3, <2>1, <2>2
    DEF WorkerAck, Shape, StreamsTypeOK, streamVars, Grows, RawIds, AgentIds
<1> QED
  BY <1>1, <1>2, <1>3

LEMMA ShapeRoute ==
    ASSUME Shape, NEW c \in Consumers, Route(c) \/ RouteAck(c)
    PROVE  Shape' /\ Grows
<1> USE ShapeParts
<1>1. CASE Route(c)
  <2>1. ~At(c, "free") /\ Current(c) \in RawIds
    BY <1>1, CurrentIsListed DEF Route, At
  <2>2. ConsumersOK'
    BY <1>1, <2>1, GotoOK DEF Route, Stages
  <2>3. /\ rawLog' \in Seq(RawEntry)
        /\ Len(rawLog) <= Len(rawLog')
        /\ \A j \in RawIds : rawLog'[j] = rawLog[j]
        /\ dlq' \subseteq Nat
        /\ dlq \subseteq dlq'
    BY <1>1, <2>1, PreserveGrows DEF Route
  <2>4. rawCursor \in 0..Len(rawLog')
    BY <2>3
  <2> QED
    BY <1>1, <2>2, <2>3, <2>4 DEF Route, Shape, StreamsTypeOK, Grows, AgentIds
<1>2. CASE RouteAck(c)
  <2>1. ConsumersOK'
    BY <1>2, AdvanceOK DEF RouteAck
  <2>2. rawPel' \subseteq rawPel /\ rawIdle' \subseteq rawPel'
    BY <1>2, XAckShrinks DEF RouteAck
  <2> QED
    BY <1>2, <2>1, <2>2
    DEF RouteAck, Shape, StreamsTypeOK, streamVars, Grows, RawIds, AgentIds
<1> QED
  BY <1>1, <1>2

LEMMA ShapeReaperClaim ==
    ASSUME Shape, NEW c \in Reapers, ReaperClaim(c)
    PROVE  Shape' /\ Grows
<1> USE WorkerIsNoReaper, ShapeParts
<1>1. /\ rawIdle # {} /\ rawIdle' = {}
      /\ consumer' = [consumer EXCEPT ![c] = [pc |-> "route", batch |-> rawIdle]]
      /\ UNCHANGED <<rawLog, agentLog, faults, rawCursor, rawPel, dlq>>
  BY DEF ReaperClaim, streamVars
<1>2. c \in Consumers /\ "route" \in Stages
  BY DEF Stages
<1>3. rawIdle \subseteq 1..rawCursor' /\ rawCursor' \in Nat /\ rawCursor <= rawCursor'
  BY <1>1
<1>4. ConsumersOK'
  BY <1>1, <1>2, <1>3, BeginOK
<1> QED
  BY <1>1, <1>4 DEF Shape, StreamsTypeOK, Grows, RawIds, AgentIds

LEMMA ShapeWorkerFails ==
    ASSUME Shape, WorkerProcessFails \/ WorkerAckFails
    PROVE  Shape' /\ Grows
<1> USE WorkerIsNoReaper, ShapeParts
<1>1. faults' \in 0..FaultLimit
  BY FaultCounts DEF WorkerProcessFails, WorkerAckFails
<1>2. CASE WorkerProcessFails
  <2>1. ~At(Worker, "free") /\ Current(Worker) \in RawIds
    BY <1>2, CurrentIsListed DEF WorkerProcessFails, At
  <2>2. ConsumersOK'
    BY <1>2, <2>1, GotoOK DEF WorkerProcessFails, Stages
  <2>3. /\ agentLog' \in Seq(AgentEntry)
        /\ Len(agentLog) <= Len(agentLog')
        /\ \A k \in AgentIds : agentLog'[k] = agentLog[k]
    <3>1. CASE UNCHANGED agentLog
      BY <3>1
    <3>2. CASE Forward(Current(Worker))
      BY <2>1, <3>2, ForwardAppends
    <3> QED
      BY <1>2, <3>1, <3>2 DEF WorkerProcessFails
  <2> QED
    BY <1>1, <1>2, <2>2, <2>3 DEF WorkerProcessFails, Shape, StreamsTypeOK, Grows, RawIds
<1>3. CASE WorkerAckFails
  <2>1. ~At(Worker, "free")
    BY <1>3 DEF WorkerAckFails, At
  <2>2. ConsumersOK'
    BY <1>3, <2>1, GotoOK DEF WorkerAckFails, Stages
  <2>3. rawPel' \subseteq rawPel /\ rawIdle' \subseteq rawPel'
    BY <1>3, XAckShrinks DEF WorkerAckFails
  <2> QED
    BY <1>1, <1>3, <2>2, <2>3
    DEF WorkerAckFails, Shape, StreamsTypeOK, Grows, RawIds, AgentIds
<1> QED
  BY <1>2, <1>3

LEMMA ShapeRouteFails ==
    ASSUME Shape, NEW c \in Consumers, RouteFails(c) \/ RouteAckFails(c) \/ Crash(c)
    PROVE  Shape' /\ Grows
<1> USE ShapeParts
<1>1. faults' \in 0..FaultLimit
  BY FaultCounts DEF RouteFails, RouteAckFails, Crash
<1>2. ConsumersOK'
  BY GiveUpOK, StopOK DEF RouteFails, RouteAckFails, Crash
<1>3. CASE RouteFails(c)
  <2>1. ~At(c, "free") /\ Current(c) \in RawIds
    BY <1>3, CurrentIsListed DEF RouteFails, At
  <2>2. /\ rawLog' \in Seq(RawEntry)
        /\ Len(rawLog) <= Len(rawLog')
        /\ \A j \in RawIds : rawLog'[j] = rawLog[j]
        /\ dlq' \subseteq Nat
        /\ dlq \subseteq dlq'
    <3>1. CASE Preserve(Current(c))
      BY <2>1, <3>1, PreserveGrows
    <3>2. CASE UNCHANGED <<rawLog, dlq>>
      BY <3>2
    <3> QED
      BY <1>3, <3>1, <3>2 DEF RouteFails
  <2>3. rawCursor \in 0..Len(rawLog')
    BY <2>2
  <2> QED
    BY <1>1, <1>2, <1>3, <2>2, <2>3 DEF RouteFails, Shape, StreamsTypeOK, Grows, AgentIds
<1>4. CASE RouteAckFails(c)
  <2>1. rawPel' \subseteq rawPel /\ rawIdle' \subseteq rawPel'
    BY <1>4, XAckShrinks DEF RouteAckFails
  <2> QED
    BY <1>1, <1>2, <1>4, <2>1
    DEF RouteAckFails, Shape, StreamsTypeOK, Grows, RawIds, AgentIds
<1>5. CASE Crash(c)
  BY <1>1, <1>2, <1>5 DEF Crash, Shape, StreamsTypeOK, Grows, RawIds, AgentIds
<1> QED
  BY <1>3, <1>4, <1>5

LEMMA ShapeGrowIdle ==
    ASSUME Shape, NEW i \in rawPel, GrowIdle(i)
    PROVE  Shape' /\ Grows
  BY ShapeParts
  DEF GrowIdle, Shape, StreamsTypeOK, ConsumersOK, streamVars, Grows, RawIds, AgentIds

LEMMA MessageIsEntry ==
    ASSUME Shape, NEW r \in Rows, NEW via \in Origins
    PROVE  Message(r, via) \in RawEntry
  BY ShapeParts DEF Message, RawEntry

LEMMA PublishAppends ==
    ASSUME NEW r \in Rows, Publish(r)
    PROVE  /\ \E via \in Origins : rawLog' = Append(rawLog, Message(r, via))
           /\ UNCHANGED <<agentLog, faults, rawCursor, rawPel, rawIdle, dlq, consumer>>
  BY DEF Publish, EnqueueRawEvent, Origins, queueVars

(* A step of the stage, or one of its surroundings, which publish messages  *)
(* and fail.                                                               *)
Published == \E r \in Rows, via \in Origins : rawLog' = Append(rawLog, Message(r, via))
Outside ==
    /\ UNCHANGED <<agentLog, queueVars>>
    /\ UNCHANGED rawLog \/ Published
    /\ faults' \in 0..FaultLimit
QueueStep == QueueNext \/ Outside

LEMMA StageSteps ==
    ASSUME Shape, [RawQueueNext]_rawQueueVars
    PROVE  QueueStep
<1>1. faults \in 0..FaultLimit
  BY ShapeParts
<1>2. ASSUME NEW r \in Rows, Publish(r) PROVE Outside
  <2>1. PICK via \in Origins : rawLog' = Append(rawLog, Message(r, via))
    BY <1>2, PublishAppends
  <2>2. Published
    BY <2>1 DEF Published
  <2> QED
    BY <1>1, <1>2, <2>2 DEF Outside, Publish
<1>3. CASE UNCHANGED rawQueueVars
  BY <1>1, <1>3 DEF QueueStep, Outside, rawQueueVars, streamVars
<1> QED
  BY <1>2, <1>3 DEF RawQueueNext, QueueStep

LEMMA ShapeOutside ==
    ASSUME Shape, Outside
    PROVE  Shape' /\ Grows
<1> USE ShapeParts
<1> DEFINE Longer == /\ rawLog' \in Seq(RawEntry) /\ Len(rawLog) <= Len(rawLog')
                     /\ \A j \in RawIds : rawLog'[j] = rawLog[j]
<1>1. Longer
  <2>1. CASE UNCHANGED rawLog
    BY <2>1 DEF RawIds
  <2>2. ASSUME NEW r \in Rows, NEW via \in Origins, rawLog' = Append(rawLog, Message(r, via))
        PROVE  Longer
    <3>1. Message(r, via) \in RawEntry
      BY MessageIsEntry
    <3>2. /\ rawLog' \in Seq(RawEntry) /\ Len(rawLog') = Len(rawLog) + 1
          /\ \A j \in RawIds : rawLog'[j] = rawLog[j]
      BY <2>2, <3>1, RawAppend
    <3>3. Len(rawLog) \in Nat
      OBVIOUS
    <3> QED
      BY <3>2, <3>3
  <2> QED
    BY <2>1, <2>2 DEF Outside, Published
<1>2. UNCHANGED <<agentLog, rawCursor, rawPel, rawIdle, dlq, consumer>>
  BY DEF Outside, queueVars
<1>3. faults' \in 0..FaultLimit /\ rawCursor' \in 0..Len(rawLog')
  BY <1>1, <1>2 DEF Outside
<1>4. ConsumersOK'
  BY <1>2 DEF Shape, ConsumersOK
<1> QED
  BY <1>1, <1>2, <1>3, <1>4 DEF Shape, StreamsTypeOK, Grows, AgentIds

LEMMA ShapeStep == Shape /\ QueueStep => Shape' /\ Grows
<1> SUFFICES ASSUME Shape, QueueStep PROVE Shape' /\ Grows
  OBVIOUS
<1>1. CASE WorkerWorks
  BY <1>1, ShapeWorker, ShapeRoute, WorkerIsNoReaper DEF WorkerWorks
<1>2. ASSUME NEW c \in Reapers, ReaperWorks(c) PROVE Shape' /\ Grows
  BY <1>2, ShapeReaperClaim, ShapeRoute, WorkerIsNoReaper DEF ReaperWorks
<1>3. CASE QueueFails
  BY <1>3, ShapeWorkerFails, ShapeRouteFails DEF QueueFails
<1>4. ASSUME NEW i \in rawPel, GrowIdle(i) PROVE Shape' /\ Grows
  BY <1>4, ShapeGrowIdle
<1>5. CASE Outside
  BY <1>5, ShapeOutside
<1> QED
  BY <1>1, <1>2, <1>3, <1>4, <1>5 DEF QueueStep, QueueNext

(* The types, and with them the shape, hold in every reachable state.      *)
LEMMA ShapeAlways == RawQueueSpec => []Shape
<1>1. RawQueueInit => Shape
  BY ShapeInit
<1>2. Shape /\ [RawQueueNext]_rawQueueVars => Shape'
  BY StageSteps, ShapeStep
<1> QED
  BY <1>1, <1>2, PTL DEF RawQueueSpec

(* Type correctness of the ingest stage: the cursor, the pending entries,  *)
(* the batches and the entries of both streams stay what they are.         *)
THEOREM TypeCorrect == RawQueueSpec => []RawQueueTypeOK
<1>1. Shape => RawQueueTypeOK
  BY DEF Shape, RawQueueTypeOK, QueueTypeOK, ConsumersOK, StreamsTypeOK
<1> QED
  BY <1>1, ShapeAlways, PTL

-----------------------------------------------------------------------------
(* What a step does to the streams, the dead letters and the settled       *)
(* messages: nothing; it forwards a message; it preserves one as a copy or *)
(* a dead letter; it settles one whose consumer is at its acknowledgement; *)
(* or a message is published.                                              *)
AtAck(c) == consumer[c].pc \in {"ack", "routeAck"}

StageKinds ==
    \/ UNCHANGED <<rawLog, agentLog, dlq, Settled>>
    \/ UNCHANGED <<rawLog, dlq, Settled>> /\ \E i \in RawIds : Parses(i) /\ Forward(i)
    \/ UNCHANGED <<agentLog, Settled>> /\ \E i \in RawIds : Preserve(i)
    \/ /\ UNCHANGED <<rawLog, agentLog, dlq>>
       /\ \E c \in Consumers : AtAck(c) /\ Settled' = Settled \cup {Current(c)}
StepKinds ==
    \/ StageKinds
    \/ UNCHANGED <<agentLog, dlq, Settled>> /\ Published

LEMMA XAckSettles ==
    ASSUME Shape, NEW i \in 1..rawCursor, XAck(i), rawCursor' = rawCursor
    PROVE  Settled' = Settled \cup {i}
  BY DEF XAck, Settled

LEMMA KindOfWorker ==
    ASSUME Shape,
           WorkerRead \/ WorkerProcess \/ WorkerAck \/ WorkerProcessFails \/ WorkerAckFails
    PROVE  StageKinds
<1> USE WorkerIsNoReaper
<1>1. CASE WorkerRead
  <2>1. /\ rawCursor' = LastRead(rawLog, rawCursor)
        /\ rawPel' = rawPel \cup (rawCursor + 1 .. LastRead(rawLog, rawCursor))
        /\ UNCHANGED <<rawLog, agentLog, dlq>>
    BY <1>1 DEF WorkerRead, streamVars
  <2>2. LastRead(rawLog, rawCursor) \in Nat /\ rawCursor <= LastRead(rawLog, rawCursor)
    BY ShapeParts, StreamsAssumption DEF LastRead
  <2>3. Settled' = Settled
    BY <2>1, <2>2, ShapeParts DEF Settled
  <2> QED
    BY <2>1, <2>3 DEF StageKinds
<1>2. CASE WorkerProcess \/ WorkerProcessFails
  <2>1. Current(Worker) \in RawIds
    BY <1>2, CurrentIsListed DEF WorkerProcess, WorkerProcessFails, At
  <2>2. UNCHANGED <<rawLog, dlq, Settled>>
    BY <1>2 DEF WorkerProcess, WorkerProcessFails, Settled
  <2> QED
    BY <1>2, <2>1, <2>2 DEF WorkerProcess, WorkerProcessFails, StageKinds, Entry, Parses
<1>3. CASE WorkerAck \/ WorkerAckFails
  <2>1. AtAck(Worker) /\ Current(Worker) \in 1..rawCursor
    BY <1>3, CurrentIsListed DEF WorkerAck, WorkerAckFails, At, AtAck
  <2>2. UNCHANGED <<rawLog, agentLog, dlq, rawCursor>>
    BY <1>3 DEF WorkerAck, WorkerAckFails, streamVars
  <2>3. CASE XAck(Current(Worker))
    BY <2>1, <2>2, <2>3, XAckSettles DEF StageKinds
  <2>4. CASE UNCHANGED rawPel
    BY <2>2, <2>4 DEF StageKinds, Settled
  <2> QED
    BY <1>3, <2>3, <2>4 DEF WorkerAck, WorkerAckFails
<1> QED
  BY <1>1, <1>2, <1>3

LEMMA KindOfRoute ==
    ASSUME Shape, NEW c \in Consumers,
           \/ Route(c) \/ RouteAck(c) \/ RouteFails(c) \/ RouteAckFails(c) \/ Crash(c)
    PROVE  StageKinds
<1>1. CASE Route(c) \/ RouteFails(c)
  <2>1. Current(c) \in RawIds
    BY <1>1, CurrentIsListed DEF Route, RouteFails, At
  <2>2. UNCHANGED <<agentLog, Settled>>
    BY <1>1 DEF Route, RouteFails, Settled
  <2> QED
    BY <1>1, <2>1, <2>2 DEF Route, RouteFails, StageKinds
<1>2. CASE RouteAck(c) \/ RouteAckFails(c)
  <2>1. AtAck(c) /\ Current(c) \in 1..rawCursor
    BY <1>2, CurrentIsListed DEF RouteAck, RouteAckFails, At, AtAck
  <2>2. UNCHANGED <<rawLog, agentLog, dlq, rawCursor>>
    BY <1>2 DEF RouteAck, RouteAckFails, streamVars
  <2>3. CASE XAck(Current(c))
    BY <2>1, <2>2, <2>3, XAckSettles DEF StageKinds
  <2>4. CASE UNCHANGED rawPel
    BY <2>2, <2>4 DEF StageKinds, Settled
  <2> QED
    BY <1>2, <2>3, <2>4 DEF RouteAck, RouteAckFails
<1>3. CASE Crash(c)
  BY <1>3 DEF Crash, StageKinds, Settled
<1> QED
  BY <1>1, <1>2, <1>3

LEMMA KindOfNext ==
    ASSUME Shape, QueueNext
    PROVE  StageKinds
<1>1. CASE WorkerWorks
  BY <1>1, KindOfWorker, KindOfRoute, WorkerIsNoReaper DEF WorkerWorks
<1>2. ASSUME NEW c \in Reapers, ReaperWorks(c) PROVE StageKinds
  <2>1. CASE ReaperClaim(c)
    BY <2>1 DEF ReaperClaim, StageKinds, Settled, streamVars
  <2> QED
    BY <1>2, <2>1, KindOfRoute, WorkerIsNoReaper DEF ReaperWorks
<1>3. CASE QueueFails
  BY <1>3, KindOfWorker, KindOfRoute DEF QueueFails
<1>4. ASSUME NEW i \in rawPel, GrowIdle(i) PROVE StageKinds
  BY <1>4 DEF GrowIdle, StageKinds, Settled, streamVars
<1> QED
  BY <1>1, <1>2, <1>3, <1>4 DEF QueueNext

LEMMA KindOfStep ==
    ASSUME Shape, QueueStep
    PROVE  StepKinds
<1>1. CASE Outside
  BY <1>1 DEF Outside, StepKinds, StageKinds, Settled, queueVars
<1> QED
  BY <1>1, KindOfNext DEF QueueStep, StepKinds

(* The retry ledger is inductive on top of the shape.                      *)
LEMMA EntryParts ==
    ASSUME Shape, NEW i \in RawIds
    PROVE  /\ i \in Nat /\ i # 0
           /\ rawLog[i].retry \in Nat /\ rawLog[i].of \in Nat
           /\ rawLog[i].root \in Nat /\ rawLog[i].row \in Rows
<1>1. rawLog[i] \in RawEntry /\ i \in 1..Len(rawLog) /\ Len(rawLog) \in Nat
  BY ShapeParts, ElementOfSeq DEF RawIds
<1> QED
  BY <1>1 DEF RawEntry

LEMMA RetriesBounded ==
    ASSUME Shape, RetryLedger, NEW i \in RawIds
    PROVE  rawLog[i].retry <= MaxRetries
  BY RawQueueAssumption DEF RetryLedger, Descends

LEMMA DescendsStays ==
    ASSUME Shape, Grows, NEW i \in RawIds, Descends(i)
    PROVE  Descends(i)'
<1>1. rawLog'[i] = rawLog[i]
  BY DEF Grows
<1>2. rawLog[i] \in RawEntry /\ i \in Nat
  BY ShapeParts, ElementOfSeq DEF RawIds
<1>3. CASE rawLog[i].of = 0
  BY <1>1, <1>3 DEF Descends
<1>4. CASE rawLog[i].of # 0
  <2>0. rawLog[i].of \in Nat /\ rawLog[i].of < i
    BY <1>2, <1>4 DEF Descends, RawEntry
  <2>1. rawLog[i].of \in RawIds
    BY <1>2, <1>4, <2>0, ShapeParts DEF RawIds
  <2>2. rawLog'[rawLog[i].of] = rawLog[rawLog[i].of]
    BY <2>1 DEF Grows
  <2> QED
    BY <1>1, <1>4, <2>2 DEF Descends
<1> QED
  BY <1>3, <1>4

LEMMA LedgerStep ==
    ASSUME Shape, RetryLedger, QueueStep
    PROVE  RetryLedger'
<1>1. Grows /\ Shape'
  BY ShapeStep
<1>2. \A i \in RawIds : Descends(i)'
  BY <1>1, DescendsStays DEF RetryLedger
<1>3. Len(rawLog) \in Nat
  BY ShapeParts
<1>4. CASE UNCHANGED <<rawLog, dlq>>
  BY <1>4 DEF RetryLedger, Descends, RawIds
<1>5. ASSUME NEW i \in RawIds, Retry(i) PROVE RetryLedger'
  <2>0. PICK n \in Nat : n = Len(rawLog) + 1
    BY <1>3
  <2>1. rawLog' = Append(rawLog, Copy(i)) /\ rawLog[i].retry < MaxRetries /\ dlq' = dlq
    BY <1>5 DEF Retry
  <2>2. Len(rawLog') = n /\ rawLog'[n] = Copy(i)
    BY <2>0, <2>1, CopyIsEntry, RawAppend
  <2>3. rawLog'[i] = rawLog[i] /\ i < n /\ i # 0
    BY <1>1, <1>3, <2>0 DEF Grows, RawIds
  <2>4. rawLog[i].retry + 1 <= MaxRetries
    BY <2>1, EntryParts, RawQueueAssumption
  <2>5. Descends(n)'
    BY <2>2, <2>3, <2>4 DEF Descends, Copy
  <2>6. RawIds' = RawIds \cup {n}
    BY <1>3, <2>0, <2>2 DEF RawIds
  <2>7. \A j \in RawIds' : Descends(j)'
    BY <1>2, <2>5, <2>6
  <2>8. \A j \in dlq' : j \in RawIds' /\ rawLog'[j].retry = MaxRetries
    BY <1>1, <2>1, <2>6 DEF RetryLedger, Grows
  <2> QED
    BY <2>7, <2>8 DEF RetryLedger
<1>6. ASSUME NEW i \in RawIds, Bury(i) PROVE RetryLedger'
  <2>1. rawLog[i].retry = MaxRetries
    BY <1>6, RetriesBounded, EntryParts, RawQueueAssumption DEF Bury
  <2>2. rawLog' = rawLog /\ dlq' = dlq \cup {i}
    BY <1>6 DEF Bury
  <2> QED
    BY <2>1, <2>2 DEF RetryLedger, Descends, RawIds
<1>7. ASSUME Published, dlq' = dlq PROVE RetryLedger'
  <2>0. PICK n \in Nat : n = Len(rawLog) + 1
    BY <1>3
  <2>1. PICK r \in Rows, via \in Origins : rawLog' = Append(rawLog, Message(r, via))
    BY <1>7 DEF Published
  <2>2. Len(rawLog') = n /\ rawLog'[n] = Message(r, via)
    BY <2>0, <2>1, MessageIsEntry, RawAppend
  <2>3. Descends(n)'
    BY <2>0, <2>2 DEF Descends, Message
  <2>4. RawIds' = RawIds \cup {n}
    BY <1>3, <2>0, <2>2 DEF RawIds
  <2>5. \A j \in RawIds' : Descends(j)'
    BY <1>2, <2>3, <2>4
  <2>6. \A j \in dlq' : j \in RawIds' /\ rawLog'[j].retry = MaxRetries
    BY <1>1, <1>7, <2>4 DEF RetryLedger, Grows
  <2> QED
    BY <2>5, <2>6 DEF RetryLedger
<1> QED
  BY <1>4, <1>5, <1>6, <1>7, KindOfStep DEF StepKinds, StageKinds, Preserve

(* No endless retry (workers/queue/dlq.py), whatever the bound, however    *)
(* many reapers share the work and whichever calls fail.                   *)
THEOREM RetriesAreLedgered == RawQueueSpec => []RetryLedger
<1>1. RawQueueInit => RetryLedger
  BY DEF RawQueueInit, StreamsInit, QueueInit, RetryLedger, RawIds
<1>2. Shape /\ RetryLedger /\ [RawQueueNext]_rawQueueVars => RetryLedger'
  BY StageSteps, LedgerStep
<1> QED
  BY <1>1, <1>2, ShapeAlways, PTL DEF RawQueueSpec

-----------------------------------------------------------------------------
(* No silent drop.  A message is acknowledged only by a consumer that is   *)
(* at "ack" or "routeAck" with it, so the strengthening says that those    *)
(* states are reached only with the message accounted for.                 *)
AckIsEarned == \A c \in Consumers : AtAck(c) => Accounted(Current(c))

LEMMA AccountedStays ==
    ASSUME Shape, Shape', Grows, NEW i \in RawIds, Accounted(i)
    PROVE  Accounted(i)'
<1>1. rawLog'[i] = rawLog[i]
  BY DEF Grows
<1>2. RawIds \subseteq RawIds' /\ AgentIds \subseteq AgentIds'
  <2>1. /\ Len(rawLog) \in Nat /\ Len(agentLog) \in Nat
        /\ Len(rawLog') \in Nat /\ Len(agentLog') \in Nat
    BY DEF Shape, StreamsTypeOK
  <2> QED
    BY <2>1 DEF Grows, RawIds, AgentIds
<1>3. CASE ~Parses(i)
  BY <1>1, <1>3 DEF Accounted, Parses
<1>4. CASE Forwarded(i)
  BY <1>2, <1>4 DEF Accounted, HandedOn, Forwarded, Grows
<1>5. CASE Copied(i)
  BY <1>2, <1>5 DEF Accounted, HandedOn, Copied, Grows
<1>6. CASE i \in dlq
  BY <1>6 DEF Accounted, HandedOn, Grows
<1> QED
  BY <1>3, <1>4, <1>5, <1>6 DEF Accounted, HandedOn

LEMMA PreserveAccounts ==
    ASSUME Shape, NEW i \in RawIds, Preserve(i)
    PROVE  Accounted(i)'
<1>1. CASE Retry(i)
  <2>0. PICK n \in Nat : n = Len(rawLog) + 1
    BY ShapeParts
  <2>1. rawLog' = Append(rawLog, Copy(i))
    BY <1>1 DEF Retry
  <2>2. Len(rawLog') = n /\ rawLog'[n] = Copy(i)
    BY <2>0, <2>1, CopyIsEntry, RawAppend
  <2>3. n \in RawIds'
    BY <2>0, <2>2, ShapeParts DEF RawIds
  <2>4. rawLog'[n].of = i
    BY <2>2 DEF Copy
  <2> QED
    BY <2>3, <2>4 DEF Accounted, HandedOn, Copied
<1>2. CASE Bury(i)
  BY <1>2 DEF Bury, Accounted, HandedOn
<1> QED
  BY <1>1, <1>2 DEF Preserve

LEMMA ForwardAccounts ==
    ASSUME Shape, NEW i \in RawIds, Forward(i)
    PROVE  Accounted(i)'
<1>0. PICK n \in Nat : n = Len(agentLog) + 1
  BY ShapeParts
<1>1. n \in AgentIds'
  BY <1>0, ForwardAppends, ShapeParts DEF AgentIds
<1>2. agentLog'[n].of = i
  BY <1>0, ForwardAppends
<1> QED
  BY <1>1, <1>2 DEF Accounted, HandedOn, Forwarded

(* A consumer that has not moved has earned its ack as before.             *)
LEMMA EarnedStays ==
    ASSUME Shape, Shape', Grows, AckIsEarned, NEW d \in Consumers, consumer'[d] = consumer[d]
    PROVE  (AtAck(d) => Accounted(Current(d)))'
<1> SUFFICES ASSUME AtAck(d) PROVE Accounted(Current(d))'
  BY DEF AtAck
<1>1. PICK i \in RawIds : i = Current(d)
  BY CurrentIsListed DEF At, AtAck
<1>2. Accounted(i)'
  BY <1>1, AccountedStays DEF AckIsEarned
<1>3. Current(d)' = i
  BY <1>1 DEF Current
<1> QED
  BY <1>2, <1>3

(* A consumer that moves arrives at "ack" or "routeAck" only by handing on. *)
LEMMA EarnedByMover ==
    ASSUME Shape, Shape', Grows, AckIsEarned, NEW c \in Consumers,
           \A d \in Consumers \ {c} : consumer'[d] = consumer[d],
           (AtAck(c) => Accounted(Current(c)))'
    PROVE  AckIsEarned'
  BY EarnedStays DEF AckIsEarned

LEMMA EarnedWorker ==
    ASSUME Shape, Shape', Grows, AckIsEarned,
           WorkerRead \/ WorkerProcess \/ WorkerAck \/ WorkerProcessFails \/ WorkerAckFails
    PROVE  AckIsEarned'
<1> USE WorkerIsNoReaper
<1>1. CASE WorkerRead
  <2>1. /\ consumer'[Worker].pc = "process"
        /\ \A d \in Consumers \ {Worker} : consumer'[d] = consumer[d]
    BY <1>1 DEF WorkerRead, Shape, ConsumersOK
  <2> QED
    BY <2>1, EarnedByMover DEF AtAck
<1>2. CASE WorkerProcess
  <2>1. PICK i \in RawIds : i = Current(Worker)
    BY <1>2, CurrentIsListed DEF WorkerProcess, At
  <2>2. /\ \A d \in Consumers \ {Worker} : consumer'[d] = consumer[d]
        /\ consumer'[Worker].batch = consumer[Worker].batch
    BY <1>2 DEF WorkerProcess, Goto, Shape, ConsumersOK
  <2>3. Accounted(i)'
    <3>1. CASE Entry(Worker).row \in Unreadable
      BY <1>2, <2>1, <3>1 DEF WorkerProcess, Entry, Accounted, Parses
    <3>2. CASE Forward(Current(Worker))
      BY <2>1, <3>2, ForwardAccounts
    <3> QED
      BY <1>2, <3>1, <3>2 DEF WorkerProcess
  <2>4. Current(Worker)' = i
    BY <2>1, <2>2 DEF Current
  <2> QED
    BY <2>2, <2>3, <2>4, EarnedByMover
<1>3. CASE WorkerAck
  <2>1. /\ consumer'[Worker].pc \in {"free", "process", "route"}
        /\ \A d \in Consumers \ {Worker} : consumer'[d] = consumer[d]
    BY <1>3, AdvanceOK DEF WorkerAck
  <2> QED
    BY <2>1, EarnedByMover DEF AtAck
<1>4. CASE WorkerProcessFails \/ WorkerAckFails
  <2>1. /\ consumer'[Worker].pc = "route"
        /\ \A d \in Consumers \ {Worker} : consumer'[d] = consumer[d]
    BY <1>4 DEF WorkerProcessFails, WorkerAckFails, Goto, Shape, ConsumersOK
  <2> QED
    BY <2>1, EarnedByMover DEF AtAck
<1> QED
  BY <1>1, <1>2, <1>3, <1>4

LEMMA EarnedRoute ==
    ASSUME Shape, Shape', Grows, AckIsEarned, NEW c \in Consumers,
           \/ Route(c) \/ RouteAck(c) \/ RouteFails(c) \/ RouteAckFails(c) \/ Crash(c)
    PROVE  AckIsEarned'
<1>1. CASE Route(c)
  <2>1. PICK i \in RawIds : i = Current(c)
    BY <1>1, CurrentIsListed DEF Route, At
  <2>2. /\ \A d \in Consumers \ {c} : consumer'[d] = consumer[d]
        /\ consumer'[c].batch = consumer[c].batch
    BY <1>1 DEF Route, Goto, Shape, ConsumersOK
  <2>3. Accounted(i)'
    BY <1>1, <2>1, PreserveAccounts DEF Route
  <2>4. Current(c)' = i
    BY <2>1, <2>2 DEF Current
  <2> QED
    BY <2>2, <2>3, <2>4, EarnedByMover
<1>2. CASE RouteAck(c) \/ RouteFails(c) \/ RouteAckFails(c) \/ Crash(c)
  <2>1. /\ consumer'[c].pc \in {"free", "process", "route"}
        /\ \A d \in Consumers \ {c} : consumer'[d] = consumer[d]
    BY <1>2, AdvanceOK, GiveUpOK, StopOK DEF RouteAck, RouteFails, RouteAckFails, Crash
  <2> QED
    BY <2>1, EarnedByMover DEF AtAck
<1> QED
  BY <1>1, <1>2

LEMMA EarnedStep ==
    ASSUME Shape, AckIsEarned, QueueStep
    PROVE  AckIsEarned'
<1>1. Shape' /\ Grows
  BY ShapeStep
<1>2. ASSUME UNCHANGED consumer PROVE AckIsEarned'
  BY <1>1, <1>2, EarnedStays DEF AckIsEarned
<1>3. CASE WorkerWorks
  BY <1>1, <1>3, EarnedWorker, EarnedRoute, WorkerIsNoReaper DEF WorkerWorks
<1>4. ASSUME NEW c \in Reapers, ReaperWorks(c) PROVE AckIsEarned'
  <2>1. CASE ReaperClaim(c)
    <3>1. /\ consumer'[c].pc = "route"
          /\ \A d \in Consumers \ {c} : consumer'[d] = consumer[d]
      BY <2>1, WorkerIsNoReaper DEF ReaperClaim, Shape, ConsumersOK
    <3> QED
      BY <1>1, <3>1, EarnedByMover, WorkerIsNoReaper DEF AtAck
  <2> QED
    BY <1>1, <1>4, <2>1, EarnedRoute, WorkerIsNoReaper DEF ReaperWorks
<1>5. CASE QueueFails
  BY <1>1, <1>5, EarnedWorker, EarnedRoute DEF QueueFails
<1>6. ASSUME NEW i \in rawPel, GrowIdle(i) PROVE AckIsEarned'
  BY <1>2, <1>6 DEF GrowIdle
<1>7. CASE Outside
  BY <1>2, <1>7 DEF Outside, queueVars
<1> QED
  BY <1>3, <1>4, <1>5, <1>6, <1>7 DEF QueueStep, QueueNext

LEMMA NoDropStep ==
    ASSUME Shape, AckIsEarned, NoSilentDrop, QueueStep
    PROVE  NoSilentDrop'
<1>1. Shape' /\ Grows
  BY ShapeStep
<1>2. ASSUME NEW i \in Settled' PROVE Accounted(i)'
  <2>1. CASE i \in Settled
    <3>1. i \in RawIds
      BY <2>1, ShapeParts DEF Settled, RawIds
    <3> QED
      BY <1>1, <2>1, <3>1, AccountedStays DEF NoSilentDrop
  <2>2. ASSUME NEW c \in Consumers, AtAck(c), i = Current(c) PROVE Accounted(i)'
    <3>1. i \in RawIds
      BY <2>2, CurrentIsListed DEF At, AtAck
    <3>2. Accounted(i)
      BY <2>2 DEF AckIsEarned, AtAck
    <3> QED
      BY <1>1, <3>1, <3>2, AccountedStays
  <2> QED
    BY <2>1, <2>2, KindOfStep DEF StepKinds, StageKinds
<1> QED
  BY <1>2 DEF NoSilentDrop

(* No silent drop (workers/queue/dlq.py): however many consumers crash,    *)
(* raise and race, a message that left the PEL was forwarded, republished  *)
(* as a copy or set aside - or never parsed.                               *)
THEOREM NothingIsDropped == RawQueueSpec => []NoSilentDrop
<1>1. RawQueueInit => AckIsEarned /\ NoSilentDrop
  BY DEF RawQueueInit, StreamsInit, QueueInit, AckIsEarned, AtAck, Free, NoSilentDrop, Settled
<1>2. Shape /\ AckIsEarned /\ NoSilentDrop /\ [RawQueueNext]_rawQueueVars
          => AckIsEarned' /\ NoSilentDrop'
  BY StageSteps, EarnedStep, NoDropStep
<1> QED
  BY <1>1, <1>2, ShapeAlways, PTL DEF RawQueueSpec

-----------------------------------------------------------------------------
(* The stage implements Handoff: each step is a step of Handoff on the     *)
(* messages that parse, or changes nothing of them.  The step that needs   *)
(* an argument is an acknowledgement that leaves a message without a live  *)
(* entry.  Its entries form a tree of copies; the youngest is accounted    *)
(* for like all the others and has no copy, so it was forwarded or is a    *)
(* dead letter.                                                            *)

(* The refinement mapping of Promise, part by part. *)
Accepted == Messages(RawIds)
Open == Messages(Live)
Delivered == {rawLog[agentLog[k].of].root : k \in AgentIds}
Dead == Messages(dlq)

(* An agent message is forwarded for an entry of the stream. *)
ForwardsKnown == \A k \in AgentIds : agentLog[k].of \in RawIds

LEMMA ForwardsStep ==
    ASSUME Shape, ForwardsKnown, QueueStep
    PROVE  ForwardsKnown'
<1>1. Shape' /\ Grows
  BY ShapeStep
<1>2. RawIds \subseteq RawIds' /\ Len(agentLog) \in Nat
  BY <1>1 DEF Shape, StreamsTypeOK, Grows, RawIds
<1>3. CASE UNCHANGED agentLog
  BY <1>2, <1>3 DEF ForwardsKnown, AgentIds
<1>4. ASSUME NEW i \in RawIds, Forward(i) PROVE ForwardsKnown'
  <2>0. PICK n \in Nat : n = Len(agentLog) + 1
    BY <1>2
  <2>1. AgentIds' = AgentIds \cup {n} /\ agentLog'[n].of = i
    BY <1>2, <1>4, <2>0, ForwardAppends DEF AgentIds
  <2>2. \A k \in AgentIds : agentLog'[k] = agentLog[k]
    BY <1>1 DEF Grows
  <2> QED
    BY <1>2, <2>1, <2>2 DEF ForwardsKnown
<1> QED
  BY <1>3, <1>4, KindOfStep DEF StepKinds, StageKinds

-----------------------------------------------------------------------------
(* The greatest of a bounded set of ids. *)
LEMMA GreatestExists ==
    ASSUME NEW B, B # {}, NEW n \in Nat, B \subseteq 0..n
    PROVE  \E i \in B : \A j \in B : j <= i
<1> DEFINE C == {n - j : j \in B}
<1>0. \A j \in B : n - j \in Nat
  OBVIOUS
<1>1. C \in SUBSET Nat /\ C # {}
  BY <1>0
<1>2. PICK m \in C : \A k \in C : m <= k
  BY <1>1, LeastExists
<1>3. PICK i \in B : m = n - i
  BY <1>2
<1>4. ASSUME NEW j \in B PROVE j <= i
  <2>1. n - j \in C
    OBVIOUS
  <2>2. n - i <= n - j
    BY <1>2, <1>3, <2>1
  <2> QED
    BY <2>2
<1> QED
  BY <1>4

(* A message is never older than its first entry. *)
LEMMA RootIsOlder ==
    ASSUME Shape, RetryLedger
    PROVE  \A i \in RawIds : rawLog[i].root <= i
<1> DEFINE B == {i \in RawIds : ~(rawLog[i].root <= i)}
<1> SUFFICES ASSUME B # {} PROVE FALSE
  OBVIOUS
<1>1. B \in SUBSET Nat
  BY DEF RawIds
<1>2. PICK i \in B : \A j \in B : i <= j
  BY <1>1, LeastExists
<1>3. i \in RawIds /\ Descends(i) /\ ~(rawLog[i].root <= i)
  BY <1>2 DEF RetryLedger
<1>4. rawLog[i].of # 0
  BY <1>3, EntryParts DEF Descends
<1> DEFINE p == rawLog[i].of
<1>5. p < i /\ rawLog[p].root = rawLog[i].root
  BY <1>3, <1>4 DEF Descends
<1>6. p \in RawIds
  BY <1>3, <1>4, <1>5, EntryParts, ShapeParts DEF RawIds
<1>7. p \in B
  BY <1>3, <1>5, <1>6, EntryParts
<1> QED
  BY <1>2, <1>3, <1>5, <1>6, <1>7, EntryParts

(* The chain argument: a message all of whose entries are accounted for    *)
(* has been delivered or set aside.                                        *)
LEMMA AccountedMessage ==
    ASSUME Shape, RetryLedger, ForwardsKnown, NEW i \in RawIds, Parses(i),
           \A j \in RawIds : rawLog[j].root = rawLog[i].root => Accounted(j)
    PROVE  rawLog[i].root \in Delivered \cup Dead
<1> DEFINE B == {j \in RawIds : rawLog[j].root = rawLog[i].root /\ Parses(j)}
<1>1. B # {} /\ B \subseteq 0..Len(rawLog) /\ Len(rawLog) \in Nat
  BY ShapeParts DEF RawIds
<1>2. PICK j \in B : \A k \in B : k <= j
  BY <1>1, GreatestExists
<1>3. j \in RawIds /\ rawLog[j].root = rawLog[i].root /\ Parses(j) /\ HandedOn(j)
  BY <1>2 DEF Accounted
<1>4. ~Copied(j)
  <2> SUFFICES ASSUME NEW k \in RawIds, rawLog[k].of = j PROVE FALSE
    BY DEF Copied
  <2>1. j # 0 /\ Descends(k)
    BY <1>3, EntryParts DEF RetryLedger
  <2>2. j < k /\ rawLog[k].root = rawLog[j].root /\ rawLog[k].row = rawLog[j].row
    BY <2>1 DEF Descends
  <2>3. k \in B
    BY <1>3, <2>2 DEF Parses
  <2> QED
    BY <1>2, <1>3, <2>2, <2>3, EntryParts
<1>5. CASE Forwarded(j)
  BY <1>3, <1>5 DEF Forwarded, Delivered
<1>6. CASE j \in dlq
  BY <1>3, <1>6 DEF Dead, Messages
<1> QED
  BY <1>3, <1>4, <1>5, <1>6 DEF HandedOn

-----------------------------------------------------------------------------
(* What each kind of step does to the four sets.                           *)
LEMMA RootsKept ==
    ASSUME Shape, Shape', Grows, ForwardsKnown, UNCHANGED agentLog
    PROVE  Delivered' = Delivered
  BY DEF Grows, ForwardsKnown, Delivered, AgentIds

LEMMA StillStep ==
    ASSUME UNCHANGED <<rawLog, agentLog, dlq, Settled>>
    PROVE  UNCHANGED <<Accepted, Open, Delivered, Dead>>
  BY DEF Accepted, Open, Delivered, Dead, Live, RawIds, AgentIds, Messages, Parses

LEMMA ForwardStep ==
    ASSUME Shape, NEW i \in RawIds, Forward(i), UNCHANGED <<rawLog, dlq, Settled>>
    PROVE  /\ Delivered' = Delivered \cup {rawLog[i].root}
           /\ UNCHANGED <<Accepted, Open, Dead>>
<1>0. PICK n \in Nat : n = Len(agentLog) + 1
  BY ShapeParts
<1>1. AgentIds' = AgentIds \cup {n} /\ agentLog'[n].of = i
  BY <1>0, ForwardAppends, ShapeParts DEF AgentIds
<1>2. \A k \in AgentIds : agentLog'[k] = agentLog[k]
  BY ForwardAppends
<1>3. Delivered' = Delivered \cup {rawLog[i].root}
  BY <1>1, <1>2 DEF Delivered
<1>4. UNCHANGED <<Accepted, Open, Dead>>
  BY DEF Accepted, Open, Dead, Live, RawIds, Messages, Parses
<1> QED
  BY <1>3, <1>4

(* An entry appended to the raw stream is live, with the root it has; one   *)
(* that does not parse is no message.                                       *)
LEMMA AppendStep ==
    ASSUME Shape, NEW e \in RawEntry, rawLog' = Append(rawLog, e), dlq' = dlq,
           Settled' = Settled, RetryLedger
    PROVE  LET new == IF e.row \in Unreadable THEN {} ELSE {e.root}
           IN  /\ Accepted' = Accepted \cup new
               /\ Open' = Open \cup new
               /\ Dead' = Dead
<1> DEFINE new == IF e.row \in Unreadable THEN {} ELSE {e.root}
<1>0. PICK n \in Nat : n = Len(rawLog) + 1
  BY ShapeParts
<1>1. /\ Len(rawLog') = n /\ rawLog'[n] = e
      /\ \A i \in RawIds : rawLog'[i] = rawLog[i]
  BY <1>0, RawAppend
<1>2. RawIds' = RawIds \cup {n} /\ n \notin Settled
  BY <1>0, <1>1, ShapeParts DEF RawIds, Settled
<1>3. Live' = Live \cup {n} /\ Live \subseteq RawIds
  BY <1>2 DEF Live
<1>4. ASSUME NEW ids \in SUBSET RawIds
      PROVE  /\ {rawLog'[i].root : i \in {j \in ids : rawLog'[j].row \notin Unreadable}}
                  = Messages(ids)
             /\ {rawLog'[i].root : i \in {j \in ids \cup {n} : rawLog'[j].row \notin Unreadable}}
                  = Messages(ids) \cup new
  BY <1>1 DEF Messages, Parses
<1>5. Accepted' = Accepted \cup new
  BY <1>2, <1>4 DEF Accepted, Messages, Parses
<1>6. Open' = Open \cup new
  BY <1>3, <1>4 DEF Open, Messages, Parses
<1>7. Dead' = Dead
  BY <1>4 DEF Dead, RetryLedger, Messages, Parses
<1> QED
  BY <1>5, <1>6, <1>7

LEMMA BuryStep ==
    ASSUME Shape, NEW i \in RawIds, Bury(i), UNCHANGED <<agentLog, Settled>>
    PROVE  /\ Dead' = Dead \cup Messages({i})
           /\ UNCHANGED <<Accepted, Open, Delivered>>
<1>1. rawLog' = rawLog /\ dlq' = dlq \cup {i}
  BY DEF Bury
<1>2. Dead' = Dead \cup Messages({i})
  BY <1>1 DEF Dead, Messages, Parses
<1>3. UNCHANGED <<Accepted, Open, Delivered>>
  BY <1>1 DEF Accepted, Open, Delivered, Live, RawIds, AgentIds, Messages, Parses
<1> QED
  BY <1>2, <1>3

(* An acknowledgement closes the message, or changes nothing of it. *)
LEMMA AckStep ==
    ASSUME Shape, RetryLedger, NoSilentDrop, AckIsEarned, ForwardsKnown,
           UNCHANGED <<rawLog, agentLog, dlq>>,
           NEW c \in Consumers, AtAck(c), Settled' = Settled \cup {Current(c)}
    PROVE  /\ UNCHANGED <<Accepted, Delivered, Dead>>
           /\ \/ Open' = Open
              \/ \E p \in Accepted \cap (Delivered \cup Dead) : Open' = Open \ {p}
<1>1. UNCHANGED <<Accepted, Delivered, Dead>>
  BY DEF Accepted, Delivered, Dead, RawIds, AgentIds, Messages, Parses
<1>2. PICK i \in RawIds : i = Current(c)
  BY CurrentIsListed DEF At, AtAck
<1>3. Accounted(i)
  BY <1>2 DEF AckIsEarned
<1>4. Live' = Live \ {i} /\ Live \subseteq RawIds /\ rawLog' = rawLog
  BY <1>2 DEF Live, RawIds
<1>5. CASE ~Parses(i) \/ \E j \in Live \ {i} : Parses(j) /\ rawLog[j].root = rawLog[i].root
  <2>1. Open' = Open
    BY <1>4, <1>5 DEF Open, Messages, Parses
  <2> QED
    BY <1>1, <2>1
<1>6. CASE Parses(i) /\ \A j \in Live \ {i} : Parses(j) => rawLog[j].root # rawLog[i].root
  <2>1. \A j \in RawIds : rawLog[j].root = rawLog[i].root => Accounted(j)
    BY <1>3, <1>6 DEF Live, NoSilentDrop, Accounted
  <2>2. rawLog[i].root \in Delivered \cup Dead
    BY <1>6, <2>1, AccountedMessage
  <2>3. Open' = Open \ {rawLog[i].root}
    BY <1>4, <1>6 DEF Open, Messages, Parses
  <2>4. rawLog[i].root \in Accepted
    BY <1>6 DEF Accepted, Messages
  <2> QED
    BY <1>1, <2>2, <2>3, <2>4
<1> QED
  BY <1>5, <1>6

-----------------------------------------------------------------------------
QueueInv == Shape /\ RetryLedger /\ AckIsEarned /\ NoSilentDrop /\ ForwardsKnown

LEMMA QueueInvStep == ASSUME QueueInv, QueueStep PROVE QueueInv'
  BY ShapeStep, LedgerStep, EarnedStep, NoDropStep, ForwardsStep DEF QueueInv

LEMMA QueueInvAlways == RawQueueSpec => []QueueInv
<1>1. RawQueueInit => QueueInv
  BY ShapeInit
  DEF RawQueueInit, StreamsInit, QueueInit, QueueInv, RetryLedger, AckIsEarned, AtAck, Free,
      NoSilentDrop, Settled, ForwardsKnown, RawIds, AgentIds
<1>2. QueueInv /\ [RawQueueNext]_rawQueueVars => QueueInv'
  BY StageSteps, QueueInvStep DEF QueueInv
<1> QED
  BY <1>1, <1>2, PTL DEF RawQueueSpec

LEMMA HandoffInitial == RawQueueInit => Promise!HandoffInit
  BY DEF RawQueueInit, StreamsInit, QueueInit, Promise!HandoffInit, RawIds, AgentIds, Live,
         Settled, Messages

LEMMA HandoffStep ==
    ASSUME QueueInv, QueueStep
    PROVE  [Promise!HandoffNext]_Promise!handoffVars
<1> USE DEF QueueInv
<1>0. Shape' /\ Grows
  BY ShapeStep
<1> DEFINE Goal == [Promise!HandoffNext]_Promise!handoffVars
<1>1. ASSUME UNCHANGED <<Accepted, Open, Delivered, Dead>> PROVE Goal
  BY <1>1 DEF Accepted, Open, Delivered, Dead, Promise!handoffVars
<1>2. ASSUME NEW i \in RawIds, Parses(i), Forward(i), UNCHANGED <<rawLog, dlq, Settled>>
      PROVE  Goal
  <2>1. /\ Delivered' = Delivered \cup {rawLog[i].root}
        /\ UNCHANGED <<Accepted, Open, Dead>>
    BY <1>2, ForwardStep
  <2>2. PICK p \in Accepted : p = rawLog[i].root
    BY <1>2 DEF Accepted, Messages
  <2>3. Promise!Deliver(p)
    BY <2>1, <2>2 DEF Accepted, Open, Delivered, Dead, Promise!Deliver
  <2> QED
    BY <2>2, <2>3 DEF Accepted, Promise!HandoffNext
<1>3. ASSUME NEW i \in RawIds, Retry(i), UNCHANGED <<agentLog, Settled>> PROVE Goal
  <2>1. LET new == IF Copy(i).row \in Unreadable THEN {} ELSE {Copy(i).root}
        IN  Accepted' = Accepted \cup new /\ Open' = Open \cup new /\ Dead' = Dead
    BY <1>3, CopyIsEntry, AppendStep DEF Retry
  <2>2. Delivered' = Delivered
    BY <1>0, <1>3, RootsKept
  <2>3. CASE ~Parses(i)
    BY <1>1, <2>1, <2>2, <2>3 DEF Copy, Parses
  <2>4. CASE Parses(i)
    <3>1. PICK p \in Accepted : p = Copy(i).root
      BY <2>4 DEF Accepted, Messages, Copy
    <3>2. Accepted' = Accepted /\ Open' = Open \cup {p} /\ Dead' = Dead
      BY <2>1, <2>4, <3>1 DEF Copy, Parses
    <3>3. Promise!Reopen(p)
      BY <2>2, <3>2 DEF Accepted, Open, Delivered, Dead, Promise!Reopen
    <3> QED
      BY <3>1, <3>3 DEF Accepted, Promise!HandoffNext
  <2> QED
    BY <2>3, <2>4
<1>4. ASSUME NEW i \in RawIds, Bury(i), UNCHANGED <<agentLog, Settled>> PROVE Goal
  <2>1. /\ Dead' = Dead \cup Messages({i})
        /\ UNCHANGED <<Accepted, Open, Delivered>>
    BY <1>4, BuryStep
  <2>2. CASE ~Parses(i)
    BY <1>1, <2>1, <2>2 DEF Messages
  <2>3. CASE Parses(i)
    <3>1. PICK p \in Accepted : p = rawLog[i].root
      BY <2>3 DEF Accepted, Messages
    <3>2. Dead' = Dead \cup {p}
      BY <2>1, <2>3, <3>1 DEF Messages
    <3>3. Promise!SetAside(p)
      BY <2>1, <3>2 DEF Accepted, Open, Delivered, Dead, Promise!SetAside
    <3> QED
      BY <3>1, <3>3 DEF Accepted, Promise!HandoffNext
  <2> QED
    BY <2>2, <2>3
<1>5. ASSUME UNCHANGED <<rawLog, agentLog, dlq>>, NEW c \in Consumers, AtAck(c),
             Settled' = Settled \cup {Current(c)}
      PROVE  Goal
  <2>1. /\ UNCHANGED <<Accepted, Delivered, Dead>>
        /\ \/ Open' = Open
           \/ \E p \in Accepted \cap (Delivered \cup Dead) : Open' = Open \ {p}
    BY <1>5, AckStep
  <2>2. ASSUME NEW p \in Accepted \cap (Delivered \cup Dead), Open' = Open \ {p} PROVE Goal
    <3>1. Promise!Close(p)
      BY <2>1, <2>2 DEF Accepted, Open, Delivered, Dead, Promise!Close
    <3> QED
      BY <2>2, <3>1 DEF Accepted, Promise!HandoffNext
  <2> QED
    BY <1>1, <2>1, <2>2
<1>6. ASSUME Published, UNCHANGED <<agentLog, dlq, Settled>> PROVE Goal
  <2>0. PICK p \in Nat : p = Len(rawLog) + 1
    BY ShapeParts
  <2>1. PICK r \in Rows, via \in Origins : rawLog' = Append(rawLog, Message(r, via))
    BY <1>6 DEF Published
  <2>2. Message(r, via) \in RawEntry /\ Message(r, via).root = p /\ Message(r, via).row = r
    BY <2>0, MessageIsEntry DEF Message
  <2>3. LET new == IF r \in Unreadable THEN {} ELSE {p}
        IN  Accepted' = Accepted \cup new /\ Open' = Open \cup new /\ Dead' = Dead
    BY <1>6, <2>1, <2>2, AppendStep
  <2>4. Delivered' = Delivered
    BY <1>0, <1>6, RootsKept
  <2>5. p \notin Accepted
    BY <2>0, RootIsOlder, EntryParts, ShapeParts DEF Accepted, Messages, RawIds
  <2>6. CASE r \in Unreadable
    BY <1>1, <2>3, <2>4, <2>6
  <2>7. CASE r \notin Unreadable
    <3>1. Accepted' = Accepted \cup {p} /\ Open' = Open \cup {p} /\ Dead' = Dead
      BY <2>3, <2>7
    <3>2. Promise!Accept(p)
      BY <2>4, <2>5, <3>1 DEF Accepted, Open, Delivered, Dead, Promise!Accept
    <3>3. p \in Accepted'
      BY <3>1
    <3> QED
      BY <3>2, <3>3 DEF Accepted, Promise!HandoffNext
  <2> QED
    BY <2>6, <2>7
<1> QED
  BY <1>1, <1>2, <1>3, <1>4, <1>5, <1>6, StillStep, KindOfStep DEF StepKinds, StageKinds, Preserve

(* The ingest stage implements Handoff: of the messages that parse, none   *)
(* is closed that was not handed over or set aside.                        *)
THEOREM StageImplementsHandoff == RawQueueSpec => ImplementsHandoff
<1>1. RawQueueInit => Promise!HandoffInit
  BY HandoffInitial
<1>2. QueueInv /\ [RawQueueNext]_rawQueueVars => [Promise!HandoffNext]_Promise!handoffVars
  BY StageSteps, HandoffStep DEF QueueInv
<1> QED
  BY <1>1, <1>2, QueueInvAlways, PTL DEF RawQueueSpec, ImplementsHandoff, Promise!HandoffSafety

(* So no published message that parses is lost: it is open, handed over or *)
(* set aside.                                                              *)
THEOREM NoMessageIsLost == RawQueueSpec => []Promise!NothingLost
<1>1. QueueInv => Promise!NothingLost
  <2> SUFFICES ASSUME QueueInv, NEW i \in RawIds, Parses(i), rawLog[i].root \notin Open
               PROVE  rawLog[i].root \in Delivered \cup Dead
    BY DEF Promise!NothingLost, Open, Delivered, Dead, Messages
  <2>1. \A j \in RawIds : rawLog[j].root = rawLog[i].root => Accounted(j)
    BY DEF QueueInv, NoSilentDrop, Open, Live, Messages, Accounted
  <2> QED
    BY <2>1, AccountedMessage DEF QueueInv
<1> QED
  BY <1>1, QueueInvAlways, PTL

=============================================================================
