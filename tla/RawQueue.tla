------------------------------ MODULE RawQueue ------------------------------
(***************************************************************************)
(* The ingest stage: consumer group group:ingest on stream:raw_events, the *)
(* worker of workers/queue/consumer.py that reads it, and the reapers      *)
(* (workers/tools/run_recovery_scheduler.py, and the CLI run_dlq_reaper.py)*)
(* that take over what a crashed worker left pending.  Worker and reapers  *)
(* share route_failure of workers/queue/dlq.py: republish a failed message *)
(* as a copy with _retry_count + 1, or set it aside in the dead letter     *)
(* stream once the count has reached MaxRetries, and only then acknowledge *)
(* the original.                                                           *)
(*                                                                         *)
(* Every call to Redis is a step of its own and can fail, applied or not.  *)
(***************************************************************************)
EXTENDS Streams, FiniteSets

CONSTANTS Unreadable,   \* rows whose message does not parse in process()
          Worker,       \* the consumer worker-1
          Scheduler,    \* the reaper the recovery-scheduler service runs
          Operators,    \* reapers an operator starts by hand
          MaxRetries,   \* _MAX_RETRIES
          PublishLimit  \* bound on messages published from outside

Reapers == {Scheduler} \cup Operators
Consumers == {Worker} \cup Reapers

ASSUME RawQueueAssumption ==
    /\ Unreadable \subseteq Rows
    /\ Worker \notin Reapers
    /\ MaxRetries \in Nat
    /\ PublishLimit \in Nat

VARIABLES rawCursor,  \* last-delivered-id of the group
          rawPel,     \* delivered and not acknowledged (the group's PEL)
          rawIdle,    \* pending for longer than min-idle-ms
          dlq,        \* ids whose message is in stream:raw_events:dlq
          consumer    \* what each consumer is doing, and its batch

queueVars == <<rawCursor, rawPel, rawIdle, dlq, consumer>>
rawQueueVars == <<streamVars, queueVars>>

Stages == {"free", "process", "ack", "route", "routeAck"}
Free == [pc |-> "free", batch |-> {}]

QueueTypeOK ==
    /\ rawCursor \in Nat
    /\ rawPel \subseteq Nat
    /\ rawIdle \subseteq rawPel
    /\ dlq \subseteq Nat
    /\ consumer \in [Consumers -> [pc : Stages, batch : SUBSET Nat]]

QueueInit ==
    /\ rawCursor = 0
    /\ rawPel = {}
    /\ rawIdle = {}
    /\ dlq = {}
    /\ consumer = [c \in Consumers |-> Free]

-----------------------------------------------------------------------------
At(c, stage) == consumer[c].pc = stage

(* The message a consumer is at: the first of what is left of its batch. *)
Current(c) == First(consumer[c].batch)
Entry(c) == rawLog[Current(c)]

Goto(c, stage) == consumer' = [consumer EXCEPT ![c].pc = stage]

(* On to the next message: the worker processes it, a reaper routes it. *)
Advance(c) ==
    LET rest == consumer[c].batch \ {Current(c)}
    IN  consumer' = [consumer EXCEPT ![c] =
            IF rest = {} THEN Free
            ELSE [pc |-> IF c = Worker THEN "process" ELSE "route", batch |-> rest]]

(* A reaper run or a process ends and forgets its batch. *)
Stop(c) == consumer' = [consumer EXCEPT ![c] = Free]

(* Mutant: the bookkeeping of idle times outlives the pending entry. *)
XAckKeepsIdle(i) == rawPel' = rawPel \ {i} /\ UNCHANGED rawIdle

XAck(i) == /\ rawPel' = rawPel \ {i}
           /\ rawIdle' = rawIdle \ {i}

(* XREADGROUP ">": the next messages nobody has been given yet. *)
WorkerRead ==
    /\ At(Worker, "free")
    /\ rawCursor < Len(rawLog)
    /\ LET new == rawCursor + 1 .. LastRead(rawLog, rawCursor)
       IN  /\ rawCursor' = LastRead(rawLog, rawCursor)
           /\ rawPel' = rawPel \cup new
           /\ consumer' = [consumer EXCEPT ![Worker] = [pc |-> "process", batch |-> new]]
    /\ UNCHANGED <<streamVars, rawIdle, dlq>>

Forward(i) == agentLog' = Append(agentLog, [row |-> rawLog[i].row, of |-> i])

(* process: a message that does not parse is logged and returned from, any *)
(* other is forwarded to the agent stage.                                  *)
WorkerProcess ==
    /\ At(Worker, "process")
    /\ \/ Entry(Worker).row \in Unreadable /\ UNCHANGED agentLog
       \/ Entry(Worker).row \notin Unreadable /\ Forward(Current(Worker))
    /\ Goto(Worker, "ack")
    /\ UNCHANGED <<rawLog, faults, rawCursor, rawPel, rawIdle, dlq>>

(* Mutant: process swallows the exception of its XADD. *)
WorkerSwallowsException ==
    /\ At(Worker, "process")
    /\ Entry(Worker).row \notin Unreadable
    /\ Fault
    /\ Forward(Current(Worker)) \/ UNCHANGED agentLog
    /\ Goto(Worker, "ack")
    /\ UNCHANGED <<rawLog, rawCursor, rawPel, rawIdle, dlq>>

(* The XADD of process raises, applied or not: off to route_failure. *)
WorkerProcessFails ==
    /\ At(Worker, "process")
    /\ Entry(Worker).row \notin Unreadable
    /\ Fault
    /\ Forward(Current(Worker)) \/ UNCHANGED agentLog
    /\ Goto(Worker, "route")
    /\ UNCHANGED <<rawLog, rawCursor, rawPel, rawIdle, dlq>>

WorkerAck ==
    /\ At(Worker, "ack")
    /\ XAck(Current(Worker))
    /\ Advance(Worker)
    /\ UNCHANGED <<streamVars, rawCursor, dlq>>

(* The XACK after a successful process is inside the same try block. *)
WorkerAckFails ==
    /\ At(Worker, "ack")
    /\ Fault
    /\ XAck(Current(Worker)) \/ UNCHANGED <<rawPel, rawIdle>>
    /\ Goto(Worker, "route")
    /\ UNCHANGED <<rawLog, agentLog, rawCursor, dlq>>

(* Mutant: the claim starts after its start_id, not at it. *)
ReaperClaimsPastStart(c) ==
    /\ c \in Reapers
    /\ At(c, "free")
    /\ Cardinality(rawIdle) > 1
    /\ consumer' = [consumer EXCEPT ![c] =
           [pc |-> "route", batch |-> rawIdle \ {First(rawIdle)}]]
    /\ rawIdle' = {First(rawIdle)}
    /\ UNCHANGED <<streamVars, rawCursor, rawPel, dlq>>

(* XAUTOCLAIM: a free reaper takes every message idle for too long. *)
ReaperClaim(c) ==
    /\ c \in Reapers
    /\ At(c, "free")
    /\ rawIdle # {}
    /\ consumer' = [consumer EXCEPT ![c] = [pc |-> "route", batch |-> rawIdle]]
    /\ rawIdle' = {}
    /\ UNCHANGED <<streamVars, rawCursor, rawPel, dlq>>

-----------------------------------------------------------------------------
(* The copy route_failure republishes. *)
Copy(i) == [row |-> rawLog[i].row, retry |-> rawLog[i].retry + 1, via |-> "retry",
            of |-> i, root |-> rawLog[i].root]

(* Mutant: off by one, a message is retried MaxRetries + 1 times. *)
RetryOnceTooOften(i) ==
    /\ rawLog[i].retry <= MaxRetries
    /\ rawLog' = Append(rawLog, Copy(i))
    /\ UNCHANGED dlq

(* route_failure, first half: where the message is preserved. *)
Retry(i) ==
    /\ rawLog[i].retry < MaxRetries
    /\ rawLog' = Append(rawLog, Copy(i))
    /\ UNCHANGED dlq

Bury(i) ==
    /\ rawLog[i].retry >= MaxRetries
    /\ dlq' = dlq \cup {i}
    /\ UNCHANGED rawLog

Preserve(i) == Retry(i) \/ Bury(i)

Route(c) ==
    /\ At(c, "route")
    /\ Preserve(Current(c))
    /\ Goto(c, "routeAck")
    /\ UNCHANGED <<agentLog, faults, rawCursor, rawPel, rawIdle>>

(* route_failure, second half: acknowledge the original. *)
RouteAck(c) ==
    /\ At(c, "routeAck")
    /\ XAck(Current(c))
    /\ Advance(c)
    /\ UNCHANGED <<streamVars, rawCursor, dlq>>

(* An exception out of route_failure: the worker logs it and goes on with  *)
(* the next message, a reaper run ends.                                    *)
GiveUp(c) == IF c = Worker THEN Advance(c) ELSE Stop(c)

(* Mutant: the XACK of route_failure stands in a finally block. *)
RouteFailsAndAcks(c) ==
    /\ At(c, "route")
    /\ Fault
    /\ Preserve(Current(c)) \/ UNCHANGED <<rawLog, dlq>>
    /\ XAck(Current(c))
    /\ GiveUp(c)
    /\ UNCHANGED <<agentLog, rawCursor>>

RouteFails(c) ==
    /\ At(c, "route")
    /\ Fault
    /\ Preserve(Current(c)) \/ UNCHANGED <<rawLog, dlq>>
    /\ GiveUp(c)
    /\ UNCHANGED <<agentLog, rawCursor, rawPel, rawIdle>>

RouteAckFails(c) ==
    /\ At(c, "routeAck")
    /\ Fault
    /\ XAck(Current(c)) \/ UNCHANGED <<rawPel, rawIdle>>
    /\ GiveUp(c)
    /\ UNCHANGED <<rawLog, agentLog, rawCursor, dlq>>

(* A consumer is killed; its batch stays pending. *)
Crash(c) ==
    /\ ~At(c, "free")
    /\ Fault
    /\ Stop(c)
    /\ UNCHANGED <<rawLog, agentLog, rawCursor, rawPel, rawIdle, dlq>>

(* Time passes: a pending message has been idle for min-idle-ms. *)
GrowIdle(i) ==
    /\ i \in rawPel \ rawIdle
    /\ rawIdle' = rawIdle \cup {i}
    /\ UNCHANGED <<streamVars, rawCursor, rawPel, dlq, consumer>>

WorkerWorks == WorkerRead \/ WorkerProcess \/ WorkerAck \/ Route(Worker) \/ RouteAck(Worker)
ReaperWorks(c) == ReaperClaim(c) \/ Route(c) \/ RouteAck(c)
QueueFails ==
    \/ WorkerProcessFails \/ WorkerAckFails
    \/ \E c \in Consumers : RouteFails(c) \/ RouteAckFails(c) \/ Crash(c)

QueueNext ==
    \/ WorkerWorks
    \/ \E c \in Reapers : ReaperWorks(c)
    \/ QueueFails
    \/ \E i \in rawPel : GrowIdle(i)

-----------------------------------------------------------------------------
(* The stage on its own: anybody may publish messages, PublishLimit of them.*)
Originals == {i \in RawIds : rawLog[i].of = 0}

Publish(r) ==
    /\ Cardinality(Originals) < PublishLimit
    /\ EnqueueRawEvent(r, IF \E i \in RawIds : rawLog[i].row = r THEN "requeue" ELSE "create")
    /\ UNCHANGED <<agentLog, faults, queueVars>>

RawQueueInit == StreamsInit /\ QueueInit
RawQueueNext == QueueNext \/ \E r \in Rows : Publish(r)

(* The worker and the recovery scheduler are restarted when they stop, and *)
(* the clock runs.  An operator need not come back to a run he began.      *)
QueueFairness ==
    /\ WF_rawQueueVars(WorkerWorks)
    /\ WF_rawQueueVars(ReaperWorks(Scheduler))
    /\ WF_rawQueueVars(\E i \in rawPel : GrowIdle(i))

RawQueueSpec == RawQueueInit /\ [][RawQueueNext]_rawQueueVars
RawQueueFairSpec == RawQueueSpec /\ QueueFairness

-----------------------------------------------------------------------------
Settled == 1..rawCursor \ rawPel
Live == RawIds \ Settled

Parses(i) == rawLog[i].row \notin Unreadable
Forwarded(i) == \E k \in AgentIds : agentLog[k].of = i
Copied(i) == \E j \in RawIds : rawLog[j].of = i
HandedOn(i) == Forwarded(i) \/ Copied(i) \/ i \in dlq
Accounted(i) == Parses(i) => HandedOn(i)

RawQueueTypeOK == StreamsTypeOK /\ QueueTypeOK

(* No silent drop (workers/queue/dlq.py): whatever crashed, raised or raced, *)
(* a message leaves the PEL only once it has been forwarded to the agent     *)
(* stage, republished as a copy, or set aside in the dead letter stream.     *)
(* Only a message that does not parse is acknowledged with nothing kept.     *)
NoSilentDrop == \A i \in Settled : Accounted(i)

(* An entry is an original, or a copy of an older entry of its message.      *)
Descends(i) ==
    IF rawLog[i].of = 0
    THEN rawLog[i].retry = 0 /\ rawLog[i].root = i
    ELSE LET parent == rawLog[rawLog[i].of]
         IN  /\ rawLog[i].of < i
             /\ rawLog[i].retry = parent.retry + 1
             /\ rawLog[i].retry <= MaxRetries
             /\ rawLog[i].row = parent.row
             /\ rawLog[i].root = parent.root

(* No endless retry (workers/queue/dlq.py): a copy descends from an older    *)
(* entry of the same message and counts one retry more, no count exceeds     *)
(* MaxRetries, and a message is given up only with all its retries spent.    *)
RetryLedger ==
    /\ \A i \in RawIds : Descends(i)
    /\ \A i \in dlq : i \in RawIds /\ rawLog[i].retry = MaxRetries

-----------------------------------------------------------------------------
(* The refinement: a message that parses is open while some entry of it is   *)
(* live.                                                                     *)
Messages(ids) == {rawLog[i].root : i \in {j \in ids : Parses(j)}}

Promise == INSTANCE Handoff WITH
    accepted <- Messages(RawIds),
    open <- Messages(Live),
    delivered <- {rawLog[agentLog[k].of].root : k \in AgentIds},
    dead <- Messages(dlq)

(* The stage implements Handoff: of the messages that parse, it closes none  *)
(* that it has not handed over or set aside.                                 *)
ImplementsHandoff == Promise!HandoffSafety

=============================================================================
