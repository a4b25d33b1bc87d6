------------------------------ MODULE Streams ------------------------------
(***************************************************************************)
(* The two Redis streams between the backend, the ingest worker and the    *)
(* agent worker.  Nothing in the code trims or deletes a stream (xadd is   *)
(* called without MAXLEN, there is no XDEL), so a stream is an append-only *)
(* sequence and the id of an entry is its position.                        *)
(*                                                                         *)
(* A raw entry carries the raw_events row it speaks of and the value of    *)
(* _retry_count (0 when the field is absent).  The rest is history: who    *)
(* wrote the entry (`via`), which entry it is a copy of (`of`, 0 for none),*)
(* which message it descends from (`root`); and, of an agent entry, the    *)
(* raw entry it was forwarded for (`of`).                                  *)
(*                                                                         *)
(* The environment can make a call fail and can kill a process.  It does   *)
(* so at most FaultLimit times.                                            *)
(***************************************************************************)
EXTENDS Naturals, Sequences

CONSTANTS Rows,        \* identities of raw_events rows (one per content_hash)
          BatchSize,   \* count of XREADGROUP (10 in backend/app/db/redis.py)
          FaultLimit   \* bound on failures and crashes

ASSUME StreamsAssumption == BatchSize \in Nat \ {0} /\ FaultLimit \in Nat

VARIABLES rawLog,    \* stream:raw_events
          agentLog,  \* stream:to_agent
          faults     \* failures so far

streamVars == <<rawLog, agentLog, faults>>

Origins == {"create", "requeue", "retry"}

RawEntry == [row : Rows, retry : Nat, via : Origins, of : Nat, root : Nat]
AgentEntry == [row : Rows, of : Nat]

StreamsTypeOK ==
    /\ rawLog \in Seq(RawEntry)
    /\ agentLog \in Seq(AgentEntry)
    /\ faults \in 0..FaultLimit

StreamsInit ==
    /\ rawLog = <<>>
    /\ agentLog = <<>>
    /\ faults = 0

(* A message enqueue_raw_event writes: the payload has no _retry_count. *)
Message(r, via) ==
    [row |-> r, retry |-> 0, via |-> via, of |-> 0, root |-> Len(rawLog) + 1]

EnqueueRawEvent(r, via) == rawLog' = Append(rawLog, Message(r, via))

(* The environment strikes: an exception of a client library, a kill. *)
Fault == /\ faults < FaultLimit
         /\ faults' = faults + 1

(* The last id an XREADGROUP hands out that reads on from a cursor. *)
LastRead(log, cursor) ==
    IF Len(log) - cursor <= BatchSize THEN Len(log) ELSE cursor + BatchSize

(* A batch is a set of ids, taken in id order. *)
First(batch) == CHOOSE i \in batch : \A j \in batch : i <= j

RawIds == 1..Len(rawLog)
AgentIds == 1..Len(agentLog)

=============================================================================
