------------------------ MODULE RawEventStoreProofs ------------------------
(***************************************************************************)
(* What holds of RawEventStore for every number of rows, requests,         *)
(* messages and failures.  A request writes what it has read some steps    *)
(* ago, so the invariant says of each request what is still true of the    *)
(* row it holds: the row exists, the id in hand is that of a message of    *)
(* the row, the requeue_count in hand was published.                       *)
(***************************************************************************)
EXTENDS RawEventStore, FiniteSetTheorems, SequenceTheorems, TLAPS

(* m is the id of an original message of the row. *)
Names(m, r) == m \in RawIds /\ rawLog[m].row = r /\ rawLog[m].of = 0

RequeuesOf(r) == {i \in RawIds : rawLog[i].row = r /\ rawLog[i].via = "requeue"}
Requeues(r) == Cardinality(RequeuesOf(r))

RowSound(r) ==
    /\ rows[r].msg # 0 => Names(rows[r].msg, r)
    /\ rows[r].status = "enqueued" => rows[r].msg # 0
    /\ rows[r].status = "processed" => \E i \in RawIds : rawLog[i].row = r
    /\ rows[r].requeue <= Requeues(r)

Holding == {"xadd", "mark", "markFailed", "requeueXadd", "requeueMark"}

TaskSound(k) ==
    /\ k.todo \subseteq Stored /\ k.row \subseteq Stored /\ \A q, r \in k.row : q = r
    /\ k.pc \notin Holding => k.row = {}
    /\ k.pc \in {"mark", "requeueMark"} => \A r \in k.row : Names(k.msg, r)
    /\ k.pc = "requeueXadd" => \A r \in k.row : k.count <= Requeues(r)
    /\ k.pc = "requeueMark" => \A r \in k.row : k.count + 1 <= Requeues(r)

StoreShape == StreamsTypeOK /\ StoreTypeOK
StoreSound ==
    /\ \A i \in RawIds : rawLog[i].row \in Stored
    /\ \A r \in Rows : RowSound(r)
    /\ \A t \in Tasks : TaskSound(task[t])

(* Nothing is taken from the stream, no row is deleted, failures add up.   *)
StoreGrows ==
    /\ Len(rawLog) <= Len(rawLog') /\ \A i \in RawIds : rawLog'[i] = rawLog[i]
    /\ Stored \subseteq Stored' /\ faults <= faults'

-----------------------------------------------------------------------------
(* Operators. *)
LEMMA StreamParts ==
    ASSUME StreamsTypeOK
    PROVE  /\ rawLog \in Seq(RawEntry) /\ Len(rawLog) \in Nat /\ RawIds = 1..Len(rawLog)
           /\ faults \in 0..FaultLimit /\ faults \in Nat /\ FaultLimit \in Nat
           /\ \A i \in RawIds : rawLog[i] \in RawEntry
  BY ElementOfSeq, LenProperties, StreamsAssumption DEF StreamsTypeOK, RawIds

LEMMA RequeuesFinite ==
    ASSUME StreamsTypeOK, NEW r
    PROVE  IsFiniteSet(RequeuesOf(r)) /\ Requeues(r) \in Nat
<1>1. IsFiniteSet(RawIds)
  BY StreamParts, FS_Interval DEF RawIds
<1>2. RequeuesOf(r) \subseteq RawIds
  BY DEF RequeuesOf
<1> QED
  BY <1>1, <1>2, FS_Subset, FS_CardinalityType DEF Requeues

LEMMA RequeuesGrow ==
    ASSUME StreamsTypeOK, StreamsTypeOK', StoreGrows, NEW r
    PROVE  /\ Requeues(r) \in Nat /\ Requeues(r)' \in Nat
           /\ Requeues(r) <= Requeues(r)'
<1>0. RawIds \subseteq RawIds'
  BY StreamParts DEF StoreGrows, RawIds, StreamsTypeOK
<1>1. RequeuesOf(r) \subseteq RequeuesOf(r)'
  BY <1>0 DEF StoreGrows, RequeuesOf
<1>2. IsFiniteSet(RequeuesOf(r)')
  <2>1. RawIds' = 1..Len(rawLog') /\ Len(rawLog') \in Nat
    BY DEF RawIds, StreamsTypeOK
  <2>2. IsFiniteSet(RawIds') /\ RequeuesOf(r)' \subseteq RawIds'
    BY <2>1, FS_Interval DEF RequeuesOf
  <2> QED
    BY <2>2, FS_Subset
<1> QED
  BY <1>1, <1>2, FS_Subset, FS_CardinalityType DEF Requeues

LEMMA NamesGrow ==
    ASSUME StreamsTypeOK, StreamsTypeOK', StoreGrows, NEW m, NEW r, Names(m, r)
    PROVE  Names(m, r)'
<1>1. RawIds \subseteq RawIds'
  BY StreamParts DEF StoreGrows, RawIds, StreamsTypeOK
<1> QED
  BY <1>1 DEF Names, StoreGrows

(* A message of a row is appended. *)
LEMMA EnqueueAppends ==
    ASSUME StreamsTypeOK, NEW r \in Rows, NEW via \in Origins, EnqueueRawEvent(r, via)
    PROVE  /\ rawLog' \in Seq(RawEntry) /\ Len(rawLog') = Len(rawLog) + 1
           /\ \A i \in RawIds : rawLog'[i] = rawLog[i]
           /\ rawLog'[Len(rawLog) + 1] = Message(r, via)
<1>1. Message(r, via) \in RawEntry
  BY StreamParts DEF Message, RawEntry
<1> QED
  BY <1>1, AppendProperties, StreamParts DEF EnqueueRawEvent, RawIds

LEMMA EnqueueNames ==
    ASSUME StreamsTypeOK, NEW r \in Rows, NEW via \in Origins, EnqueueRawEvent(r, via),
           NEW n, n = Len(rawLog) + 1
    PROVE  /\ RawIds' = RawIds \cup {n} /\ n \in Nat \ RawIds
           /\ Names(n, r)'
           /\ via = "requeue" => RequeuesOf(r)' = RequeuesOf(r) \cup {n}
<1>0. n \in Nat \ RawIds
  BY StreamParts
<1>1. /\ Len(rawLog') = n /\ rawLog'[n] = Message(r, via)
      /\ \A i \in RawIds : rawLog'[i] = rawLog[i]
  BY EnqueueAppends
<1>2. RawIds' = RawIds \cup {n}
  BY <1>0, <1>1, StreamParts DEF RawIds
<1>3. Names(n, r)'
  BY <1>1, <1>2 DEF Names, Message
<1>4. ASSUME via = "requeue" PROVE RequeuesOf(r)' = RequeuesOf(r) \cup {n}
  <2>1. rawLog'[n].row = r /\ rawLog'[n].via = "requeue"
    BY <1>1, <1>4 DEF Message
  <2> QED
    BY <1>1, <1>2, <2>1 DEF RequeuesOf
<1> QED
  BY <1>0, <1>2, <1>3, <1>4

LEMMA RequeueCounts ==
    ASSUME StreamsTypeOK, NEW r \in Rows, EnqueueRawEvent(r, "requeue")
    PROVE  Requeues(r)' = Requeues(r) + 1
<1>0. PICK n : n = Len(rawLog) + 1
  OBVIOUS
<1>1. RequeuesOf(r)' = RequeuesOf(r) \cup {n} /\ n \notin RawIds
  BY <1>0, EnqueueNames DEF Origins
<1>2. n \notin RequeuesOf(r) /\ IsFiniteSet(RequeuesOf(r))
  BY <1>1, RequeuesFinite DEF RequeuesOf
<1> QED
  BY <1>1, <1>2, FS_AddElement DEF Requeues

-----------------------------------------------------------------------------
(* What the writes do to the rows.  No request touches event_card_id.      *)
RowsOK == /\ rows \in [Rows -> Row] /\ older \subseteq Rows \X Rows
          /\ \A r \in Rows : rows[r].aged => rows[r].status = "enqueued"

LEMMA WriteOK ==
    ASSUME StoreTypeOK, NEW D \in SUBSET Rows, NEW new \in [D -> Row],
           \A r \in D : ~new[r].aged, Write(new)
    PROVE  /\ RowsOK'
           /\ \A r \in D : rows'[r] = new[r]
           /\ \A r \in Rows \ D : rows'[r] = rows[r]
<1>1. rows' = [r \in Rows |-> IF r \in D THEN new[r] ELSE rows[r]]
  BY DEF Write
<1>2. older' \subseteq Rows \X Rows
  BY DEF Write, Stored, StoreTypeOK
<1>3. \A r \in Rows : rows[r] \in Row
  BY DEF StoreTypeOK
<1>4. rows' \in [Rows -> Row]
  BY <1>1, <1>3
<1>5. /\ \A r \in D : rows'[r] = new[r]
      /\ \A r \in Rows \ D : rows'[r] = rows[r]
  BY <1>1
<1>6. \A r \in Rows : rows'[r].aged => rows'[r].status = "enqueued"
  BY <1>5 DEF StoreTypeOK
<1> QED
  BY <1>2, <1>4, <1>5, <1>6 DEF RowsOK

(* A row is enqueued with a message and a count, or failed.                *)
Enqueued(r, m, n) == /\ rows'[r].status = "enqueued" /\ rows'[r].msg = m
                     /\ rows'[r].requeue = n /\ rows'[r].card = rows[r].card
FailedNow(r) == /\ rows'[r].status = "failed" /\ rows'[r].msg = rows[r].msg
                /\ rows'[r].requeue = rows[r].requeue /\ rows'[r].card = rows[r].card
RowsBut(D) == \A r \in Rows \ D : rows'[r] = rows[r]

LEMMA RowType == ASSUME StoreTypeOK, NEW r \in Rows PROVE rows[r] \in Row
  BY DEF StoreTypeOK

LEMMA TaskType ==
    ASSUME StoreTypeOK, NEW t \in Tasks
    PROVE  /\ task[t] \in Task /\ task[t].row \subseteq Rows /\ task[t].todo \subseteq Rows
           /\ task[t].msg \in Nat /\ task[t].count \in Nat
  BY DEF StoreTypeOK, Task

LEMMA MarkEnqueuedOK ==
    ASSUME StoreTypeOK, NEW t \in Tasks, MarkEnqueued(t)
    PROVE  /\ RowsOK' /\ RowsBut(task[t].row)
           /\ \A r \in task[t].row : Enqueued(r, task[t].msg, rows[r].requeue)
<1> DEFINE new == [r \in task[t].row |->
              [rows[r] EXCEPT !.status = "enqueued", !.msg = task[t].msg, !.aged = FALSE]]
<1>1. ASSUME NEW r \in task[t].row
      PROVE  /\ new[r] \in Row /\ ~new[r].aged /\ new[r].status = "enqueued"
             /\ new[r].msg = task[t].msg
             /\ new[r].requeue = rows[r].requeue /\ new[r].card = rows[r].card
  <2>1. rows[r] \in Row /\ task[t].msg \in Nat
    BY RowType, TaskType
  <2> QED
    BY <2>1 DEF Row, Statuses
<1>2. new \in [task[t].row -> Row] /\ Write(new)
  BY <1>1 DEF MarkEnqueued
<1> HIDE DEF new
<1>3. RowsOK' /\ RowsBut(task[t].row) /\ \A r \in task[t].row : rows'[r] = new[r]
  BY <1>1, <1>2, TaskType, WriteOK DEF RowsBut
<1> QED
  BY <1>1, <1>3 DEF Enqueued

LEMMA MarkRequeuedOK ==
    ASSUME StoreTypeOK, NEW t \in Tasks, MarkRequeued(t)
    PROVE  /\ RowsOK' /\ RowsBut(task[t].row)
           /\ \A r \in task[t].row : Enqueued(r, task[t].msg, task[t].count + 1)
<1> DEFINE new == [r \in task[t].row |->
              [rows[r] EXCEPT !.status = "enqueued", !.msg = task[t].msg, !.reason = "none",
                              !.requeue = task[t].count + 1, !.aged = FALSE]]
<1>1. ASSUME NEW r \in task[t].row
      PROVE  /\ new[r] \in Row /\ ~new[r].aged /\ new[r].status = "enqueued"
             /\ new[r].msg = task[t].msg
             /\ new[r].requeue = task[t].count + 1 /\ new[r].card = rows[r].card
  <2>1. rows[r] \in Row /\ task[t].msg \in Nat /\ task[t].count + 1 \in Nat
    BY RowType, TaskType
  <2> QED
    BY <2>1 DEF Row, Statuses, Reasons
<1>2. new \in [task[t].row -> Row] /\ Write(new)
  BY <1>1 DEF MarkRequeued
<1> HIDE DEF new
<1>3. RowsOK' /\ RowsBut(task[t].row) /\ \A r \in task[t].row : rows'[r] = new[r]
  BY <1>1, <1>2, TaskType, WriteOK DEF RowsBut
<1> QED
  BY <1>1, <1>3 DEF Enqueued

LEMMA MarkXaddFailedOK ==
    ASSUME StoreTypeOK, NEW t \in Tasks, MarkXaddFailed(t)
    PROVE  RowsOK' /\ RowsBut(task[t].row) /\ \A r \in task[t].row : FailedNow(r)
<1> DEFINE new == [r \in task[t].row |->
              [rows[r] EXCEPT !.status = "failed", !.reason = "xadd_failed", !.aged = FALSE]]
<1>1. ASSUME NEW r \in task[t].row
      PROVE  /\ new[r] \in Row /\ ~new[r].aged /\ new[r].status = "failed"
             /\ new[r].msg = rows[r].msg
             /\ new[r].requeue = rows[r].requeue /\ new[r].card = rows[r].card
  <2>1. rows[r] \in Row
    BY RowType, TaskType
  <2> QED
    BY <2>1 DEF Row, Statuses, Reasons
<1>2. new \in [task[t].row -> Row] /\ Write(new)
  BY <1>1 DEF MarkXaddFailed
<1> HIDE DEF new
<1>3. RowsOK' /\ RowsBut(task[t].row) /\ \A r \in task[t].row : rows'[r] = new[r]
  BY <1>1, <1>2, TaskType, WriteOK DEF RowsBut
<1> QED
  BY <1>1, <1>3 DEF FailedNow

LEMMA FailStuckOK ==
    ASSUME StoreTypeOK, NEW t \in Tasks, FailStuck(t)
    PROVE  RowsOK' /\ RowsBut(task[t].todo) /\ \A r \in task[t].todo : FailedNow(r)
<1> DEFINE new == [r \in task[t].todo |->
              [rows[r] EXCEPT !.status = "failed", !.reason = "stuck", !.aged = FALSE]]
<1>1. ASSUME NEW r \in task[t].todo
      PROVE  /\ new[r] \in Row /\ ~new[r].aged /\ new[r].status = "failed"
             /\ new[r].msg = rows[r].msg
             /\ new[r].requeue = rows[r].requeue /\ new[r].card = rows[r].card
  <2>1. rows[r] \in Row
    BY RowType, TaskType
  <2> QED
    BY <2>1 DEF Row, Statuses, Reasons
<1>2. new \in [task[t].todo -> Row] /\ Write(new)
  BY <1>1 DEF FailStuck
<1> HIDE DEF new
<1>3. RowsOK' /\ RowsBut(task[t].todo) /\ \A r \in task[t].todo : rows'[r] = new[r]
  BY <1>1, <1>2, TaskType, WriteOK DEF RowsBut
<1> QED
  BY <1>1, <1>3 DEF FailedNow

(* The status PATCH. *)
LEMMA UpdateStatusOK ==
    ASSUME StoreTypeOK, NEW r \in Rows, NEW outcome \in {"processed", "failed"},
           NEW card \in Nat, UpdateStatus(r, outcome, card)
    PROVE  /\ RowsOK' /\ RowsBut({r})
           /\ rows'[r].status = outcome
           /\ rows'[r].msg = rows[r].msg /\ rows'[r].requeue = rows[r].requeue
           /\ rows'[r].card = IF outcome = "processed" THEN card ELSE rows[r].card
<1> DEFINE e == [rows[r] EXCEPT !.status = outcome,
                               !.card = IF outcome = "processed" THEN card ELSE @,
                               !.reason = IF outcome = "failed" THEN "agent" ELSE @,
                               !.aged = FALSE]
           new == [q \in {r} |-> [rows[q] EXCEPT
                               !.status = outcome,
                               !.card = IF outcome = "processed" THEN card ELSE @,
                               !.reason = IF outcome = "failed" THEN "agent" ELSE @,
                               !.aged = FALSE]]
<1>1. /\ e \in Row /\ ~e.aged /\ e.status = outcome
      /\ e.msg = rows[r].msg /\ e.requeue = rows[r].requeue
      /\ e.card = IF outcome = "processed" THEN card ELSE rows[r].card
  BY RowType DEF Row, Statuses, Reasons
<1>2. new[r] = e /\ Write(new)
  BY DEF UpdateStatus
<1>3. new \in [{r} -> Row] /\ \A q \in {r} : ~new[q].aged
  BY <1>1
<1> HIDE DEF new, e
<1>4. RowsOK' /\ RowsBut({r}) /\ rows'[r] = new[r]
  BY <1>2, <1>3, WriteOK DEF RowsBut
<1> QED
  BY <1>1, <1>2, <1>4

-----------------------------------------------------------------------------
(* What stays as it is keeps what the invariant says of it.                *)
LEMMA RowStays ==
    ASSUME StoreShape, StreamsTypeOK', StoreGrows, NEW r \in Rows, RowSound(r),
           rows'[r].msg = rows[r].msg, rows'[r].requeue = rows[r].requeue,
           rows'[r].status \in {rows[r].status, "collected", "failed"}
    PROVE  RowSound(r)'
<1>1. StreamsTypeOK /\ rows[r].requeue \in Nat
  BY RowType DEF StoreShape, Row
<1>2. Requeues(r) \in Nat /\ Requeues(r)' \in Nat /\ Requeues(r) <= Requeues(r)'
  BY <1>1, RequeuesGrow
<1>3. rows'[r].requeue <= Requeues(r)'
  BY <1>1, <1>2 DEF RowSound
<1>4. rows'[r].msg # 0 => Names(rows[r].msg, r)'
  BY <1>1, NamesGrow DEF RowSound
<1>5. RawIds \subseteq RawIds' /\ \A i \in RawIds : rawLog'[i] = rawLog[i]
  BY <1>1, StreamParts DEF StoreGrows, RawIds, StreamsTypeOK
<1> QED
  BY <1>3, <1>4, <1>5 DEF RowSound, Names

(* Only a row that is enqueued, or requeued, has something new to answer for. *)
LEMMA RowEnqueued ==
    ASSUME NEW r \in Rows, NEW m, NEW n, Names(m, r)', 0 \notin RawIds', Enqueued(r, m, n),
           n <= Requeues(r)'
    PROVE  RowSound(r)'
  BY DEF RowSound, Enqueued, Names

LEMMA TaskStays ==
    ASSUME StoreShape, StreamsTypeOK', StoreGrows, NEW k \in Task, TaskSound(k)
    PROVE  TaskSound(k)'
<1>1. StreamsTypeOK
  BY DEF StoreShape
<1>2. \A r : Requeues(r) \in Nat /\ Requeues(r)' \in Nat /\ Requeues(r) <= Requeues(r)'
  BY <1>1, RequeuesGrow
<1>3. \A r : Names(k.msg, r) => Names(k.msg, r)'
  BY <1>1, NamesGrow
<1>4. k.count \in Nat /\ Stored \subseteq Stored'
  BY DEF Task, StoreGrows
<1>5. /\ k.pc = "requeueXadd" => \A r \in k.row : k.count <= Requeues(r)'
      /\ k.pc = "requeueMark" => \A r \in k.row : k.count + 1 <= Requeues(r)'
  BY <1>2, <1>4 DEF TaskSound
<1> QED
  BY <1>3, <1>4, <1>5 DEF TaskSound

(* A request moves on, the others do not.                                  *)
LEMMA MoveOK ==
    ASSUME StoreShape, StreamsTypeOK', StoreGrows, \A t \in Tasks : TaskSound(task[t]),
           NEW t \in Tasks, NEW k \in Task, TaskSound(k)', task' = [task EXCEPT ![t] = k]
    PROVE  /\ task' \in [Tasks -> Task]
           /\ \A u \in Tasks : TaskSound(task[u])'
<1>1. task \in [Tasks -> Task]
  BY DEF StoreShape, StoreTypeOK
<1>2. task' \in [Tasks -> Task]
  BY <1>1
<1>3. ASSUME NEW u \in Tasks PROVE TaskSound(task[u])'
  <2>1. PICK j \in Task : j = task[u]
    BY <1>1
  <2>2. TaskSound(j)'
    BY <2>1, TaskStays
  <2>3. task'[u] = IF u = t THEN k ELSE j
    BY <1>1, <2>1
  <2>4. CASE u = t
    BY <2>3, <2>4 DEF TaskSound
  <2>5. CASE u # t
    BY <2>2, <2>3, <2>5 DEF TaskSound
  <2> QED
    BY <2>4, <2>5
<1> QED
  BY <1>2, <1>3

LEMMA FaultOK ==
    ASSUME StreamsTypeOK, Fault \/ faults' = faults
    PROVE  faults' \in 0..FaultLimit /\ faults <= faults'
  BY StreamParts DEF Fault

(* The streams do not move, or a message of a stored row is published.     *)
LEMMA StreamsStill ==
    ASSUME StreamsTypeOK, \A i \in RawIds : rawLog[i].row \in Stored,
           UNCHANGED <<rawLog, agentLog>>, Fault \/ faults' = faults, Stored \subseteq Stored'
    PROVE  /\ StreamsTypeOK' /\ StoreGrows
           /\ (\A i \in RawIds : rawLog[i].row \in Stored)'
  BY FaultOK, StreamParts DEF StreamsTypeOK, StoreGrows, RawIds

LEMMA StreamsGrow ==
    ASSUME StreamsTypeOK, \A i \in RawIds : rawLog[i].row \in Stored,
           NEW r \in Stored, NEW via \in Origins, EnqueueRawEvent(r, via),
           UNCHANGED <<agentLog, rows>>, Fault \/ faults' = faults
    PROVE  /\ StreamsTypeOK' /\ StoreGrows
           /\ (\A i \in RawIds : rawLog[i].row \in Stored)'
<1>1. r \in Rows /\ Stored' = Stored
  BY DEF Stored
<1>2. PICK n : n = Len(rawLog) + 1
  OBVIOUS
<1>3. /\ rawLog' \in Seq(RawEntry) /\ Len(rawLog') = Len(rawLog) + 1
      /\ \A i \in RawIds : rawLog'[i] = rawLog[i]
  BY <1>1, EnqueueAppends
<1>4. RawIds' = RawIds \cup {n} /\ rawLog'[n].row = r
  BY <1>1, <1>2, EnqueueNames DEF Names
<1>5. Len(rawLog) <= Len(rawLog')
  BY <1>3, StreamParts
<1>6. (\A i \in RawIds : rawLog[i].row \in Stored)'
  BY <1>1, <1>3, <1>4
<1> QED
  BY <1>1, <1>3, <1>5, <1>6, FaultOK DEF StreamsTypeOK, StoreGrows

-----------------------------------------------------------------------------
(* What a request can go on with.                                          *)
Goes(t, k) == k \in Task /\ TaskSound(k) /\ task' = [task EXCEPT ![t] = k]

LEMMA EndGoes ==
    ASSUME NEW t, EndTask(t)
    PROVE  \E k : Goes(t, k) /\ k.row = {}
<1>1. FreeTask \in Task /\ TaskSound(FreeTask) /\ FreeTask.row = {}
  BY DEF FreeTask, Task, TaskStages, TaskSound, Holding
<1> QED
  BY <1>1 DEF EndTask, Goes

LEMMA ListGoes ==
    ASSUME NEW t, NEW D, D \subseteq Stored, NEW stage \in {"auto", "stuck"},
           task' = [task EXCEPT ![t] = [FreeTask EXCEPT !.pc = stage, !.todo = D]]
    PROVE  \E k : Goes(t, k) /\ k.row = {}
<1> DEFINE k == [FreeTask EXCEPT !.pc = stage, !.todo = D]
<1>1. k \in Task /\ TaskSound(k) /\ k.row = {}
  BY DEF FreeTask, Task, TaskStages, TaskSound, Holding, Stored
<1> QED
  BY <1>1 DEF Goes

LEMMA NextGoes ==
    ASSUME NEW t, NEW D, D \subseteq Stored, NextListed(t, D)
    PROVE  \E k : Goes(t, k) /\ k.row = {}
<1>1. CASE D = {}
  BY <1>1, EndGoes DEF NextListed, EndTask
<1>2. CASE D # {}
  BY <1>2, ListGoes DEF NextListed
<1> QED
  BY <1>1, <1>2

LEMMA ReadGoes ==
    ASSUME StoreTypeOK, NEW t, NEW r \in Rows, RowSound(r), NEW force, NEW D,
           D \subseteq Stored, ReadForRequeue(t, r, force, D)
    PROVE  \E k : Goes(t, k)
<1>1. rows[r].requeue \in Nat /\ r \in Stored /\ D \subseteq Rows /\ r \in Rows
  BY RowType DEF Row, ReadForRequeue, Stored
<1>2. PICK n \in Nat : n = rows[r].requeue
  BY <1>1
<1> DEFINE k == [FreeTask EXCEPT !.pc = "requeueXadd", !.row = {r}, !.count = n, !.todo = D]
<1>3. task' = [task EXCEPT ![t] = k]
  BY <1>2 DEF ReadForRequeue
<1>4. /\ k.pc = "requeueXadd" /\ k.todo = D /\ k.row = {r} /\ k.count = n
  BY DEF FreeTask
<1>5. [FreeTask EXCEPT !.pc = "requeueXadd", !.row = {r}] \in Task
  BY <1>1 DEF FreeTask, Task, TaskStages
<1>6. k = [[FreeTask EXCEPT !.pc = "requeueXadd", !.row = {r}] EXCEPT !.count = n, !.todo = D]
  OBVIOUS
<1>7. k \in Task
  BY <1>1, <1>2, <1>5, <1>6 DEF Task
<1>8. TaskSound(k)
  BY <1>1, <1>2, <1>4 DEF TaskSound, Holding, RowSound
<1> QED
  BY <1>3, <1>7, <1>8 DEF Goes

-----------------------------------------------------------------------------
StoreGood == StoreShape' /\ StoreSound' /\ StoreGrows

(* A row stays, fails, or is enqueued with the message and count of a      *)
(* request.                                                                *)
Moved(r) ==
    \/ rows'[r] = rows[r]
    \/ FailedNow(r)
    \/ \E m, n : Enqueued(r, m, n) /\ Names(m, r) /\ n <= Requeues(r)

LEMMA WriteStep ==
    ASSUME StoreShape, StoreSound, UNCHANGED <<rawLog, agentLog>>, Fault \/ faults' = faults,
           RowsOK', \A r \in Rows : Moved(r), NEW t \in Tasks, \E k : Goes(t, k)
    PROVE  StoreGood
<1>1. Stored \subseteq Stored'
  BY DEF Stored, Moved, FailedNow, Enqueued
<1>2. StreamsTypeOK' /\ StoreGrows /\ (\A i \in RawIds : rawLog[i].row \in Stored)'
  BY <1>1, StreamsStill DEF StoreShape, StoreSound
<1>3. ASSUME NEW r \in Rows PROVE RowSound(r)'
  <2>1. CASE rows'[r] = rows[r] \/ FailedNow(r)
    BY <1>2, <2>1, RowStays DEF StoreSound, FailedNow
  <2>2. ASSUME NEW m, NEW n, Enqueued(r, m, n), Names(m, r), n <= Requeues(r)
        PROVE  RowSound(r)'
    <3>1. Names(m, r)'
      BY <1>2, <2>2, NamesGrow DEF StoreShape
    <3>2. Requeues(r)' = Requeues(r) /\ RawIds' = RawIds
      BY DEF Requeues, RequeuesOf, RawIds
    <3>3. 0 \notin RawIds'
      BY <3>2, StreamParts DEF StoreShape
    <3>4. n <= Requeues(r)'
      BY <2>2, <3>2
    <3> QED
      BY <2>2, <3>1, <3>3, <3>4, RowEnqueued
  <2> QED
    BY <2>1, <2>2 DEF Moved
<1>4. PICK k : Goes(t, k)
  OBVIOUS
<1>5. TaskSound(k)'
  BY <1>2, <1>4, TaskStays DEF Goes
<1>6. task' \in [Tasks -> Task] /\ \A u \in Tasks : TaskSound(task[u])'
  BY <1>2, <1>4, <1>5, MoveOK DEF Goes, StoreSound
<1> QED
  BY <1>2, <1>3, <1>6 DEF StoreGood, StoreShape, StoreTypeOK, StoreSound, RowsOK

(* The steps that mark the row of a request. *)
LEMMA SoundRow ==
    ASSUME StoreSound, NEW r \in Rows
    PROVE  RowSound(r)
  BY DEF StoreSound

LEMMA RowsStill ==
    ASSUME StoreShape, UNCHANGED <<rows, older>>
    PROVE  RowsOK' /\ \A r \in Rows : Moved(r)
  BY DEF StoreShape, StoreTypeOK, RowsOK, Moved

LEMMA EnqueuedMoves ==
    ASSUME StoreShape, StoreSound, NEW t \in Tasks, task[t].pc = "mark", MarkEnqueued(t)
    PROVE  RowsOK' /\ \A r \in Rows : Moved(r)
<1>1. /\ RowsOK' /\ RowsBut(task[t].row)
      /\ \A r \in task[t].row : Enqueued(r, task[t].msg, rows[r].requeue)
  BY MarkEnqueuedOK DEF StoreShape
<1>2. \A r \in task[t].row : Names(task[t].msg, r)
  BY DEF StoreSound, TaskSound
<1>3. \A r \in Rows : rows[r].requeue <= Requeues(r)
  BY SoundRow DEF RowSound
<1>4. task[t].row \subseteq Rows
  BY TaskType DEF StoreShape
<1> QED
  BY <1>1, <1>2, <1>3, <1>4 DEF Moved, RowsBut

LEMMA RequeuedMoves ==
    ASSUME StoreShape, StoreSound, NEW t \in Tasks, task[t].pc = "requeueMark", MarkRequeued(t)
    PROVE  RowsOK' /\ \A r \in Rows : Moved(r)
<1>1. /\ RowsOK' /\ RowsBut(task[t].row)
      /\ \A r \in task[t].row : Enqueued(r, task[t].msg, task[t].count + 1)
  BY MarkRequeuedOK DEF StoreShape
<1>2. \A r \in task[t].row : Names(task[t].msg, r) /\ task[t].count + 1 <= Requeues(r)
  BY DEF StoreSound, TaskSound
<1> QED
  BY <1>1, <1>2 DEF Moved, RowsBut

LEMMA XaddFailedMoves ==
    ASSUME StoreShape, NEW t \in Tasks, MarkXaddFailed(t)
    PROVE  RowsOK' /\ \A r \in Rows : Moved(r)
  BY MarkXaddFailedOK DEF StoreShape, Moved, RowsBut

LEMMA StuckMoves ==
    ASSUME StoreShape, NEW t \in Tasks, FailStuck(t)
    PROVE  RowsOK' /\ \A r \in Rows : Moved(r)
  BY FailStuckOK DEF StoreShape, Moved, RowsBut

LEMMA MarkSteps ==
    ASSUME StoreShape, StoreSound, NEW t \in Tasks,
           \/ CreateMark(t) \/ CreateMarkFails(t) \/ CreateMarkFailed(t)
           \/ CreateMarkFailedFails(t) \/ RequeueMark(t) \/ RequeueMarkFails(t)
           \/ MarkStuck(t) \/ MarkStuckFails(t)
    PROVE  StoreGood
<1>0. task[t].todo \subseteq Stored
  BY DEF StoreSound, TaskSound
<1>1. CASE CreateMark(t) \/ CreateMarkFails(t)
  <2>1. RowsOK' /\ \A r \in Rows : Moved(r)
    BY <1>1, EnqueuedMoves, RowsStill DEF CreateMark, CreateMarkFails, TaskAt, MaybeApplied
  <2>2. \E k : Goes(t, k)
    BY <1>1, EndGoes DEF CreateMark, CreateMarkFails
  <2>3. UNCHANGED <<rawLog, agentLog>> /\ (Fault \/ faults' = faults)
    BY <1>1 DEF CreateMark, CreateMarkFails, streamVars
  <2> QED
    BY <2>1, <2>2, <2>3, WriteStep
<1>2. CASE CreateMarkFailed(t) \/ CreateMarkFailedFails(t)
  <2>1. RowsOK' /\ \A r \in Rows : Moved(r)
    BY <1>2, XaddFailedMoves, RowsStill DEF CreateMarkFailed, CreateMarkFailedFails, MaybeApplied
  <2>2. \E k : Goes(t, k)
    BY <1>2, EndGoes DEF CreateMarkFailed, CreateMarkFailedFails
  <2>3. UNCHANGED <<rawLog, agentLog>> /\ (Fault \/ faults' = faults)
    BY <1>2 DEF CreateMarkFailed, CreateMarkFailedFails, streamVars
  <2> QED
    BY <2>1, <2>2, <2>3, WriteStep
<1>3. CASE RequeueMark(t) \/ RequeueMarkFails(t)
  <2>1. RowsOK' /\ \A r \in Rows : Moved(r)
    BY <1>3, RequeuedMoves, RowsStill DEF RequeueMark, RequeueMarkFails, TaskAt, MaybeApplied
  <2>2. \E k : Goes(t, k)
    BY <1>0, <1>3, EndGoes, NextGoes DEF RequeueMark, RequeueMarkFails
  <2>3. UNCHANGED <<rawLog, agentLog>> /\ (Fault \/ faults' = faults)
    BY <1>3 DEF RequeueMark, RequeueMarkFails, streamVars
  <2> QED
    BY <2>1, <2>2, <2>3, WriteStep
<1>4. CASE MarkStuck(t) \/ MarkStuckFails(t)
  <2>1. RowsOK' /\ \A r \in Rows : Moved(r)
    BY <1>4, StuckMoves, RowsStill DEF MarkStuck, MarkStuckFails, MaybeApplied
  <2>2. \E k : Goes(t, k)
    BY <1>4, EndGoes DEF MarkStuck, MarkStuckFails
  <2>3. UNCHANGED <<rawLog, agentLog>> /\ (Fault \/ faults' = faults)
    BY <1>4 DEF MarkStuck, MarkStuckFails, streamVars
  <2> QED
    BY <2>1, <2>2, <2>3, WriteStep
<1> QED
  BY <1>1, <1>2, <1>3, <1>4

(* The steps that list, read or skip rows, and the failure of a SELECT.    *)
LEMMA ListedAreStored == Requeueable \subseteq Stored /\ Stuck \subseteq Stored
  BY DEF Requeueable, XaddFailed, Failed, Stuck, Oldest, Stored

LEMMA AutoNextGoes ==
    ASSUME StoreShape, StoreSound, NEW t \in Tasks, AutoNext(t)
    PROVE  \E k : Goes(t, k)
<1>1. PICK r \in task[t].todo :
          \/ ReadForRequeue(t, r, FALSE, task[t].todo \ {r})
          \/ NextListed(t, task[t].todo \ {r})
  BY DEF AutoNext
<1>2. r \in Rows /\ task[t].todo \ {r} \subseteq Stored
  BY TaskType DEF StoreShape, StoreSound, TaskSound
<1>3. CASE ReadForRequeue(t, r, FALSE, task[t].todo \ {r})
  BY <1>2, <1>3, ReadGoes, SoundRow DEF StoreShape
<1>4. CASE NextListed(t, task[t].todo \ {r})
  BY <1>2, <1>4, NextGoes
<1> QED
  BY <1>1, <1>3, <1>4

LEMMA ListSteps ==
    ASSUME StoreShape, StoreSound, NEW t \in Tasks,
           \/ AutoRequeue(t) \/ ListStuck(t) \/ AutoNext(t) \/ SelectFails(t)
           \/ \E r \in Rows : RequeueByHand(t, r)
    PROVE  StoreGood
<1>1. UNCHANGED <<rawLog, agentLog, rows, older>> /\ (Fault \/ faults' = faults)
  BY DEF AutoRequeue, ListStuck, AutoNext, SelectFails, RequeueByHand, ReadForRequeue, streamVars
<1>2. \E k : Goes(t, k)
  <2>1. CASE AutoRequeue(t)
    BY <2>1, ListGoes, ListedAreStored DEF AutoRequeue
  <2>2. CASE ListStuck(t)
    BY <2>2, ListGoes, ListedAreStored DEF ListStuck
  <2>3. CASE AutoNext(t)
    BY <2>3, AutoNextGoes
  <2>4. CASE SelectFails(t)
    BY <2>4, EndGoes DEF SelectFails
  <2>5. ASSUME NEW r \in Rows, RequeueByHand(t, r) PROVE \E k : Goes(t, k)
    <3>1. PICK force \in BOOLEAN : ReadForRequeue(t, r, force, {})
      BY <2>5 DEF RequeueByHand
    <3> QED
      BY <3>1, ReadGoes, SoundRow DEF StoreShape
  <2> QED
    BY <2>1, <2>2, <2>3, <2>4, <2>5
<1>3. RowsOK' /\ \A r \in Rows : Moved(r)
  BY <1>1, RowsStill
<1> QED
  BY <1>1, <1>2, <1>3, WriteStep

-----------------------------------------------------------------------------
(* The steps that publish.                                                 *)
LEMMA XaddStep ==
    ASSUME StoreShape, StoreSound, NEW t \in Tasks, NEW r \in task[t].row, NEW via \in Origins,
           EnqueueRawEvent(r, via), UNCHANGED <<agentLog, rows, older>>,
           Fault \/ faults' = faults,
           NEW k \in Task, StreamsTypeOK' /\ StoreGrows => TaskSound(k)',
           task' = [task EXCEPT ![t] = k]
    PROVE  StoreGood
<1>0. r \in Stored
  BY DEF StoreSound, TaskSound
<1>1. StreamsTypeOK' /\ StoreGrows /\ (\A i \in RawIds : rawLog[i].row \in Stored)'
  BY <1>0, StreamsGrow DEF StoreShape, StoreSound
<1>2. \A q \in Rows : RowSound(q)'
  BY <1>1, RowStays DEF StoreSound
<1>3. task' \in [Tasks -> Task] /\ \A u \in Tasks : TaskSound(task[u])'
  BY <1>1, MoveOK DEF StoreSound
<1>4. RowsOK'
  BY RowsStill
<1> QED
  BY <1>1, <1>2, <1>3, <1>4 DEF StoreGood, StoreShape, StoreTypeOK, StoreSound, RowsOK

LEMMA HeldRow ==
    ASSUME StoreSound, NEW t \in Tasks, NEW r \in task[t].row
    PROVE  task[t].row = {r} /\ task[t].todo \subseteq Stored /\ r \in Stored
  BY DEF StoreSound, TaskSound

LEMMA XaddSteps ==
    ASSUME StoreShape, StoreSound, NEW t \in Tasks, CreateXadd(t) \/ RequeueXadd(t)
    PROVE  StoreGood
<1>0. task \in [Tasks -> Task] /\ task[t] \in Task
  BY DEF StoreShape, StoreTypeOK
<1>1. UNCHANGED <<agentLog, rows, older>> /\ faults' = faults
  BY DEF CreateXadd, RequeueXadd
<1>2. PICK n : n = Len(rawLog) + 1
  OBVIOUS
<1>3. n \in Nat
  BY <1>2, StreamParts DEF StoreShape
<1>4. CASE CreateXadd(t)
  <2>1. PICK r \in task[t].row : EnqueueRawEvent(r, "create")
    BY <1>4 DEF CreateXadd
  <2>2. PICK k : k = [task[t] EXCEPT !.pc = "mark", !.msg = n]
    OBVIOUS
  <2>3. k \in Task /\ task' = [task EXCEPT ![t] = k]
    BY <1>0, <1>2, <1>3, <1>4, <2>2 DEF CreateXadd, Task, TaskStages
  <2>4. k.pc = "mark" /\ k.msg = n /\ k.row = {r} /\ k.todo \subseteq Stored /\ r \in Stored
    BY <1>0, <2>2, HeldRow DEF Task
  <2>5. Names(n, r)'
    BY <1>2, <2>1, <2>4, EnqueueNames DEF StoreShape, Origins, Stored
  <2>6. StoreGrows => TaskSound(k)'
    BY <2>4, <2>5 DEF TaskSound, Holding, StoreGrows
  <2> QED
    BY <1>1, <2>1, <2>3, <2>6, XaddStep DEF Origins
<1>5. CASE RequeueXadd(t)
  <2>1. PICK r \in task[t].row : EnqueueRawEvent(r, "requeue")
    BY <1>5 DEF RequeueXadd
  <2>2. PICK k : k = [task[t] EXCEPT !.pc = "requeueMark", !.msg = n]
    OBVIOUS
  <2>3. k \in Task /\ task' = [task EXCEPT ![t] = k]
    BY <1>0, <1>2, <1>3, <1>5, <2>2 DEF RequeueXadd, Task, TaskStages
  <2>4. /\ k.pc = "requeueMark" /\ k.msg = n /\ k.row = {r} /\ k.count = task[t].count
        /\ k.todo \subseteq Stored /\ r \in Stored
    BY <1>0, <2>2, HeldRow DEF Task
  <2>5. Names(n, r)'
    BY <1>2, <2>1, <2>4, EnqueueNames DEF StoreShape, Origins, Stored
  <2>6. task[t].count <= Requeues(r)
    BY <1>5, <2>1 DEF RequeueXadd, TaskAt, StoreSound, TaskSound
  <2>7. Requeues(r)' = Requeues(r) + 1
    BY <2>1, <2>4, RequeueCounts DEF StoreShape, Stored
  <2>8. k.count + 1 <= Requeues(r)'
    BY <2>4, <2>6, <2>7, TaskType, RequeuesFinite DEF StoreShape
  <2>9. StoreGrows => TaskSound(k)'
    BY <2>4, <2>5, <2>8 DEF TaskSound, Holding, StoreGrows
  <2> QED
    BY <1>1, <2>1, <2>3, <2>9, XaddStep DEF Origins
<1> QED
  BY <1>4, <1>5

LEMMA XaddFailSteps ==
    ASSUME StoreShape, StoreSound, NEW t \in Tasks, CreateXaddFails(t) \/ RequeueXaddFails(t)
    PROVE  StoreGood
<1>0. task \in [Tasks -> Task] /\ task[t] \in Task
  BY DEF StoreShape, StoreTypeOK
<1>1. UNCHANGED <<agentLog, rows, older>> /\ Fault
  BY DEF CreateXaddFails, RequeueXaddFails
<1>2. PICK k : Goes(t, k)
  <2>1. CASE CreateXaddFails(t)
    <3> DEFINE k == [task[t] EXCEPT !.pc = "markFailed"]
    <3>1. k \in Task /\ task' = [task EXCEPT ![t] = k]
      BY <1>0, <2>1 DEF CreateXaddFails, TaskGoto, Task, TaskStages
    <3>2. k.pc = "markFailed" /\ k.row = task[t].row /\ k.todo = task[t].todo
      BY <1>0 DEF Task
    <3>3. TaskSound(k)
      BY <3>2 DEF StoreSound, TaskSound, Holding
    <3> QED
      BY <3>1, <3>3 DEF Goes
  <2>2. CASE RequeueXaddFails(t)
    <3>1. task[t].todo \subseteq Stored
      BY DEF StoreSound, TaskSound
    <3> QED
      BY <2>2, <3>1, NextGoes DEF RequeueXaddFails
  <2> QED
    BY <2>1, <2>2
<1>3. ASSUME NEW r \in task[t].row, NEW via \in Origins, EnqueueRawEvent(r, via)
      PROVE  StoreGood
  <2>1. StreamsTypeOK' /\ StoreGrows => TaskSound(k)'
    BY <1>2, TaskStays DEF Goes
  <2> QED
    BY <1>1, <1>2, <1>3, <2>1, XaddStep DEF Goes
<1>4. CASE UNCHANGED rawLog
  BY <1>1, <1>2, <1>4, RowsStill, WriteStep
<1> QED
  BY <1>3, <1>4 DEF CreateXaddFails, RequeueXaddFails, Origins

-----------------------------------------------------------------------------
(* The other steps: a row is inserted, a row ages, the backend dies, an    *)
(* outcome is reported, something happens elsewhere.                       *)
LEMMA InsertStep ==
    ASSUME StoreShape, StoreSound, NEW t \in Tasks, NEW r \in Rows, InsertRow(t, r)
    PROVE  StoreGood
<1>1. /\ rows[r].status = "absent" /\ rows \in [Rows -> Row] /\ rows[r] \in Row
      /\ rows' = [rows EXCEPT ![r].status = "collected"]
      /\ UNCHANGED <<rawLog, agentLog>> /\ faults' = faults
  BY DEF InsertRow, StoreShape, StoreTypeOK, streamVars
<1>2. PICK e : e = [rows[r] EXCEPT !.status = "collected"]
  OBVIOUS
<1>3. /\ e \in Row /\ e.status = "collected" /\ e.aged = rows[r].aged
      /\ e.msg = rows[r].msg /\ e.requeue = rows[r].requeue
  BY <1>1, <1>2 DEF Row, Statuses
<1>4. ~rows[r].aged
  BY <1>1 DEF StoreShape, StoreTypeOK
<1>5. \A q \in Rows : rows'[q] = IF q = r THEN e ELSE rows[q]
  BY <1>1, <1>2
<1>6. rows' \in [Rows -> Row] /\ \A q \in Rows : rows'[q].aged => rows'[q].status = "enqueued"
  BY <1>1, <1>2, <1>3, <1>4, <1>5 DEF StoreShape, StoreTypeOK
<1>7. Stored' = Stored \cup {r}
  BY <1>1, <1>3, <1>5 DEF Stored
<1>8. older' \subseteq Rows \X Rows
  BY DEF InsertRow, StoreShape, StoreTypeOK, Stored
<1>9. StreamsTypeOK' /\ StoreGrows /\ (\A i \in RawIds : rawLog[i].row \in Stored)'
  BY <1>1, <1>7, StreamsStill DEF StoreShape, StoreSound
<1>10. ASSUME NEW q \in Rows PROVE RowSound(q)'
  BY <1>3, <1>5, <1>9, RowStays, SoundRow
<1>11. PICK k : k = [FreeTask EXCEPT !.pc = "xadd", !.row = {r}]
  OBVIOUS
<1>12. k \in Task /\ TaskSound(k)'
  BY <1>7, <1>11 DEF FreeTask, Task, TaskStages, TaskSound, Holding
<1>13. task' \in [Tasks -> Task] /\ \A u \in Tasks : TaskSound(task[u])'
  BY <1>9, <1>11, <1>12, MoveOK DEF InsertRow, StoreSound
<1> QED
  BY <1>6, <1>8, <1>9, <1>10, <1>13 DEF StoreGood, StoreShape, StoreTypeOK, StoreSound

LEMMA TasksStill ==
    ASSUME StoreShape, StoreSound, StreamsTypeOK', StoreGrows, task' = task
    PROVE  task' \in [Tasks -> Task] /\ \A u \in Tasks : TaskSound(task[u])'
<1>1. task \in [Tasks -> Task]
  BY DEF StoreShape, StoreTypeOK
<1>2. ASSUME NEW u \in Tasks PROVE TaskSound(task[u])'
  <2>1. PICK j \in Task : j = task[u]
    BY <1>1
  <2>2. TaskSound(j)'
    BY <2>1, TaskStays DEF StoreSound
  <2> QED
    BY <2>1, <2>2 DEF TaskSound
<1> QED
  BY <1>1, <1>2

LEMMA AgeStep ==
    ASSUME StoreShape, StoreSound, NEW r \in Rows, Age(r)
    PROVE  StoreGood
<1>1. /\ rows[r].status = "enqueued" /\ rows \in [Rows -> Row] /\ rows[r] \in Row
      /\ rows' = [rows EXCEPT ![r].aged = TRUE]
      /\ UNCHANGED <<rawLog, agentLog, older, task>> /\ faults' = faults
  BY DEF Age, StoreShape, StoreTypeOK, streamVars
<1>2. PICK e : e = [rows[r] EXCEPT !.aged = TRUE]
  OBVIOUS
<1>3. /\ e \in Row /\ e.status = "enqueued"
      /\ e.msg = rows[r].msg /\ e.requeue = rows[r].requeue
  BY <1>1, <1>2 DEF Row
<1>4. \A q \in Rows : rows'[q] = IF q = r THEN e ELSE rows[q]
  BY <1>1, <1>2
<1>5. rows' \in [Rows -> Row] /\ \A q \in Rows : rows'[q].aged => rows'[q].status = "enqueued"
  BY <1>1, <1>2, <1>3, <1>4 DEF StoreShape, StoreTypeOK
<1>6. Stored' = Stored
  BY <1>1, <1>3, <1>4 DEF Stored
<1>7. StreamsTypeOK' /\ StoreGrows /\ (\A i \in RawIds : rawLog[i].row \in Stored)'
  BY <1>1, <1>6, StreamsStill DEF StoreShape, StoreSound
<1>8. ASSUME NEW q \in Rows PROVE RowSound(q)'
  BY <1>1, <1>3, <1>4, <1>7, RowStays, SoundRow
<1>9. task' \in [Tasks -> Task] /\ \A u \in Tasks : TaskSound(task[u])'
  BY <1>1, <1>7, TasksStill
<1> QED
  BY <1>1, <1>5, <1>7, <1>8, <1>9 DEF StoreGood, StoreShape, StoreTypeOK, StoreSound

LEMMA CrashStep ==
    ASSUME StoreShape, StoreSound, BackendCrashes
    PROVE  StoreGood
<1>1. /\ UNCHANGED <<rawLog, agentLog, rows, older>> /\ Fault
      /\ task' = [t \in Tasks |-> FreeTask]
  BY DEF BackendCrashes
<1>2. StreamsTypeOK' /\ StoreGrows /\ (\A i \in RawIds : rawLog[i].row \in Stored)'
  BY <1>1, StreamsStill DEF StoreShape, StoreSound, Stored
<1>3. \A q \in Rows : RowSound(q)'
  BY <1>1, <1>2, RowStays, SoundRow
<1>4. FreeTask \in Task /\ TaskSound(FreeTask)'
  BY DEF FreeTask, Task, TaskStages, TaskSound, Holding
<1>5. ASSUME NEW u \in Tasks PROVE TaskSound(task[u])'
  BY <1>1, <1>4 DEF TaskSound
<1> QED
  BY <1>1, <1>2, <1>3, <1>4, <1>5 DEF StoreGood, StoreShape, StoreTypeOK, StoreSound

(* The outcome of a graph run on a message of the row is recorded.         *)
Patched ==
    /\ UNCHANGED <<streamVars, task>>
    /\ \E r \in Rows, outcome \in {"processed", "failed"}, card \in Nat :
          /\ UpdateStatus(r, outcome, card)
          /\ \E i \in RawIds : rawLog[i].row = r

LEMMA PatchStep ==
    ASSUME StoreShape, StoreSound, Patched
    PROVE  StoreGood
<1>1. PICK r \in Rows, outcome \in {"processed", "failed"}, card \in Nat :
          /\ UpdateStatus(r, outcome, card)
          /\ \E i \in RawIds : rawLog[i].row = r
  BY DEF Patched
<1>2. UNCHANGED <<rawLog, agentLog, task>> /\ faults' = faults
  BY DEF Patched, streamVars
<1>3. /\ RowsOK' /\ RowsBut({r}) /\ rows'[r].status = outcome
      /\ rows'[r].msg = rows[r].msg /\ rows'[r].requeue = rows[r].requeue
  BY <1>1, UpdateStatusOK DEF StoreShape
<1>4. Stored \subseteq Stored'
  BY <1>3 DEF Stored, RowsBut
<1>5. StreamsTypeOK' /\ StoreGrows /\ (\A i \in RawIds : rawLog[i].row \in Stored)'
  BY <1>2, <1>4, StreamsStill DEF StoreShape, StoreSound
<1>6. ASSUME NEW q \in Rows, q # r PROVE RowSound(q)'
  BY <1>3, <1>5, <1>6, RowStays, SoundRow DEF RowsBut
<1>7. RowSound(r)'
  <2>1. RowSound(r) /\ (\E i \in RawIds : rawLog[i].row = r)'
    BY <1>1, <1>2, SoundRow DEF RawIds
  <2>2. Requeues(r)' = Requeues(r)
    BY <1>2 DEF Requeues, RequeuesOf, RawIds
  <2>3. rows'[r].msg # 0 => Names(rows[r].msg, r)'
    BY <1>3, <1>5, <2>1, NamesGrow DEF RowSound, StoreShape
  <2> QED
    BY <1>3, <2>1, <2>2, <2>3 DEF RowSound, Names
<1>8. task' \in [Tasks -> Task] /\ \A u \in Tasks : TaskSound(task[u])'
  BY <1>2, <1>5, TasksStill
<1> QED
  BY <1>3, <1>5, <1>6, <1>7, <1>8 DEF StoreGood, StoreShape, StoreTypeOK, StoreSound, RowsOK

(* Others publish messages of stored rows, or fail.                        *)
Elsewhere ==
    /\ UNCHANGED storeVars /\ StreamsTypeOK' /\ faults <= faults'
    /\ Len(rawLog) <= Len(rawLog') /\ \A i \in RawIds : rawLog'[i] = rawLog[i]
    /\ (\A i \in RawIds : rawLog[i].row \in Stored)'

LEMMA ElsewhereStep ==
    ASSUME StoreShape, StoreSound, Elsewhere
    PROVE  StoreGood
<1>1. UNCHANGED <<rows, older, task>> /\ StreamsTypeOK' /\ StoreGrows
  BY DEF Elsewhere, storeVars, StoreGrows, Stored
<1>2. \A q \in Rows : RowSound(q)'
  BY <1>1, RowStays, SoundRow
<1>3. \A u \in Tasks : TaskSound(task[u])'
  BY <1>1, TasksStill
<1> QED
  BY <1>1, <1>2, <1>3 DEF StoreGood, StoreShape, StoreTypeOK, StoreSound, Elsewhere

(* What the table is exposed to, on its own and in the pipeline.           *)
StoreStep == StoreNext \/ Patched \/ Elsewhere

LEMMA StoreStepIsGood == ASSUME StoreShape, StoreSound, StoreStep PROVE StoreGood
<1>1. ASSUME NEW t \in Tasks, TaskWorks(t) \/ TaskFails(t) \/ Recover(t) PROVE StoreGood
  BY <1>1, MarkSteps, ListSteps, XaddSteps, XaddFailSteps DEF TaskWorks, TaskFails, Recover
<1>2. ASSUME NEW t \in Tasks, NEW r \in Rows, InsertRow(t, r) \/ RequeueByHand(t, r)
      PROVE  StoreGood
  BY <1>2, InsertStep, ListSteps
<1> QED
  BY <1>1, <1>2, AgeStep, CrashStep, PatchStep, ElsewhereStep DEF StoreStep, StoreNext

-----------------------------------------------------------------------------
LEMMA StoreStarts == StreamsInit /\ StoreInit => StoreShape /\ StoreSound
<1> SUFFICES ASSUME StreamsInit, StoreInit PROVE StoreShape /\ StoreSound
  OBVIOUS
<1>1. Absent \in Row /\ Absent.status = "absent" /\ ~Absent.aged
      /\ Absent.msg = 0 /\ Absent.requeue = 0
  BY DEF Absent, Row, Statuses, Reasons
<1>2. FreeTask \in Task /\ TaskSound(FreeTask)
  BY DEF FreeTask, Task, TaskStages, TaskSound, Holding
<1>3. StreamsTypeOK /\ RawIds = {}
  BY StreamsAssumption DEF StreamsInit, StreamsTypeOK, RawIds
<1>4. StoreShape
  BY <1>1, <1>2, <1>3 DEF StoreShape, StoreInit, StoreTypeOK
<1>5. ASSUME NEW r \in Rows PROVE rows[r].requeue <= Requeues(r)
  <2>1. rows[r].requeue = 0
    BY <1>1 DEF StoreInit
  <2>2. Requeues(r) \in Nat
    BY <1>3, RequeuesFinite
  <2> QED
    BY <2>1, <2>2
<1>6. \A r \in Rows : RowSound(r)
  BY <1>1, <1>5 DEF StoreInit, RowSound
<1>7. \A t \in Tasks : TaskSound(task[t])
  BY <1>2 DEF StoreInit
<1> QED
  BY <1>3, <1>4, <1>6, <1>7 DEF StoreSound

LEMMA StoreSteps ==
    ASSUME StoreShape, StoreSound, [RawEventStoreNext]_rawEventStoreVars
    PROVE  StoreStep
<1>1. CASE UNCHANGED rawEventStoreVars
  BY <1>1, StreamParts
  DEF StoreStep, Elsewhere, rawEventStoreVars, streamVars, storeVars, StoreShape, StreamsTypeOK,
      StoreSound, RawIds, Stored
<1>2. ASSUME NEW i \in RawIds, NEW outcome \in {"processed", "failed"}, PatchArrives(i, outcome)
      PROVE  Patched
  <2>1. i \in Nat /\ rawLog[i].row \in Rows
    BY StreamParts DEF StoreShape, RawEntry
  <2> QED
    BY <1>2, <2>1 DEF PatchArrives, Patched
<1> QED
  BY <1>1, <1>2 DEF RawEventStoreNext, StoreStep

LEMMA StoreAlways == RawEventStoreSpec => [](StoreShape /\ StoreSound)
<1>1. RawEventStoreInit => StoreShape /\ StoreSound
  BY StoreStarts DEF RawEventStoreInit
<1>2. /\ StoreShape /\ StoreSound
      /\ [RawEventStoreNext]_rawEventStoreVars
      => (StoreShape /\ StoreSound)'
  BY StoreSteps, StoreStepIsGood DEF StoreGood
<1> QED
  BY <1>1, <1>2, PTL DEF RawEventStoreSpec

(* Type correctness of the table and of the requests: a row that has aged  *)
(* is enqueued, whatever wrote it last.                                    *)
THEOREM StoreTypeCorrect == RawEventStoreSpec => [](StreamsTypeOK /\ StoreTypeOK)
<1>1. StoreShape /\ StoreSound => StreamsTypeOK /\ StoreTypeOK
  BY DEF StoreShape
<1> QED
  BY <1>1, StoreAlways, PTL

(* Postgres first (raw_event_service.py): a message is of a stored row, an *)
(* enqueued row names an original message of its own, and no row is        *)
(* processed that was never published.                                     *)
LEMMA SoundAgrees == StoreShape /\ StoreSound => RowsAndStreamAgree
  BY DEF StoreSound, RowSound, Names, RowsAndStreamAgree

THEOREM RowsAgreeWithStream == RawEventStoreSpec => []RowsAndStreamAgree
  BY SoundAgrees, StoreAlways, PTL

(* requeue_count never claims a requeue that was not published, although a *)
(* requeue writes back a count it read some steps earlier.                 *)
LEMMA SoundLedger == StoreShape /\ StoreSound => RequeueLedger
  BY DEF StoreSound, RowSound, RequeueLedger, Requeues, RequeuesOf

THEOREM RequeuesAreLedgered == RawEventStoreSpec => []RequeueLedger
  BY SoundLedger, StoreAlways, PTL

-----------------------------------------------------------------------------
(* A row left collected is still held by a request, or something failed.   *)
(* What the step of a request does about that: the rows it held and no     *)
(* longer holds are not collected, and it holds the row it has inserted.   *)
Covers(t) ==
    /\ \A u \in Tasks \ {t} : task'[u].row = task[u].row
    /\ \A r \in Rows : rows'[r].status = "collected" =>
          r \in task'[t].row \/ (rows[r].status = "collected" /\ r \notin task[t].row)

LEMMA CoversKeeps ==
    ASSUME CollectedIsUnderWay, faults \in Nat, faults' \in Nat, faults <= faults',
           NEW t \in Tasks, Covers(t)
    PROVE  CollectedIsUnderWay'
  BY DEF CollectedIsUnderWay, Covers

LEMMA HoldsNothing ==
    ASSUME StoreSound, NEW t \in Tasks, task[t].pc \in {"free", "auto", "stuck"}
    PROVE  task[t].row = {}
  BY DEF StoreSound, TaskSound, Holding

(* The failures of a step count. *)
LEMMA FaultCovers ==
    ASSUME faults \in Nat, Fault
    PROVE  CollectedIsUnderWay'
  BY DEF Fault, CollectedIsUnderWay

LEMMA TasksBut ==
    ASSUME StoreShape, NEW t \in Tasks, NEW k, task' = [task EXCEPT ![t] = k]
    PROVE  task'[t] = k /\ \A u \in Tasks \ {t} : task'[u] = task[u]
  BY DEF StoreShape, StoreTypeOK

LEMMA ReadCovers ==
    ASSUME StoreShape, StoreSound, NEW t \in Tasks, task[t].row = {}, rows' = rows,
           \E k : task' = [task EXCEPT ![t] = k]
    PROVE  Covers(t)
  BY TasksBut DEF Covers

LEMMA XaddCovers ==
    ASSUME StoreShape, StoreSound, NEW t \in Tasks, CreateXadd(t) \/ RequeueXadd(t)
    PROVE  Covers(t)
<1>1. task \in [Tasks -> Task] /\ rows' = rows
  BY DEF StoreShape, StoreTypeOK, CreateXadd, RequeueXadd
<1>2. task'[t].row = task[t].row
  BY <1>1 DEF CreateXadd, RequeueXadd, Task
<1>3. \A u \in Tasks \ {t} : task'[u] = task[u]
  BY <1>1 DEF CreateXadd, RequeueXadd
<1> QED
  BY <1>1, <1>2, <1>3 DEF Covers

LEMMA MarkCovers ==
    ASSUME StoreShape, StoreSound, NEW t \in Tasks,
           CreateMark(t) \/ CreateMarkFailed(t) \/ RequeueMark(t) \/ MarkStuck(t)
    PROVE  Covers(t)
<1>1. \E k : task' = [task EXCEPT ![t] = k]
  BY DEF CreateMark, CreateMarkFailed, RequeueMark, MarkStuck, EndTask, NextListed
<1>2. \A u \in Tasks \ {t} : task'[u] = task[u]
  BY <1>1, TasksBut
<1>3. CASE CreateMark(t)
  BY <1>2, <1>3, MarkEnqueuedOK DEF CreateMark, StoreShape, RowsBut, Enqueued, Covers
<1>4. CASE CreateMarkFailed(t)
  BY <1>2, <1>4, MarkXaddFailedOK DEF CreateMarkFailed, StoreShape, RowsBut, FailedNow, Covers
<1>5. CASE RequeueMark(t)
  BY <1>2, <1>5, MarkRequeuedOK DEF RequeueMark, StoreShape, RowsBut, Enqueued, Covers
<1>6. CASE MarkStuck(t)
  <2>1. task[t].row = {}
    BY <1>6, HoldsNothing DEF MarkStuck, TaskAt
  <2> QED
    BY <1>2, <1>6, <2>1, FailStuckOK DEF MarkStuck, StoreShape, RowsBut, FailedNow, Covers
<1> QED
  BY <1>3, <1>4, <1>5, <1>6

LEMMA ListCovers ==
    ASSUME StoreShape, StoreSound, NEW t \in Tasks,
           \/ AutoNext(t) \/ AutoRequeue(t) \/ ListStuck(t) \/ \E r \in Rows : RequeueByHand(t, r)
    PROVE  Covers(t)
<1>1. task[t].row = {}
  BY HoldsNothing DEF AutoNext, AutoRequeue, ListStuck, RequeueByHand, TaskAt
<1>2. rows' = rows
  BY DEF AutoNext, AutoRequeue, ListStuck, RequeueByHand, ReadForRequeue
<1>3. \E k : task' = [task EXCEPT ![t] = k]
  BY DEF AutoNext, AutoRequeue, ListStuck, RequeueByHand, ReadForRequeue, NextListed
<1> QED
  BY <1>1, <1>2, <1>3, ReadCovers

LEMMA InsertCovers ==
    ASSUME StoreShape, StoreSound, NEW t \in Tasks, NEW r \in Rows, InsertRow(t, r)
    PROVE  Covers(t)
<1>1. PICK k : k = [FreeTask EXCEPT !.pc = "xadd", !.row = {r}]
  OBVIOUS
<1>2. k.row = {r}
  BY <1>1 DEF FreeTask
<1>3. task'[t] = k /\ \A u \in Tasks \ {t} : task'[u] = task[u]
  BY <1>1, TasksBut DEF InsertRow
<1>4. task[t].row = {}
  BY HoldsNothing DEF InsertRow, TaskAt
<1>5. \A q \in Rows \ {r} : rows'[q] = rows[q]
  BY DEF InsertRow, StoreShape, StoreTypeOK
<1> QED
  BY <1>2, <1>3, <1>4, <1>5 DEF Covers

LEMMA AloneCovers ==
    ASSUME StoreShape, StoreSound, CollectedIsUnderWay, StoreGrows, faults' \in Nat,
           (\E r \in Rows : Age(r)) \/ Patched \/ Elsewhere
    PROVE  CollectedIsUnderWay'
<1>1. faults \in Nat /\ faults <= faults'
  BY StreamParts DEF StoreShape, StoreGrows
<1>2. task' = task
  BY DEF Age, Patched, Elsewhere, storeVars
<1>3. \A r \in Rows : rows'[r].status = "collected" => rows[r].status = "collected"
  <2>1. ASSUME NEW r \in Rows, Age(r), NEW q \in Rows
        PROVE  rows'[q].status = rows[q].status
    BY <2>1, RowType DEF Age, StoreShape, StoreTypeOK, Row
  <2>2. CASE Patched
    BY <2>2, UpdateStatusOK DEF Patched, StoreShape, RowsBut
  <2>3. CASE Elsewhere
    BY <2>3 DEF Elsewhere, storeVars
  <2> QED
    BY <2>1, <2>2, <2>3
<1> QED
  BY <1>1, <1>2, <1>3 DEF CollectedIsUnderWay

LEMMA CollectedStep ==
    ASSUME StoreShape, StoreSound, CollectedIsUnderWay, StoreStep
    PROVE  CollectedIsUnderWay'
<1>1. StoreGood /\ faults \in Nat
  BY StoreStepIsGood, StreamParts DEF StoreShape
<1>2. faults' \in Nat /\ faults <= faults' /\ StoreGrows
  <2>1. faults' \in 0..FaultLimit
    BY <1>1 DEF StoreGood, StoreShape, StreamsTypeOK
  <2> QED
    BY <1>1, <2>1, StreamParts DEF StoreGood, StoreGrows, StoreShape
<1>3. ASSUME NEW t \in Tasks, TaskWorks(t) \/ Recover(t) PROVE Covers(t)
  BY <1>3, MarkCovers, XaddCovers, ListCovers DEF TaskWorks, Recover
<1>4. ASSUME NEW t \in Tasks, NEW r \in Rows, InsertRow(t, r) \/ RequeueByHand(t, r)
      PROVE  Covers(t)
  BY <1>4, InsertCovers, ListCovers
<1>5. ASSUME NEW t \in Tasks, TaskFails(t) PROVE Fault
  BY <1>5 DEF TaskFails, CreateXaddFails, CreateMarkFails, CreateMarkFailedFails,
     RequeueXaddFails, RequeueMarkFails, MarkStuckFails, SelectFails
<1>6. BackendCrashes => Fault
  BY DEF BackendCrashes
<1> QED
  BY <1>1, <1>2, <1>3, <1>4, <1>5, <1>6, CoversKeeps, FaultCovers, AloneCovers
  DEF StoreStep, StoreNext

(* raw_event_service.py: a row stays collected only while the request that *)
(* inserted it goes on, unless a failure cut a request short.              *)
THEOREM CollectedIsAlwaysUnderWay == RawEventStoreSpec => []CollectedIsUnderWay
<1>1. RawEventStoreInit => CollectedIsUnderWay
  BY DEF RawEventStoreInit, StoreInit, Absent, CollectedIsUnderWay
<1>2. /\ StoreShape /\ StoreSound /\ CollectedIsUnderWay
      /\ [RawEventStoreNext]_rawEventStoreVars
      => CollectedIsUnderWay'
  BY StoreSteps, CollectedStep
<1> QED
  BY <1>1, <1>2, StoreAlways, PTL DEF RawEventStoreSpec

=============================================================================
