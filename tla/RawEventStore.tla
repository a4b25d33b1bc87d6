---------------------------- MODULE RawEventStore ----------------------------
(***************************************************************************)
(* The raw_events table of the backend and the admin requests that change  *)
(* it: create (backend/app/services/raw_event_service.py), requeue, the    *)
(* status PATCH of the agent worker, and the two recovery requests of      *)
(* reconciler_service.py.                                                  *)
(*                                                                         *)
(* A request is a task of the backend; every commit and every XADD is a    *)
(* step, so requests interleave between their SELECT, their XADD and their *)
(* UPDATE.  No UPDATE rechecks what the SELECT saw.  A request that        *)
(* changes nothing (a duplicate create, a refused requeue, a dry run) is   *)
(* no step.                                                                *)
(***************************************************************************)
EXTENDS Streams, FiniteSets

CONSTANTS Tasks,         \* requests the backend can be serving at a time
          MaxRequeue,    \* max_requeue of requeue-failed-xadd
          ListLimit,     \* limit of the lists the recovery requests read
          ByHand,        \* kinds of requeue an operator asks for
          RequeueLimit   \* bound on requeues an operator asks for

ASSUME StoreAssumption ==
    /\ MaxRequeue \in Nat
    /\ ListLimit \in Nat
    /\ ByHand \subseteq {"plain", "force"}
    /\ RequeueLimit \in Nat

VARIABLES rows,     \* the table, by content_hash
          older,    \* pairs of stored rows, the first with the older updated_at
          task      \* what each request is at

storeVars == <<rows, older, task>>
rawEventStoreVars == <<streamVars, storeVars>>

Statuses == {"absent", "collected", "enqueued", "processed", "failed"}
Reasons == {"none", "xadd_failed", "stuck", "agent"}
TaskStages == {"free", "xadd", "mark", "markFailed", "auto", "requeueXadd", "requeueMark", "stuck"}

(* msg is enqueued_msg_id, card is event_card_id (0 for null), requeue is   *)
(* raw_metadata.requeue_count; aged says updated_at is before_seconds ago.  *)
Row == [status : Statuses, reason : Reasons, requeue : Nat, msg : Nat, card : Nat, aged : BOOLEAN]
Absent == [status |-> "absent", reason |-> "none", requeue |-> 0, msg |-> 0, card |-> 0,
           aged |-> FALSE]

(* todo: the rows a recovery request has listed; row, msg, count: the row    *)
(* at hand, the id its XADD returned and the requeue_count that was read.    *)
Task == [pc : TaskStages, todo : SUBSET Rows, row : SUBSET Rows, msg : Nat, count : Nat]
FreeTask == [pc |-> "free", todo |-> {}, row |-> {}, msg |-> 0, count |-> 0]

(* Only an enqueued row ages: any update makes updated_at young again. *)
StoreTypeOK ==
    /\ rows \in [Rows -> Row]
    /\ \A r \in Rows : rows[r].aged => rows[r].status = "enqueued"
    /\ older \subseteq Rows \X Rows
    /\ task \in [Tasks -> Task]

StoreInit ==
    /\ rows = [r \in Rows |-> Absent]
    /\ older = {}
    /\ task = [t \in Tasks |-> FreeTask]

-----------------------------------------------------------------------------
TaskAt(t, stage) == task[t].pc = stage
TaskGoto(t, stage) == task' = [task EXCEPT ![t].pc = stage]
EndTask(t) == task' = [task EXCEPT ![t] = FreeTask]

Stored == {r \in Rows : rows[r].status # "absent"}

(* A write of rows; it sets their updated_at.  (A requeue sets the time it  *)
(* read the row at: as good as this one, for a row that is not failed.)     *)
Write(new) ==
    /\ rows' = [r \in Rows |-> IF r \in DOMAIN new THEN new[r] ELSE rows[r]]
    /\ older' = {p \in older : p[1] \in DOMAIN new <=> p[2] \in DOMAIN new}
                    \cup (Stored \ DOMAIN new) \X DOMAIN new

(* An UPDATE or its commit that raises has been applied or not.  Nobody      *)
(* rolls the session back, so whatever the request tries on it next raises   *)
(* as well and the request is over.                                          *)
MaybeApplied(update) == update \/ UNCHANGED <<rows, older>>

(* ORDER BY updated_at LIMIT n *)
Oldest(which, n) == {r \in which : Cardinality({q \in which : <<q, r>> \in older}) < n}

(* INSERT ... ON CONFLICT DO NOTHING of a new content_hash, committed. *)
InsertRow(t, r) ==
    /\ TaskAt(t, "free")
    /\ rows[r].status = "absent"
    /\ rows' = [rows EXCEPT ![r].status = "collected"]
    /\ older' = older \cup Stored \X {r}
    /\ task' = [task EXCEPT ![t] = [FreeTask EXCEPT !.pc = "xadd", !.row = {r}]]
    /\ UNCHANGED streamVars

CreateXadd(t) ==
    /\ TaskAt(t, "xadd")
    /\ \E r \in task[t].row : EnqueueRawEvent(r, "create")
    /\ task' = [task EXCEPT ![t].pc = "mark", ![t].msg = Len(rawLog) + 1]
    /\ UNCHANGED <<agentLog, faults, rows, older>>

(* Mutant: enqueue_raw_event swallows the exception of its XADD. *)
CreateXaddFailsUnseen(t) ==
    /\ TaskAt(t, "xadd")
    /\ Fault
    /\ (\E r \in task[t].row : EnqueueRawEvent(r, "create")) \/ UNCHANGED rawLog
    /\ TaskGoto(t, "mark")
    /\ UNCHANGED <<agentLog, rows, older>>

CreateXaddFails(t) ==
    /\ TaskAt(t, "xadd")
    /\ Fault
    /\ (\E r \in task[t].row : EnqueueRawEvent(r, "create")) \/ UNCHANGED rawLog
    /\ TaskGoto(t, "markFailed")
    /\ UNCHANGED <<agentLog, rows, older>>

MarkEnqueued(t) ==
    Write([r \in task[t].row |->
        [rows[r] EXCEPT !.status = "enqueued", !.msg = task[t].msg, !.aged = FALSE]])

(* Mutant: the request ends without its second commit. *)
CreateMarkUncommitted(t) ==
    /\ TaskAt(t, "mark")
    /\ EndTask(t)
    /\ UNCHANGED <<streamVars, rows, older>>

CreateMark(t) ==
    /\ TaskAt(t, "mark")
    /\ MarkEnqueued(t)
    /\ EndTask(t)
    /\ UNCHANGED streamVars

(* The UPDATE of the except branch finds its session unusable. *)
CreateMarkFails(t) ==
    /\ TaskAt(t, "mark")
    /\ Fault
    /\ MaybeApplied(MarkEnqueued(t))
    /\ EndTask(t)
    /\ UNCHANGED <<rawLog, agentLog>>

MarkXaddFailed(t) ==
    Write([r \in task[t].row |->
        [rows[r] EXCEPT !.status = "failed", !.reason = "xadd_failed", !.aged = FALSE]])

CreateMarkFailed(t) ==
    /\ TaskAt(t, "markFailed")
    /\ MarkXaddFailed(t)
    /\ EndTask(t)
    /\ UNCHANGED streamVars

(* The except branch itself raises: the request ends in a 500. *)
CreateMarkFailedFails(t) ==
    /\ TaskAt(t, "markFailed")
    /\ Fault
    /\ MaybeApplied(MarkXaddFailed(t))
    /\ EndTask(t)
    /\ UNCHANGED <<rawLog, agentLog>>

-----------------------------------------------------------------------------
(* requeue_raw_event reads the row and refuses a processed one unless       *)
(* forced; what it goes on with is the requeue_count it read.               *)
ReadForRequeue(t, r, force, todo) ==
    /\ rows[r].status # "absent"
    /\ rows[r].status = "processed" => force
    /\ task' = [task EXCEPT ![t] = [FreeTask EXCEPT
           !.pc = "requeueXadd", !.row = {r}, !.count = rows[r].requeue, !.todo = todo]]
    /\ UNCHANGED <<streamVars, rows, older>>

RequeueByHand(t, r) ==
    /\ TaskAt(t, "free")
    /\ Cardinality({i \in RawIds : rawLog[i].via = "requeue"}) < RequeueLimit
    /\ \E kind \in ByHand : ReadForRequeue(t, r, kind = "force", {})

(* list_failed_xadd: of the failed rows longest untouched, those whose XADD *)
(* failed and that are below the requeue limit.                             *)
Failed == {r \in Rows : rows[r].status = "failed"}
XaddFailed == {r \in Failed : rows[r].reason = "xadd_failed" /\ rows[r].requeue < MaxRequeue}
(* Mutant: off by one in the requeue limit. *)
RequeueableOnceLess ==
    Oldest(Failed, ListLimit) \cap {r \in XaddFailed : rows[r].requeue + 1 < MaxRequeue}

Requeueable == Oldest(Failed, ListLimit) \cap XaddFailed

AutoRequeue(t) ==
    /\ TaskAt(t, "free")
    /\ Requeueable # {}
    /\ task' = [task EXCEPT ![t] = [FreeTask EXCEPT !.pc = "auto", !.todo = Requeueable]]
    /\ UNCHANGED <<streamVars, rows, older>>

(* On with the list, or done; an operator's requeue has no list. *)
NextListed(t, todo) ==
    task' = [task EXCEPT ![t] =
        IF todo = {} THEN FreeTask ELSE [FreeTask EXCEPT !.pc = "auto", !.todo = todo]]

(* Each listed row is read again; a processed one is refused and skipped. *)
AutoNext(t) ==
    /\ TaskAt(t, "auto")
    /\ \E r \in task[t].todo :
          \/ ReadForRequeue(t, r, FALSE, task[t].todo \ {r})
          \/ /\ rows[r].status = "processed"
             /\ NextListed(t, task[t].todo \ {r})
             /\ UNCHANGED <<streamVars, rows, older>>

RequeueXadd(t) ==
    /\ TaskAt(t, "requeueXadd")
    /\ \E r \in task[t].row : EnqueueRawEvent(r, "requeue")
    /\ task' = [task EXCEPT ![t].pc = "requeueMark", ![t].msg = Len(rawLog) + 1]
    /\ UNCHANGED <<agentLog, faults, rows, older>>

(* Mutant: the requeue goes on although its XADD failed. *)
RequeueXaddFailsUnseen(t) ==
    /\ TaskAt(t, "requeueXadd")
    /\ Fault
    /\ (\E r \in task[t].row : EnqueueRawEvent(r, "requeue")) \/ UNCHANGED rawLog
    /\ TaskGoto(t, "requeueMark")
    /\ UNCHANGED <<agentLog, rows, older>>

RequeueXaddFails(t) ==
    /\ TaskAt(t, "requeueXadd")
    /\ Fault
    /\ (\E r \in task[t].row : EnqueueRawEvent(r, "requeue")) \/ UNCHANGED rawLog
    /\ NextListed(t, task[t].todo)
    /\ UNCHANGED <<agentLog, rows, older>>

MarkRequeued(t) ==
    Write([r \in task[t].row |->
        [rows[r] EXCEPT !.status = "enqueued", !.msg = task[t].msg, !.reason = "none",
                        !.requeue = task[t].count + 1, !.aged = FALSE]])

RequeueMark(t) ==
    /\ TaskAt(t, "requeueMark")
    /\ MarkRequeued(t)
    /\ NextListed(t, task[t].todo)
    /\ UNCHANGED streamVars

(* The rows left on the list are not requeued: each of their SELECTs raises.*)
RequeueMarkFails(t) ==
    /\ TaskAt(t, "requeueMark")
    /\ Fault
    /\ MaybeApplied(MarkRequeued(t))
    /\ EndTask(t)
    /\ UNCHANGED <<rawLog, agentLog>>

(* The SELECT of the row just inserted, or of the next listed row, raises. *)
SelectFails(t) ==
    /\ TaskAt(t, "xadd") \/ TaskAt(t, "auto")
    /\ Fault
    /\ EndTask(t)
    /\ UNCHANGED <<rawLog, agentLog, rows, older>>

-----------------------------------------------------------------------------
(* mark_stuck_as_failed: list the rows enqueued for too long ... *)
Stuck == Oldest({r \in Rows : rows[r].status = "enqueued" /\ rows[r].aged}, ListLimit)

ListStuck(t) ==
    /\ TaskAt(t, "free")
    /\ Stuck # {}
    /\ task' = [task EXCEPT ![t] = [FreeTask EXCEPT !.pc = "stuck", !.todo = Stuck]]
    /\ UNCHANGED <<streamVars, rows, older>>

(* ... and fail them by id, whatever has become of them. *)
FailStuck(t) ==
    Write([r \in task[t].todo |->
        [rows[r] EXCEPT !.status = "failed", !.reason = "stuck", !.aged = FALSE]])

(* Mutant: the UPDATE of the stuck rows is never committed. *)
MarkStuckUncommitted(t) ==
    /\ TaskAt(t, "stuck")
    /\ EndTask(t)
    /\ UNCHANGED <<streamVars, rows, older>>

MarkStuck(t) ==
    /\ TaskAt(t, "stuck")
    /\ FailStuck(t)
    /\ EndTask(t)
    /\ UNCHANGED streamVars

MarkStuckFails(t) ==
    /\ TaskAt(t, "stuck")
    /\ Fault
    /\ MaybeApplied(FailStuck(t))
    /\ EndTask(t)
    /\ UNCHANGED <<rawLog, agentLog>>

(* Mutant: the PATCH leaves updated_at as it was. *)
UpdateStatusUntouched(r, outcome, card) ==
    Write([q \in {r} |->
        [rows[q] EXCEPT !.status = outcome,
                        !.card = IF outcome = "processed" THEN card ELSE @,
                        !.reason = IF outcome = "failed" THEN "agent" ELSE @]])

(* The status PATCH: a card only with "processed", a reason only with       *)
(* "failed"; what is not given is left as it was.                           *)
UpdateStatus(r, outcome, card) ==
    Write([q \in {r} |->
        [rows[q] EXCEPT !.status = outcome,
                        !.card = IF outcome = "processed" THEN card ELSE @,
                        !.reason = IF outcome = "failed" THEN "agent" ELSE @,
                        !.aged = FALSE]])

(* before_seconds go by without an update of the row. *)
Age(r) ==
    /\ rows[r].status = "enqueued"
    /\ ~rows[r].aged
    /\ \A q \in Rows : <<q, r>> \in older /\ rows[q].status = "enqueued" => rows[q].aged
    /\ rows' = [rows EXCEPT ![r].aged = TRUE]
    /\ UNCHANGED <<streamVars, older, task>>

BackendCrashes ==
    /\ \E t \in Tasks : ~TaskAt(t, "free")
    /\ Fault
    /\ task' = [t \in Tasks |-> FreeTask]
    /\ UNCHANGED <<rawLog, agentLog, rows, older>>

TaskWorks(t) ==
    \/ CreateXadd(t) \/ CreateMark(t) \/ CreateMarkFailed(t)
    \/ AutoNext(t) \/ RequeueXadd(t) \/ RequeueMark(t) \/ MarkStuck(t)
TaskFails(t) ==
    \/ CreateXaddFails(t) \/ CreateMarkFails(t) \/ CreateMarkFailedFails(t)
    \/ RequeueXaddFails(t) \/ RequeueMarkFails(t) \/ MarkStuckFails(t) \/ SelectFails(t)
Recover(t) == AutoRequeue(t) \/ ListStuck(t)

StoreNext ==
    \/ \E t \in Tasks : TaskWorks(t) \/ TaskFails(t) \/ Recover(t)
    \/ \E t \in Tasks, r \in Rows : InsertRow(t, r) \/ RequeueByHand(t, r)
    \/ \E r \in Rows : Age(r)
    \/ BackendCrashes

-----------------------------------------------------------------------------
(* The store on its own: the pipeline may report, at any time and more than *)
(* once, on any message that was ever published.                            *)
PatchArrives(i, outcome) ==
    /\ UpdateStatus(rawLog[i].row, outcome, i)
    /\ UNCHANGED <<streamVars, task>>

RawEventStoreInit == StreamsInit /\ StoreInit
RawEventStoreNext ==
    \/ StoreNext
    \/ \E i \in RawIds, outcome \in {"processed", "failed"} : PatchArrives(i, outcome)

RawEventStoreSpec == RawEventStoreInit /\ [][RawEventStoreNext]_rawEventStoreVars

(* A request the backend has begun goes on; the recovery scheduler sends    *)
(* its two requests on every tick; the clock runs.                          *)
StoreFairness ==
    /\ \A t \in Tasks : WF_rawEventStoreVars(TaskWorks(t))
    /\ WF_rawEventStoreVars(\E t \in Tasks : AutoRequeue(t))
    /\ WF_rawEventStoreVars(\E t \in Tasks : ListStuck(t))
    /\ \A r \in Rows : WF_rawEventStoreVars(Age(r))

RawEventStoreFairSpec == RawEventStoreSpec /\ StoreFairness

-----------------------------------------------------------------------------
(* Postgres first: a message exists only for a stored row, a row's         *)
(* enqueued_msg_id names an original message of that very row, and a row is *)
(* enqueued or processed only if it has one.                               *)
RowsAndStreamAgree ==
    /\ \A i \in RawIds : rawLog[i].row \in Stored
    /\ \A r \in Rows :
          /\ rows[r].msg # 0 => /\ rows[r].msg \in RawIds
                                /\ rawLog[rows[r].msg].row = r
                                /\ rawLog[rows[r].msg].of = 0
          /\ rows[r].status = "enqueued" => rows[r].msg # 0
          /\ rows[r].status = "processed" => \E i \in RawIds : rawLog[i].row = r

(* requeue_count never claims more requeues than were published.            *)
RequeueLedger == \A r \in Rows :
    rows[r].requeue <= Cardinality({i \in RawIds : rawLog[i].row = r /\ rawLog[i].via = "requeue"})

(* A row is left collected only by a request still under way, or by one     *)
(* that a failure cut short.                                                *)
CollectedIsUnderWay == \A r \in Rows :
    rows[r].status = "collected" => faults > 0 \/ \E t \in Tasks : r \in task[t].row

(* No row stays enqueued for ever: it is processed, or failed in the end    *)
(* by the reconciler.                                                       *)
EnqueuedResolves == \A r \in Rows :
    rows[r].status = "enqueued" ~> rows[r].status # "enqueued"

(* reconciler_service.py: a row whose XADD failed is recovered by the       *)
(* automatic requeue.                                                       *)
XaddFailedIsRecovered == \A r \in Rows : r \in XaddFailed ~> r \notin XaddFailed

-----------------------------------------------------------------------------
(* What the repository says of the table, in the place the comment names.   *)

(* EVENT_SCHEMA.md:113: collected, enqueued, then processed or failed. Only  *)
(* a requeue takes a row back.                                              *)
LifecycleHolds ==
    [][\A r \in Rows : rows[r].status = "processed" /\ rows'[r].status = "enqueued"
                           => rows'[r].requeue # rows[r].requeue]_storeVars

=============================================================================
