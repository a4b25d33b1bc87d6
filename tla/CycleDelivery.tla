---------------------------- MODULE CycleDelivery ----------------------------
(***************************************************************************)
(* What becomes of the records a production cycle collects.  The cycle     *)
(* drops what its dedup index has seen, appends the rest to the JSONL      *)
(* EventQueue, posts them one by one to raw_events through the bridge,     *)
(* writes the monitoring report with its alerts, and saves the index last. *)
(* A record is never tried again: once its key is in the index only the    *)
(* alert of its cycle tells of a failed delivery.                          *)
(*                                                                         *)
(* Nothing keeps an operator from starting a cycle while another runs, and *)
(* both then load and save the same index file.  An index file that cannot *)
(* be read is taken for an empty one, and saved over at the end.           *)
(***************************************************************************)
EXTENDS Naturals, FiniteSets, FiniteSetsExt

CONSTANTS
    Runners,     \* processes that may run a cycle
    Records,     \* what the sources have to offer
    Keys, NoKey, \* dedup keys; a record without any ground for identity has none
    KeyOf,
    Hashes, NoUrl, \* content hashes; a record without an external url is held
    HashOf,
    MaxBatch,    \* bound: records one cycle collects
    MaxCycles,   \* bound: cycles started
    MaxCrashes,  \* bound: cycles that die half way
    MaxUnread    \* bound: cycles that cannot read the index

ASSUME DeliveryAssumption ==
    /\ NoKey \notin Keys /\ KeyOf \in [Records -> Keys \cup {NoKey}]
    /\ NoUrl \notin Hashes /\ HashOf \in [Records -> Hashes \cup {NoUrl}]
    /\ IsFiniteSet(Records)
    /\ {MaxBatch, MaxCycles, MaxCrashes, MaxUnread} \subseteq Nat

VARIABLES
    index,   \* dedup_index.json
    queue,   \* lines of each record in event_queue.jsonl
    rows,    \* content hashes in raw_events
    alerted, \* records whose failed delivery a saved monitoring report tells of
    run,     \* the cycle of each runner, in memory
    hist     \* counters: cycles, crashes, starts beside another cycle, without the index

vars == <<index, queue, rows, alerted, run, hist>>

Idle == [pc |-> "idle", blind |-> FALSE, seen |-> {}, written |-> {}, todo |-> {},
         queueFailed |-> FALSE, hashes |-> {}, rawFailed |-> {}]

Init ==
    /\ index = {}
    /\ queue = [r \in Records |-> 0]
    /\ rows = {}
    /\ alerted = [queue |-> {}, raw |-> {}]
    /\ run = [w \in Runners |-> Idle]
    /\ hist = [cycles |-> 0, crashes |-> 0, overlaps |-> 0, unread |-> 0]

(* Mutant: the missing key is added to the index like a key. *)
AllKeysOf(records) == {KeyOf[r] : r \in records}

KeysOf(records) == {KeyOf[r] : r \in records} \ {NoKey}

-----------------------------------------------------------------------------
(* Mutant: the index is not asked at all. *)
PassesAll(got, seen, written) == written = got

(* Records the index lets pass: the first of each key not yet seen, and     *)
(* every record without a key.                                             *)
Passes(got, seen, written) ==
    /\ written \subseteq got
    /\ KeysOf(written) = KeysOf(got) \ seen
    /\ \A r \in got : KeyOf[r] = NoKey => r \in written
    /\ \A r1, r2 \in written : KeyOf[r1] = KeyOf[r2] => r1 = r2 \/ KeyOf[r1] = NoKey

(* What DedupIndex finds in its file: nothing, if it cannot be read. *)
Loaded(blind) == IF blind THEN {} ELSE index

(* The sources have been probed: the index is loaded and asked. *)
Collect(w) ==
    /\ run[w].pc = "idle"
    /\ hist.cycles < MaxCycles
    /\ \E got \in SUBSET Records, written \in SUBSET Records, blind \in BOOLEAN :
          /\ Cardinality(got) <= MaxBatch
          /\ blind => hist.unread < MaxUnread
          /\ Passes(got, Loaded(blind), written)
          /\ run' = [run EXCEPT ![w] = [Idle EXCEPT
                        !.pc = "queue",
                        !.blind = blind,
                        !.seen = Loaded(blind) \cup KeysOf(got),
                        !.written = written,
                        !.todo = written]]
          /\ hist' = [hist EXCEPT
                !.cycles = @ + 1,
                !.overlaps = IF \E v \in Runners : run[v].pc # "idle" THEN @ + 1 ELSE @,
                !.unread = IF blind THEN @ + 1 ELSE @]
    /\ UNCHANGED <<index, queue, rows, alerted>>

(* The append to the EventQueue; an OSError may leave some of the lines. *)
Append(w) ==
    /\ run[w].pc = "queue"
    /\ \E lines \in SUBSET run[w].written :
          /\ queue' = [r \in Records |-> IF r \in lines THEN queue[r] + 1 ELSE queue[r]]
          /\ \E failed \in BOOLEAN :
                /\ lines # run[w].written => failed
                /\ run' = [run EXCEPT ![w] = [@ EXCEPT !.pc = "bridge", !.queueFailed = failed]]
    /\ UNCHANGED <<index, rows, alerted, hist>>

-----------------------------------------------------------------------------
(* The bridge, one record after the other. *)

Done(w, r, failed, hash) ==
    run' = [run EXCEPT ![w] = [run[w] EXCEPT !.todo = run[w].todo \ {r},
                                             !.rawFailed = run[w].rawFailed \cup failed,
                                             !.hashes = run[w].hashes \cup hash]]

(* No external url: the record is held.  Its hash was written by this       *)
(* writer already: a duplicate, without a call.                             *)
NoCall(w, r) ==
    /\ HashOf[r] = NoUrl \/ HashOf[r] \in run[w].hashes
    /\ Done(w, r, {}, {})
    /\ UNCHANGED rows

(* Mutant: the failed write is remembered as written. *)
FailedButRemembered(w, r) ==
    /\ HashOf[r] # NoUrl /\ HashOf[r] \notin run[w].hashes
    /\ rows' \in {rows, rows \cup {HashOf[r]}}
    /\ Done(w, r, {r}, {HashOf[r]})

(* The POST fails: refused, or lost before or after the server acted. *)
PostFails(w, r) ==
    /\ HashOf[r] # NoUrl /\ HashOf[r] \notin run[w].hashes
    /\ rows' \in {rows, rows \cup {HashOf[r]}}
    /\ Done(w, r, {r}, {})

(* The POST succeeds: created, or collapsed with the row of that hash. *)
Posted(w, r) ==
    /\ HashOf[r] # NoUrl /\ HashOf[r] \notin run[w].hashes
    /\ rows' = rows \cup {HashOf[r]}
    /\ Done(w, r, {}, {HashOf[r]})

Bridge(w) ==
    /\ run[w].pc = "bridge"
    /\ \E r \in run[w].todo : NoCall(w, r) \/ PostFails(w, r) \/ Posted(w, r)
    /\ UNCHANGED <<index, queue, alerted, hist>>

-----------------------------------------------------------------------------
(* The end of the cycle. *)

Report(w) ==
    /\ run[w].pc = "bridge" /\ run[w].todo = {}
    /\ alerted' = [queue |-> IF run[w].queueFailed THEN alerted.queue \cup run[w].written
                             ELSE alerted.queue,
                   raw |-> alerted.raw \cup run[w].rawFailed]
    /\ run' = [run EXCEPT ![w].pc = "index"]
    /\ UNCHANGED <<index, queue, rows, hist>>

(* Mutant: only the keys of this cycle are saved. *)
SaveNewKeys(w) ==
    /\ run[w].pc = "index"
    /\ index' = KeysOf(run[w].written)
    /\ run' = [run EXCEPT ![w] = Idle]
    /\ UNCHANGED <<queue, rows, alerted, hist>>

SaveIndex(w) ==
    /\ run[w].pc = "index"
    /\ index' = run[w].seen
    /\ run' = [run EXCEPT ![w] = Idle]
    /\ UNCHANGED <<queue, rows, alerted, hist>>

(* The process dies, or an exception nobody catches ends the cycle. *)
Crash(w) ==
    /\ run[w].pc # "idle"
    /\ hist.crashes < MaxCrashes
    /\ run' = [run EXCEPT ![w] = Idle]
    /\ hist' = [hist EXCEPT !.crashes = @ + 1]
    /\ UNCHANGED <<index, queue, rows, alerted>>

Next ==
    \E w \in Runners :
        Collect(w) \/ Append(w) \/ Bridge(w) \/ Report(w) \/ SaveIndex(w) \/ Crash(w)

Spec == Init /\ [][Next]_vars

-----------------------------------------------------------------------------
(* Every variable has its type. *)
Cycle ==
    [pc : {"idle", "queue", "bridge", "index"}, blind : BOOLEAN, seen : SUBSET Keys,
     written : SUBSET Records, todo : SUBSET Records, queueFailed : BOOLEAN,
     hashes : SUBSET Hashes, rawFailed : SUBSET Records]

TypeOK ==
    /\ index \in SUBSET Keys
    /\ queue \in [Records -> Nat]
    /\ rows \in SUBSET Hashes
    /\ alerted \in [queue : SUBSET Records, raw : SUBSET Records]
    /\ run \in [Runners -> Cycle]
    /\ hist \in [cycles : Nat, crashes : Nat, overlaps : Nat, unread : Nat]

(* What happened to a record: it is in the queue and in raw_events (or held *)
(* for want of a url), or an alert tells of the part that failed.           *)
Queued(r) == queue[r] > 0 \/ r \in alerted.queue
Stored(r) == HashOf[r] \in rows \cup {NoUrl} \/ r \in alerted.raw
Settled(k) == \E r \in Records : KeyOf[r] = k /\ Queued(r) /\ Stored(r)

(* The index never says "seen" of a key whose record was lost without a     *)
(* trace: it is saved after the report, so the alert of a failed delivery   *)
(* is on disk before the record is barred from every later cycle.           *)
NoSilentLoss == \A k \in index : Settled(k)

(* The lines of the queue that carry records of one key. *)
Lines(k) == FoldSet(LAMBDA r, n : queue[r] + n, 0, {r \in Records : KeyOf[r] = k})

(* A record is appended to the EventQueue a second time only where the code *)
(* lets it: after a cycle that died before it saved the index, when two     *)
(* cycles ran at once, or in a cycle that could not read the index.  Each   *)
(* of these costs a key one more line at most.                              *)
RepeatsAreExplained ==
    \A k \in Keys : Lines(k) <= 1 + hist.crashes + hist.overlaps + hist.unread

(* With one cycle at a time a key goes from the index in one way only: a    *)
(* cycle that could not read the file saves what it has seen itself over    *)
(* it.  No other cycle, crash or partial failure takes a key back.          *)
IndexGrows ==
    [][hist.overlaps = 0 =>
          \/ index \subseteq index'
          \/ \E w \in Runners : run[w].pc = "index" /\ run[w].blind]_vars
=============================================================================
