---------------------------- MODULE EventTimeline ----------------------------
(***************************************************************************)
(* How clusters of records become events: resolve_and_apply_cluster looks  *)
(* a cluster up in four tables, decides, and applies the decision in one   *)
(* PostgreSQL transaction of its own, with a second one for what follows   *)
(* from it.  Several processes may do this at once (the production cycle,  *)
(* a second cycle, the smoke tool).                                        *)
(*                                                                         *)
(* A transaction is READ COMMITTED: each statement sees what is committed  *)
(* when it runs, an INSERT ... ON CONFLICT DO NOTHING or an UPDATE waits   *)
(* for the transaction that holds its key or row, and a cycle of waits     *)
(* costs one of them its transaction.                                      *)
(***************************************************************************)
EXTENDS RecordClusters

CONSTANTS
    Workers,
    Clusters,    \* the candidates of all batches (Candidate of RecordClusters)
    EventIds,    \* ids of events, in the order they are drawn
    MaxRounds,   \* bound: clusters taken up
    MaxFaults    \* bound: database errors and dying processes

ClusterIds == {c.id : c \in Clusters}
Anchors == UNION {Range(c.anchors) : c \in Clusters}
Prints == UNION {Range(c.prints) : c \in Clusters}
Titles == {c.title : c \in Clusters} \cup UNION {c.keys : c \in Clusters}

ASSUME TimelineAssumption ==
    /\ EventIds \subseteq Nat
    /\ None \notin EventIds /\ None \notin Titles
    /\ MaxRounds \in Nat /\ MaxFaults \in Nat
    /\ \A c \in Clusters : /\ c.weak \subseteq c.keys /\ c.primary \in c.keys
                           /\ c.anchors \in Seq(Anchors) /\ c.prints \in Seq(Prints)

VARIABLES
    title,      \* events: canonical_title of each, None of an unused id
    updates,    \* event_updates: how many rows each event has
    clusterMap, \* cluster_event_map
    anchorMap,  \* event_identity_map
    printMap,   \* event_identity_candidate
    links,      \* event_links, all of them "possible"
    run,        \* what each worker is doing, with its open transaction
    hist        \* counters, and history for the properties

tables == <<title, updates, clusterMap, anchorMap, printMap, links>>
vars == <<tables, run, hist>>

NoTx == [new |-> {}, appended |-> None, mapped |-> FALSE, anchors |-> {}, prints |-> {}, links |-> {}]

Idle == [pc |-> "idle", c |-> None, event |-> None, promoted |-> FALSE, semantic |-> None,
         action |-> None, hold |-> {}, claim |-> <<>>, tx |-> NoTx]

Init ==
    /\ title = [e \in EventIds |-> None]
    /\ updates = [e \in EventIds |-> 0]
    /\ clusterMap = [k \in ClusterIds |-> None]
    /\ anchorMap = [a \in Anchors |-> None]
    /\ printMap = [f \in Prints |-> None]
    /\ links = {}
    /\ run = [w \in Workers |-> Idle]
    /\ hist = [rounds |-> 0, faults |-> 0, overlap |-> FALSE, split |-> {}]

At(w, pc) == run[w].pc = pc
Of(w) == run[w].c
Mapped == {clusterMap[k] : k \in ClusterIds} \ {None}

-----------------------------------------------------------------------------
(* The lookups, each a statement of its own. *)

Take(w, c) ==
    /\ At(w, "idle") /\ hist.rounds < MaxRounds
    /\ run' = [run EXCEPT ![w] = [Idle EXCEPT !.pc = "cluster", !.c = c]]
    /\ hist' = [hist EXCEPT !.rounds = @ + 1,
                            !.overlap = @ \/ \E v \in Workers : ~At(v, "idle")]
    /\ UNCHANGED tables

GetClusterEvent(w) ==
    /\ At(w, "cluster")
    /\ LET e == clusterMap[Of(w).id]
       IN  run' = [run EXCEPT ![w].event = e, ![w].pc = IF e = None THEN "held" ELSE "route"]
    /\ UNCHANGED <<tables, hist>>

(* find_held_parents: the shown events some member was once held for, with  *)
(* a title that matches the cluster's; their order is that of random ids.   *)
HeldParents(c) ==
    {p \in Mapped : Similar(title[p], c.title) /\ \E l \in links : l.to = p /\ title[l.from] \in c.keys}

FindHeldParents(w) ==
    /\ At(w, "held")
    /\ IF HeldParents(Of(w)) = {}
       THEN run' = [run EXCEPT ![w].pc = "anchors"]
       ELSE \E p \in HeldParents(Of(w)) :
                run' = [run EXCEPT ![w].event = p, ![w].promoted = TRUE, ![w].pc = "route"]
    /\ UNCHANGED <<tables, hist>>

Owners(map, keys) == {map[k] : k \in Range(keys)} \ {None}

(* The one owner, None of none and of several. *)
Sole(owners) == IF Cardinality(owners) = 1 THEN CHOOSE e \in owners : TRUE ELSE None

(* Mutant: the anchors are not asked. *)
AnchorsIgnored(w) ==
    /\ At(w, "anchors")
    /\ run' = [run EXCEPT ![w].pc = "prints"]
    /\ UNCHANGED <<tables, hist>>

(* find_events_by_identity: promoted if the anchors have one owner. *)
FindByIdentity(w) ==
    /\ At(w, "anchors")
    /\ LET owner == Sole(Owners(anchorMap, Of(w).anchors))
       IN  IF owner # None
           THEN run' = [run EXCEPT ![w].event = owner, ![w].promoted = TRUE, ![w].pc = "route"]
           ELSE run' = [run EXCEPT ![w].pc = "prints"]
    /\ UNCHANGED <<tables, hist>>

FindByFingerprint(w) ==
    /\ At(w, "prints")
    /\ run' = [run EXCEPT ![w].semantic = Sole(Owners(printMap, Of(w).prints)),
                          ![w].pc = "route"]
    /\ UNCHANGED <<tables, hist>>

-----------------------------------------------------------------------------
(* The decision (resolve_routing).                                          *)

Publishable(c) == c.sources \cap PublishableTypes # {} /\ (c.strong \/ Cardinality(c.sources) = 1)

Action(c, event) ==
    CASE event # None /\ c.strong -> "APPEND"
      [] event # None /\ ~c.strong -> "HOLD"
      [] event = None /\ Publishable(c) -> "CREATE"
      [] OTHER -> "WITHHELD"

(* The members held back; the one that stands for the event is not.         *)
HeldMembers(c, action) == (IF action = "HOLD" THEN c.keys ELSE c.weak) \ {c.primary}

(* Rows and keys another open transaction has written. *)
RowFree(w, e) == \A v \in Workers \ {w} : run[v].tx.appended # e
ClusterFree(w, k) == \A v \in Workers \ {w} : ~(run[v].tx.mapped /\ Of(v).id = k)
AnchorFree(w, a) == \A v \in Workers \ {w} : a \notin run[v].tx.anchors
PrintFree(w, f) == \A v \in Workers \ {w} : f \notin run[v].tx.prints

Unused == {e \in EventIds : title[e] = None /\ \A v \in Workers : \A t \in Titles : <<e, t>> \notin run[v].tx.new}
Drawn(e) == e \in Unused /\ \A x \in Unused : e <= x

(* The transaction is under way: the members to hold and the keys to claim. *)
Applying(w, action, event, tx) ==
    run' = [run EXCEPT ![w].pc = "apply",
                       ![w].action = action,
                       ![w].event = event,
                       ![w].hold = HeldMembers(Of(w), action),
                       ![w].claim = IF action = "HOLD" THEN <<>>
                                    ELSE [i \in 1..Len(Of(w).anchors) |-> <<"anchor", Of(w).anchors[i]>>]
                                         \o [i \in 1..Len(Of(w).prints) |-> <<"print", Of(w).prints[i]>>],
                       ![w].tx = tx]

Withhold(w) ==
    /\ At(w, "route") /\ Action(Of(w), run[w].event) = "WITHHELD"
    /\ run' = [run EXCEPT ![w] = Idle]
    /\ UNCHANGED <<tables, hist>>

Hold(w) ==
    /\ At(w, "route") /\ Action(Of(w), run[w].event) = "HOLD"
    /\ Applying(w, "HOLD", run[w].event, NoTx)
    /\ UNCHANGED <<tables, hist>>

(* append_update: a row of event_updates, and the row of the event locked. *)
AppendUpdate(w) ==
    /\ At(w, "route") /\ Action(Of(w), run[w].event) = "APPEND"
    /\ RowFree(w, run[w].event)
    /\ Applying(w, "APPEND", run[w].event, [NoTx EXCEPT !.appended = run[w].event])
    /\ UNCHANGED <<tables, hist>>

(* CREATE of a cluster that was mapped meanwhile: appended to its event. *)
CreateOfMapped(w) ==
    /\ At(w, "route") /\ Action(Of(w), run[w].event) = "CREATE"
    /\ LET e == clusterMap[Of(w).id]
       IN  /\ e # None /\ RowFree(w, e)
           /\ Applying(w, "CREATE", e, [NoTx EXCEPT !.appended = e])
    /\ UNCHANGED <<tables, hist>>

Create(w) ==
    /\ At(w, "route") /\ Action(Of(w), run[w].event) = "CREATE"
    /\ clusterMap[Of(w).id] = None
    /\ \E e \in EventIds :
          /\ Drawn(e)
          /\ run' = [run EXCEPT ![w].event = e, ![w].pc = "map",
                                ![w].tx = [NoTx EXCEPT !.new = {<<e, Of(w).title>>}]]
    /\ UNCHANGED <<tables, hist>>

(* map_cluster of the new event, and its first update. *)
MapCluster(w) ==
    /\ At(w, "map") /\ ClusterFree(w, Of(w).id)
    /\ clusterMap[Of(w).id] = None
    /\ Applying(w, "CREATE", run[w].event,
                [run[w].tx EXCEPT !.mapped = TRUE, !.appended = run[w].event])
    /\ UNCHANGED <<tables, hist>>

(* Mutant: the loser does not roll back. *)
LoserKeepsItsEvent(w) ==
    /\ At(w, "map") /\ ClusterFree(w, Of(w).id)
    /\ LET e == clusterMap[Of(w).id]
       IN  /\ e # None /\ RowFree(w, e)
           /\ Applying(w, "CREATE", e, [run[w].tx EXCEPT !.appended = e])
    /\ UNCHANGED <<tables, hist>>

(* The cluster was mapped by another transaction: all is rolled back and    *)
(* the candidate appended to the winner's event.                            *)
LoseCluster(w) ==
    /\ At(w, "map") /\ ClusterFree(w, Of(w).id)
    /\ LET e == clusterMap[Of(w).id]
       IN  /\ e # None /\ RowFree(w, e)
           /\ Applying(w, "CREATE", e, [NoTx EXCEPT !.appended = e])
    /\ UNCHANGED <<tables, hist>>

-----------------------------------------------------------------------------
(* The rest of the transaction. *)

HoldMember(w) ==
    /\ At(w, "apply")
    /\ \E k \in run[w].hold, e \in EventIds :
          /\ Drawn(e)
          /\ LET tx == run[w].tx
                 l == [from |-> e, to |-> run[w].event, why |-> "held"]
             IN  run' = [run EXCEPT ![w].hold = @ \ {k},
                                    ![w].tx = [tx EXCEPT !.new = tx.new \cup {<<e, k>>},
                                                         !.links = tx.links \cup {l}]]
    /\ UNCHANGED <<tables, hist>>

(* Mutant: the last to claim a key has it (ON CONFLICT DO UPDATE). *)
ClaimTaken(w) ==
    /\ At(w, "apply") /\ run[w].hold = {} /\ run[w].claim # <<>>
    /\ LET k == Head(run[w].claim)[2]
       IN  IF Head(run[w].claim)[1] = "anchor"
           THEN /\ AnchorFree(w, k)
                /\ run' = [run EXCEPT ![w].claim = Tail(@), ![w].tx.anchors = @ \cup {k}]
           ELSE /\ PrintFree(w, k)
                /\ run' = [run EXCEPT ![w].claim = Tail(@), ![w].tx.prints = @ \cup {k}]
    /\ UNCHANGED <<tables, hist>>

(* map_event_identities, map_event_candidate_fingerprints: a key that is    *)
(* taken stays with its first owner.                                        *)
Untaken(map, k) == IF map[k] = None THEN {k} ELSE {}

Claim(w) ==
    /\ At(w, "apply") /\ run[w].hold = {} /\ run[w].claim # <<>>
    /\ LET k == Head(run[w].claim)[2]
           tx == run[w].tx
       IN  IF Head(run[w].claim)[1] = "anchor"
           THEN /\ AnchorFree(w, k)
                /\ run' = [run EXCEPT ![w].claim = Tail(run[w].claim),
                              ![w].tx = [tx EXCEPT !.anchors = tx.anchors \cup Untaken(anchorMap, k)]]
           ELSE /\ PrintFree(w, k)
                /\ run' = [run EXCEPT ![w].claim = Tail(run[w].claim),
                              ![w].tx = [tx EXCEPT !.prints = tx.prints \cup Untaken(printMap, k)]]
    /\ UNCHANGED <<tables, hist>>

(* Mutant: what the transaction held is kept after its commit. *)
AfterWithLocks(w, pc) == [run[w] EXCEPT !.pc = pc]

(* What is left once the transaction is committed. *)
After(w, pc) == [run[w] EXCEPT !.pc = pc, !.tx = NoTx]

Owned(map, keys, e) == [k \in DOMAIN map |-> IF k \in keys THEN e ELSE map[k]]

NewTitle(tx, e) == {t \in Titles : <<e, t>> \in tx.new}

Commit(w) ==
    /\ At(w, "apply") /\ run[w].hold = {} /\ run[w].claim = <<>>
    /\ LET tx == run[w].tx
           e == run[w].event
       IN  /\ title' = [x \in EventIds |-> IF NewTitle(tx, x) = {} THEN title[x]
                                           ELSE CHOOSE t \in NewTitle(tx, x) : TRUE]
           /\ updates' = [x \in EventIds |->
                            IF x = tx.appended THEN updates[x] + 1 ELSE updates[x]]
           /\ clusterMap' = Owned(clusterMap, IF tx.mapped THEN {Of(w).id} ELSE {}, e)
           /\ anchorMap' = Owned(anchorMap, tx.anchors, e)
           /\ printMap' = Owned(printMap, tx.prints, e)
           /\ links' = links \cup tx.links
           /\ hist' = [hist EXCEPT !.split =
                 IF tx.mapped /\ Sole(Owners(anchorMap, Of(w).anchors)) # None
                 THEN @ \cup {e} ELSE @]
           /\ run' = [run EXCEPT ![w] =
                        CASE run[w].promoted /\ run[w].action = "APPEND" -> After(w, "remap")
                          [] run[w].semantic # None /\ run[w].action = "CREATE"
                             /\ e # run[w].semantic -> After(w, "link")
                          [] OTHER -> Idle]

(* Mutant: the mapping that is there is overwritten. *)
RemapAnyway(w) ==
    /\ At(w, "remap") /\ ClusterFree(w, Of(w).id)
    /\ clusterMap' = [clusterMap EXCEPT ![Of(w).id] = run[w].event]
    /\ run' = [run EXCEPT ![w] = Idle]
    /\ UNCHANGED <<title, updates, anchorMap, printMap, links, hist>>

(* A promoted cluster gets its own mapping, in a transaction of its own. *)
Remap(w) ==
    /\ At(w, "remap") /\ ClusterFree(w, Of(w).id)
    /\ clusterMap' = [clusterMap EXCEPT ![Of(w).id] = IF @ = None THEN run[w].event ELSE @]
    /\ run' = [run EXCEPT ![w] = Idle]
    /\ UNCHANGED <<title, updates, anchorMap, printMap, links, hist>>

(* The link goes by the action that was decided, CREATE, also when the      *)
(* candidate was appended to an event that was there.                       *)
LinkSemantic(w) ==
    /\ At(w, "link")
    /\ links' = links \cup {[from |-> run[w].event, to |-> run[w].semantic, why |-> "semantic"]}
    /\ run' = [run EXCEPT ![w] = Idle]
    /\ UNCHANGED <<title, updates, clusterMap, anchorMap, printMap, hist>>

-----------------------------------------------------------------------------
(* An error of the database, or the end of the process: what is not         *)
(* committed is rolled back, and the cluster is not taken up again.         *)
Fail(w) ==
    /\ ~At(w, "idle") /\ hist.faults < MaxFaults
    /\ run' = [run EXCEPT ![w] = Idle]
    /\ hist' = [hist EXCEPT !.faults = @ + 1]
    /\ UNCHANGED tables

(* w waits for a key that v has claimed and not committed. *)
WaitsFor(w, v) ==
    /\ w # v /\ At(w, "apply") /\ run[w].hold = {} /\ run[w].claim # <<>>
    /\ \/ Head(run[w].claim)[1] = "anchor" /\ Head(run[w].claim)[2] \in run[v].tx.anchors
       \/ Head(run[w].claim)[1] = "print" /\ Head(run[w].claim)[2] \in run[v].tx.prints

(* Mutant: nothing breaks a cycle of waits. *)
NoVictim(w) == FALSE /\ UNCHANGED vars

(* PostgreSQL breaks a cycle of waits; ingest_records_to_events counts the  *)
(* cluster as failed and goes on.                                           *)
DeadlockAbort(w) ==
    /\ \E v \in Workers : WaitsFor(w, v) /\ WaitsFor(v, w)
    /\ run' = [run EXCEPT ![w] = Idle]
    /\ UNCHANGED <<tables, hist>>

Lookup(w) == GetClusterEvent(w) \/ FindHeldParents(w) \/ FindByIdentity(w) \/ FindByFingerprint(w)
Route(w) == Withhold(w) \/ Hold(w) \/ AppendUpdate(w) \/ CreateOfMapped(w) \/ Create(w)
Apply(w) == MapCluster(w) \/ LoseCluster(w) \/ HoldMember(w) \/ Claim(w) \/ Commit(w)

Step(w) == Lookup(w) \/ Route(w) \/ Apply(w) \/ Remap(w) \/ LinkSemantic(w) \/ DeadlockAbort(w)

Next == \E w \in Workers : Step(w) \/ Fail(w) \/ \E c \in Clusters : Take(w, c)

Spec == Init /\ [][Next]_vars
FairSpec == Spec /\ \A w \in Workers : WF_vars(Step(w))

-----------------------------------------------------------------------------
(* Properties. *)

Link == [from : EventIds, to : EventIds, why : {"held", "semantic"}]
Tx == [new : SUBSET (EventIds \X Titles), appended : EventIds \cup {None}, mapped : BOOLEAN,
       anchors : SUBSET Anchors, prints : SUBSET Prints, links : SUBSET Link]
Job == [pc : {"idle", "cluster", "held", "anchors", "prints", "route", "map", "apply", "remap", "link"},
        c : Clusters \cup {None}, event : EventIds \cup {None}, promoted : BOOLEAN,
        semantic : EventIds \cup {None}, action : {"CREATE", "APPEND", "HOLD", None},
        hold : SUBSET Titles, claim : Seq(({"anchor"} \X Anchors) \cup ({"print"} \X Prints)),
        tx : Tx]

(* The type invariant.  A worker without a transaction holds no key, so     *)
(* that nobody waits for it.                                                *)
TypeOK ==
    /\ title \in [EventIds -> Titles \cup {None}]
    /\ updates \in [EventIds -> Nat]
    /\ clusterMap \in [ClusterIds -> EventIds \cup {None}]
    /\ anchorMap \in [Anchors -> EventIds \cup {None}]
    /\ printMap \in [Prints -> EventIds \cup {None}]
    /\ links \subseteq Link
    /\ run \in [Workers -> Job]
    /\ \A w \in Workers :
          /\ run[w].pc \notin {"map", "apply"} => run[w].tx = NoTx
          /\ run[w].pc # "idle" => Of(w) \in Clusters

(* No orphan, whatever is rolled back: an event that is committed either is *)
(* shown, mapped by a cluster, with at least the update that says what it   *)
(* is about; or it stands for a held member, has no update, owns no anchor  *)
(* or fingerprint and is linked to an event that is shown.  (apply_routing: *)
(* one commit, and a rollback of all for the loser of a race.)              *)
NoOrphan ==
    /\ \A e \in EventIds : title[e] # None =>
          \/ e \in Mapped /\ updates[e] > 0
          \/ /\ e \notin Mapped /\ updates[e] = 0
             /\ \E l \in links : l.from = e /\ l.to \in Mapped /\ l.why = "held"
    /\ Range(clusterMap) \cup Range(anchorMap) \cup Range(printMap)
          \subseteq Mapped \cup {None}
    /\ \A e \in Mapped : title[e] # None

(* An event is split off another that owned an anchor of its cluster, and   *)
(* alone, only if two workers were at it at once: one after the other,      *)
(* clusters that share an anchor end in one event                           *)
(* (find_events_by_identity, ADR#40).                                       *)
SplitNeedsOverlap == hist.split # {} => hist.overlap

(* The first owner of a cluster, an anchor or a fingerprint stays it, the   *)
(* title an event was given is never rewritten, and updates are only added. *)
Keeps(map, next) == \A k \in DOMAIN map : map[k] # None => next[k] = map[k]
FirstOwnerStays ==
    [][/\ Keeps(clusterMap, clusterMap') /\ Keeps(anchorMap, anchorMap')
       /\ Keeps(printMap, printMap') /\ Keeps(title, title')
       /\ links \subseteq links' /\ \A e \in EventIds : updates'[e] >= updates[e]]_vars

(* The timeline its readers see. *)
Told == [e \in EventIds |-> IF e \in Mapped THEN updates[e] ELSE 0]
PT == INSTANCE PublicTimeline WITH belongs <- clusterMap, told <- Told, NoEvent <- None

(* Each step of the pipeline is one of the timeline its readers see, or is  *)
(* not seen by them.                                                        *)
ImplementsTimeline == PT!TimelineSpec

(* A cluster that was taken up ends, whichever keys two workers claim in    *)
(* which order.                                                             *)
EveryClusterEnds == \A w \in Workers : ~At(w, "idle") ~> At(w, "idle")
=============================================================================
