------------------------ MODULE EventTimelineProofs ------------------------
(***************************************************************************)
(* What holds of EventTimeline for every set of clusters, whichever        *)
(* anchors, fingerprints and held members they share, every number of      *)
(* workers at once, and every number of rounds and of faults.              *)
(***************************************************************************)
EXTENDS EventTimeline, SequenceTheorems, FiniteSetTheorems, WellFoundedInduction, TLAPS

-----------------------------------------------------------------------------
(* Types. *)

NextKeys == ({"anchor"} \X Anchors) \cup ({"print"} \X Prints)

LEMMA ClusterParts ==
    ASSUME NEW c \in Clusters
    PROVE  /\ c.id \in ClusterIds /\ c.title \in Titles /\ c.keys \subseteq Titles
           /\ c.weak \subseteq c.keys
           /\ c.anchors \in Seq(Anchors) /\ c.prints \in Seq(Prints)
  BY TimelineAssumption DEF ClusterIds, Titles

LEMMA NoTxTyped == NoTx \in Tx /\ Idle \in Job
<1>1. NoTx \in Tx
  BY DEF NoTx, Tx
<1>2. <<>> \in Seq(NextKeys)
  OBVIOUS
<1> QED
  BY <1>1, <1>2 DEF Idle, Job, NextKeys

(* A transaction that has written one thing. *)
Empty(tx) == ~tx.mapped /\ tx.anchors = {} /\ tx.prints = {} /\ tx.links = {}

LEMMA NoTxFields ==
    NoTx \in Tx /\ Empty(NoTx) /\ NoTx.new = {} /\ NoTx.appended = None
  BY NoTxTyped DEF NoTx, Empty

LEMMA FirstWrite ==
    ASSUME NEW e \in EventIds, NEW t \in Titles
    PROVE  /\ [NoTx EXCEPT !.appended = e] \in Tx /\ Empty([NoTx EXCEPT !.appended = e])
           /\ [NoTx EXCEPT !.appended = e].new = {} /\ [NoTx EXCEPT !.appended = e].appended = e
           /\ [NoTx EXCEPT !.new = {<<e, t>>}] \in Tx /\ Empty([NoTx EXCEPT !.new = {<<e, t>>}])
           /\ [NoTx EXCEPT !.new = {<<e, t>>}].new = {<<e, t>>}
           /\ [NoTx EXCEPT !.new = {<<e, t>>}].appended = None
<1>1. {<<e, t>>} \in SUBSET (EventIds \X Titles)
  OBVIOUS
<1>2. [NoTx EXCEPT !.appended = e] \in Tx /\ [NoTx EXCEPT !.new = {<<e, t>>}] \in Tx
  BY <1>1, NoTxFields DEF Tx
<1> DEFINE n == {<<e, t>>}
<1> HIDE DEF n
<1>3. /\ Empty([NoTx EXCEPT !.appended = e])
      /\ [NoTx EXCEPT !.appended = e].new = {} /\ [NoTx EXCEPT !.appended = e].appended = e
  BY NoTxFields DEF Tx, Empty
<1>4. /\ Empty([NoTx EXCEPT !.new = n])
      /\ [NoTx EXCEPT !.new = n].new = n /\ [NoTx EXCEPT !.new = n].appended = None
  BY NoTxFields DEF Tx, Empty
<1> QED
  BY <1>2, <1>3, <1>4 DEF n

(* The keys a transaction will claim, in order. *)
LEMMA ClaimsTyped ==
    ASSUME NEW c \in Clusters
    PROVE  [i \in 1..Len(c.anchors) |-> <<"anchor", c.anchors[i]>>]
             \o [i \in 1..Len(c.prints) |-> <<"print", c.prints[i]>>] \in Seq(NextKeys)
<1>1. c.anchors \in Seq(Anchors) /\ c.prints \in Seq(Prints)
  BY ClusterParts
<1>2. [i \in 1..Len(c.anchors) |-> <<"anchor", c.anchors[i]>>] \in Seq(NextKeys)
  <2>1. Len(c.anchors) \in Nat /\ \A i \in 1..Len(c.anchors) : c.anchors[i] \in Anchors
    BY <1>1
  <2>2. \A i \in 1..Len(c.anchors) : <<"anchor", c.anchors[i]>> \in NextKeys
    BY <2>1 DEF NextKeys
  <2> QED
    BY <2>1, <2>2
<1>3. [i \in 1..Len(c.prints) |-> <<"print", c.prints[i]>>] \in Seq(NextKeys)
  <2>1. Len(c.prints) \in Nat /\ \A i \in 1..Len(c.prints) : c.prints[i] \in Prints
    BY <1>1
  <2>2. \A i \in 1..Len(c.prints) : <<"print", c.prints[i]>> \in NextKeys
    BY <2>1 DEF NextKeys
  <2> QED
    BY <2>1, <2>2
<1> QED
  BY <1>2, <1>3, ConcatProperties

(* A transaction that begins leaves a job of the type, its tables alone. *)
LEMMA ApplyingTyped ==
    ASSUME TypeOK, NEW w \in Workers, Of(w) \in Clusters,
           NEW action \in {"CREATE", "APPEND", "HOLD"}, NEW event \in EventIds, NEW tx \in Tx,
           Applying(w, action, event, tx)
    PROVE  /\ run' \in [Workers -> Job]
           /\ run'[w] = [run[w] EXCEPT !.pc = "apply", !.action = action, !.event = event,
                              !.hold = run'[w].hold, !.claim = run'[w].claim, !.tx = tx]
           /\ \A v \in Workers \ {w} : run'[v] = run[v]
<1> DEFINE c == Of(w)
           claim == IF action = "HOLD" THEN <<>>
                    ELSE [i \in 1..Len(c.anchors) |-> <<"anchor", c.anchors[i]>>]
                           \o [i \in 1..Len(c.prints) |-> <<"print", c.prints[i]>>]
           held == HeldMembers(c, action)
<1>1. held \in SUBSET Titles
  BY ClusterParts DEF HeldMembers
<1>2. claim \in Seq(NextKeys)
  BY ClaimsTyped
<1>3. run[w] \in Job
  BY DEF TypeOK
<1>4. run' = [run EXCEPT ![w] = [run[w] EXCEPT !.pc = "apply", !.action = action, !.event = event,
                                     !.hold = held, !.claim = claim, !.tx = tx]]
  BY DEF Applying
<1> HIDE DEF held, claim
<1>5. [run[w] EXCEPT !.pc = "apply", !.action = action, !.event = event,
                     !.hold = held, !.claim = claim, !.tx = tx] \in Job
  BY <1>1, <1>2, <1>3 DEF Job, NextKeys
<1>6. run \in [Workers -> Job]
  BY DEF TypeOK
<1>7. run'[w] = [run[w] EXCEPT !.pc = "apply", !.action = action, !.event = event,
                     !.hold = held, !.claim = claim, !.tx = tx]
  BY <1>4, <1>6
<1>8. run'[w].hold = held /\ run'[w].claim = claim
  BY <1>7, <1>3 DEF Job
<1> QED
  BY <1>4, <1>5, <1>6, <1>7, <1>8

(* The job of one worker changes, and keeps its type. *)
LEMMA JobChange ==
    ASSUME run \in [Workers -> Job], NEW w \in Workers, NEW j \in Job,
           run' = [run EXCEPT ![w] = j]
    PROVE  run' \in [Workers -> Job] /\ run'[w] = j /\ \A v \in Workers \ {w} : run'[v] = run[v]
  OBVIOUS

-----------------------------------------------------------------------------
(* The inductive invariant. *)

(* What TypeOK says of each worker besides its type. *)
Tidy(j) == /\ j.pc \notin {"map", "apply"} => j.tx = NoTx
           /\ j.pc # "idle" => j.c \in Clusters

NewOf(j) == {e \in EventIds : \E t \in Titles : <<e, t>> \in j.tx.new}

(* The held members of a transaction are linked to the event it is about. *)
Linked(j) ==
    \A e \in NewOf(j) :
        \/ j.tx.mapped /\ e = j.event
        \/ \E l \in j.tx.links : l.from = e /\ l.to = j.event /\ l.why = "held"

(* A worker aims at an event that is shown, or at one of its own that will  *)
(* be once the cluster it holds is mapped.                                  *)
Aims(j) ==
    /\ j.pc \in {"cluster", "held", "anchors", "prints"} => j.event = None
    /\ j.pc = "route" /\ j.event # None => j.event \in Mapped
    /\ j.pc \in {"remap", "link"} => j.event \in Mapped
    /\ j.pc = "link" => j.semantic \in EventIds
    /\ j.pc = "map" => /\ j.event \in EventIds
                       /\ j.tx = [NoTx EXCEPT !.new = {<<j.event, j.c.title>>}]
    /\ j.pc = "apply" =>
          /\ j.event \in EventIds
          /\ IF j.tx.mapped
             THEN j.event \in NewOf(j) /\ j.tx.appended = j.event /\ clusterMap[j.c.id] = None
             ELSE j.event \in Mapped /\ j.tx.appended \in {None, j.event}
          /\ Linked(j)

(* What it has written, no one else has. *)
Unseen(j) ==
    /\ \A e \in NewOf(j) : title[e] = None
    /\ \A a \in j.tx.anchors : anchorMap[a] = None
    /\ \A f \in j.tx.prints : printMap[f] = None

Apart(i, j) ==
    /\ NewOf(i) \cap NewOf(j) = {}
    /\ ~(i.tx.mapped /\ j.tx.mapped /\ i.c.id = j.c.id)
    /\ i.tx.anchors \cap j.tx.anchors = {}
    /\ i.tx.prints \cap j.tx.prints = {}

TInv ==
    /\ TypeOK
    /\ NoOrphan
    /\ \A e \in EventIds : title[e] = None => updates[e] = 0
    /\ \A w \in Workers : Aims(run[w]) /\ Unseen(run[w])
    /\ \A w, v \in Workers : w # v => Apart(run[w], run[v])

(* A step that writes no table is one of these. *)
Quiet(w) ==
    \E j \in Job :
        /\ run' = [run EXCEPT ![w] = j] /\ UNCHANGED tables
        /\ Tidy(j) /\ Aims(j) /\ Unseen(j)
        /\ \A v \in Workers \ {w} : Apart(j, run[v])

LEMMA ApartSym == ASSUME NEW i, NEW j, Apart(i, j) PROVE Apart(j, i)
  BY DEF Apart

LEMMA QuietKeeps ==
    ASSUME TInv, NEW w \in Workers, Quiet(w)
    PROVE  TInv'
<1>1. PICK j \in Job : /\ run' = [run EXCEPT ![w] = j] /\ UNCHANGED tables
                       /\ Tidy(j) /\ Aims(j) /\ Unseen(j)
                       /\ \A v \in Workers \ {w} : Apart(j, run[v])
  BY DEF Quiet
<1>2. /\ run' \in [Workers -> Job] /\ run'[w] = j
      /\ \A v \in Workers \ {w} : run'[v] = run[v]
  BY <1>1, JobChange DEF TInv, TypeOK
<1>3. \A v \in Workers : Tidy(run'[v])
  BY <1>1, <1>2 DEF TInv, TypeOK, Tidy, Of
<1>4. TypeOK'
  BY <1>1, <1>2, <1>3 DEF TInv, TypeOK, Tidy, Of, tables
<1>5. NoOrphan' /\ \A e \in EventIds : title'[e] = None => updates'[e] = 0
  BY <1>1 DEF TInv, NoOrphan, Mapped, tables, Range
<1>6. \A v \in Workers : Aims(run'[v]) /\ Unseen(run'[v])
  BY <1>1, <1>2 DEF TInv
<1>7. \A i \in Job : (Aims(i) => Aims(i)') /\ (Unseen(i) => Unseen(i)')
  BY <1>1 DEF Aims, Unseen, Mapped, tables, Linked, NewOf
<1>8. \A v \in Workers : Aims(run[v])' /\ Unseen(run[v])'
  BY <1>2, <1>6, <1>7
<1>9. \A u, v \in Workers : u # v => Apart(run[u], run[v])'
  <2> SUFFICES ASSUME NEW u \in Workers, NEW v \in Workers, u # v
               PROVE  Apart(run'[u], run'[v])
    BY DEF Apart, NewOf
  <2>1. CASE u = w
    BY <1>1, <1>2, <2>1
  <2>2. CASE v = w
    BY <1>1, <1>2, <2>2, ApartSym
  <2>3. CASE u # w /\ v # w
    BY <1>2, <2>3 DEF TInv
  <2> QED
    BY <2>1, <2>2, <2>3
<1> QED
  BY <1>4, <1>5, <1>8, <1>9 DEF TInv

(* A step that leaves no transaction behind. *)
LEMMA QuietWithout ==
    ASSUME TInv, NEW w \in Workers, NEW j \in Job, j.tx = NoTx, UNCHANGED tables,
           run' = [run EXCEPT ![w] = j], Tidy(j), Aims(j)
    PROVE  Quiet(w)
<1>1. NewOf(j) = {} /\ j.tx.anchors = {} /\ j.tx.prints = {} /\ ~j.tx.mapped
  BY DEF NewOf, NoTx
<1>2. Unseen(j) /\ \A v \in Workers \ {w} : Apart(j, run[v])
  BY <1>1 DEF Unseen, Apart
<1> QED
  BY <1>2 DEF Quiet

LEMMA IdleIsQuiet == Tidy(Idle) /\ Aims(Idle) /\ Idle.tx = NoTx
  BY DEF Tidy, Aims, Idle

LEMMA SoleIsOne == ASSUME NEW S PROVE Sole(S) = None \/ Sole(S) \in S
<1>1. Cardinality(S) = 1 => S # {}
  BY FS_EmptySet
<1>2. S # {} => (CHOOSE e \in S : TRUE) \in S
  OBVIOUS
<1> QED
  BY <1>1, <1>2, Zenon DEF Sole

LEMMA LookupQuiet ==
    ASSUME TInv, NEW w \in Workers, Lookup(w)
    PROVE  Quiet(w)
<1>1. run[w] \in Job /\ Tidy(run[w]) /\ Aims(run[w]) /\ TypeOK
  BY DEF TInv, TypeOK, Tidy, Of
<1>0. \A e : e \in Range(anchorMap) /\ e # None => e \in Mapped
  BY DEF TInv, NoOrphan
<1>2. CASE GetClusterEvent(w)
  <2> DEFINE e == clusterMap[Of(w).id]
             j == [run[w] EXCEPT !.event = e, !.pc = IF e = None THEN "held" ELSE "route"]
  <2>1. run' = [run EXCEPT ![w] = j] /\ UNCHANGED tables /\ run[w].pc = "cluster"
    BY <1>2 DEF GetClusterEvent, At
  <2>2. Of(w).id \in ClusterIds
    BY <1>1, <2>1, ClusterParts DEF Tidy, Of
  <2>3. e \in EventIds \cup {None}
    BY <1>1, <2>2 DEF TypeOK
  <2>6. e # None => e \in Mapped
    BY <2>2 DEF Mapped
  <2> HIDE DEF e
  <2>7. j.pc \in {"held", "route"} /\ j.event = e /\ (j.pc = "held" => e = None)
    BY <1>1 DEF Job
  <2>8. j \in Job /\ Tidy(j)
    BY <1>1, <2>1, <2>3 DEF Job, Tidy
  <2>9. Aims(j)
    BY <2>6, <2>7 DEF Aims
  <2>4. j \in Job /\ Tidy(j) /\ Aims(j)
    BY <2>8, <2>9
  <2>5. j.tx = NoTx
    BY <1>1, <2>1 DEF Tidy, Job
  <2> QED
    BY <2>1, <2>4, <2>5, QuietWithout
<1>3. CASE FindHeldParents(w)
  <2>1. CASE HeldParents(Of(w)) = {}
    <3> DEFINE j == [run[w] EXCEPT !.pc = "anchors"]
    <3>1. run' = [run EXCEPT ![w] = j] /\ UNCHANGED tables /\ run[w].pc = "held"
      BY <1>3, <2>1 DEF FindHeldParents, At
    <3>2. j \in Job /\ Tidy(j) /\ j.tx = NoTx /\ Aims(j)
      BY <1>1, <3>1 DEF Job, Tidy, Aims
    <3> QED
      BY <3>1, <3>2, QuietWithout
  <2>2. CASE HeldParents(Of(w)) # {}
    <3>1. PICK p \in HeldParents(Of(w)) :
              run' = [run EXCEPT ![w] = [run[w] EXCEPT !.event = p, !.promoted = TRUE, !.pc = "route"]]
      BY <1>3, <2>2 DEF FindHeldParents
    <3>2. p \in EventIds /\ p \in Mapped
      BY <1>1 DEF HeldParents, Mapped, TypeOK
    <3> DEFINE j == [run[w] EXCEPT !.event = p, !.promoted = TRUE, !.pc = "route"]
    <3>3. UNCHANGED tables /\ run[w].pc = "held"
      BY <1>3 DEF FindHeldParents, At
    <3>4. j \in Job /\ Tidy(j) /\ j.tx = NoTx /\ Aims(j)
      BY <1>1, <3>2, <3>3 DEF Job, Tidy, Aims
    <3> QED
      BY <3>1, <3>3, <3>4, QuietWithout
  <2> QED
    BY <2>1, <2>2
<1>4. CASE FindByIdentity(w)
  <2> DEFINE owners == Owners(anchorMap, Of(w).anchors)
             e == Sole(owners)
  <2>1. UNCHANGED tables /\ run[w].pc = "anchors" /\ Of(w) \in Clusters
    BY <1>1, <1>4 DEF FindByIdentity, At, Tidy, Of
  <2>2. CASE e # None
    <3> DEFINE j == [run[w] EXCEPT !.event = e, !.promoted = TRUE, !.pc = "route"]
    <3>1. run' = [run EXCEPT ![w] = j]
      BY <1>4, <2>2 DEF FindByIdentity
    <3>2. owners \subseteq EventIds /\ owners \subseteq Mapped
      BY <1>0, <1>1, <2>1, ClusterParts DEF Owners, TypeOK, Range
    <3>3. e \in EventIds /\ e \in Mapped
      BY <2>2, <3>2, SoleIsOne
    <3> HIDE DEF e
    <3>4. j \in Job /\ Tidy(j) /\ j.tx = NoTx /\ Aims(j)
      BY <1>1, <2>1, <3>3 DEF Job, Tidy, Aims
    <3> QED
      BY <2>1, <3>1, <3>4, QuietWithout
  <2>3. CASE e = None
    <3> DEFINE j == [run[w] EXCEPT !.pc = "prints"]
    <3>1. run' = [run EXCEPT ![w] = j]
      BY <1>4, <2>3 DEF FindByIdentity
    <3>2. j \in Job /\ Tidy(j) /\ j.tx = NoTx /\ Aims(j)
      BY <1>1, <2>1 DEF Job, Tidy, Aims
    <3> QED
      BY <2>1, <3>1, <3>2, QuietWithout
  <2> QED
    BY <2>2, <2>3
<1>5. CASE FindByFingerprint(w)
  <2> DEFINE owners == Owners(printMap, Of(w).prints)
             e == Sole(owners)
             j == [run[w] EXCEPT !.semantic = e, !.pc = "route"]
  <2>1. UNCHANGED tables /\ run[w].pc = "prints" /\ Of(w) \in Clusters
        /\ run' = [run EXCEPT ![w] = j]
    BY <1>1, <1>5 DEF FindByFingerprint, At, Tidy, Of
  <2>2. owners \subseteq EventIds
    BY <1>1, <2>1, ClusterParts DEF Owners, TypeOK, Range
  <2>3. e \in EventIds \cup {None}
    BY <2>2, SoleIsOne
  <2> HIDE DEF e
  <2>4. j \in Job /\ Tidy(j) /\ j.tx = NoTx /\ Aims(j)
    BY <1>1, <2>1, <2>3 DEF Job, Tidy, Aims
  <2> QED
    BY <2>1, <2>4, QuietWithout
<1> QED
  BY <1>2, <1>3, <1>4, <1>5 DEF Lookup

(* The event of a new id: nobody has it, and no table. *)
LEMMA DrawnIsNew ==
    ASSUME TInv, NEW e \in EventIds, Drawn(e)
    PROVE  title[e] = None /\ \A v \in Workers : e \notin NewOf(run[v])
  BY DEF Drawn, Unused, NewOf

LEMMA RouteQuiet ==
    ASSUME TInv, NEW w \in Workers, Route(w)
    PROVE  Quiet(w)
<1>1. run[w] \in Job /\ Tidy(run[w]) /\ Aims(run[w]) /\ TypeOK /\ run \in [Workers -> Job]
  BY DEF TInv, TypeOK, Tidy, Of
<1>2. run[w].pc = "route" /\ UNCHANGED tables /\ Of(w) \in Clusters
  BY <1>1 DEF Route, Withhold, Hold, AppendUpdate, CreateOfMapped, Create, At, Tidy, Of
(* A transaction that has only locked the row of a shown event. *)
<1>3. ASSUME NEW action \in {"CREATE", "APPEND", "HOLD"}, NEW event \in EventIds, event \in Mapped,
             NEW tx, tx = NoTx \/ tx = [NoTx EXCEPT !.appended = event],
             Applying(w, action, event, tx)
      PROVE  Quiet(w)
  <2>1. tx \in Tx /\ tx.new = {} /\ ~tx.mapped /\ tx.anchors = {} /\ tx.prints = {}
        /\ tx.appended \in {None, event}
    <3>1. CASE tx = NoTx
      BY <3>1, NoTxFields DEF Empty
    <3>2. CASE tx = [NoTx EXCEPT !.appended = event]
      <4>1. PICK t \in Titles : TRUE
        BY <1>2, ClusterParts
      <4> QED
        BY <3>2, <4>1, FirstWrite DEF Empty
    <3> QED
      BY <1>3, <3>1, <3>2
  <2> DEFINE j == run'[w]
  <2>2. /\ run' \in [Workers -> Job]
        /\ j = [run[w] EXCEPT !.pc = "apply", !.action = action, !.event = event,
                              !.hold = j.hold, !.claim = j.claim, !.tx = tx]
        /\ \A v \in Workers \ {w} : run'[v] = run[v]
    BY <1>1, <1>2, <1>3, <2>1, ApplyingTyped
  <2>3. j \in Job /\ run' = [run EXCEPT ![w] = j]
    BY <1>1, <2>2
  <2>4. j.pc = "apply" /\ j.event = event /\ j.tx = tx /\ j.c = run[w].c
    BY <1>1, <2>2 DEF Job
  <2> HIDE DEF j
  <2>5. NewOf(j) = {}
    BY <2>1, <2>4 DEF NewOf
  <2>6. Tidy(j) /\ Aims(j) /\ Unseen(j)
    BY <1>2, <1>3, <2>1, <2>4, <2>5 DEF Tidy, Aims, Unseen, Linked, Of
  <2>7. \A v \in Workers \ {w} : Apart(j, run[v])
    BY <2>1, <2>4, <2>5 DEF Apart
  <2> QED
    BY <1>2, <2>3, <2>6, <2>7 DEF Quiet
<1>4. CASE Withhold(w)
  BY <1>2, <1>4, NoTxTyped, IdleIsQuiet, QuietWithout DEF Withhold
<1>5. CASE Hold(w)
  <2>1. run[w].event # None /\ Applying(w, "HOLD", run[w].event, NoTx)
    BY <1>5 DEF Hold, Action
  <2>2. run[w].event \in EventIds /\ run[w].event \in Mapped
    BY <1>1, <1>2, <2>1 DEF Aims, Job
  <2> QED
    BY <1>3, <2>1, <2>2
<1>6. CASE AppendUpdate(w)
  <2>1. /\ run[w].event # None
        /\ Applying(w, "APPEND", run[w].event, [NoTx EXCEPT !.appended = run[w].event])
    BY <1>6 DEF AppendUpdate, Action
  <2>2. run[w].event \in EventIds /\ run[w].event \in Mapped
    BY <1>1, <1>2, <2>1 DEF Aims, Job
  <2> QED
    BY <1>3, <2>1, <2>2
<1>7. CASE CreateOfMapped(w)
  <2> DEFINE e == clusterMap[Of(w).id]
  <2>1. e # None /\ Applying(w, "CREATE", e, [NoTx EXCEPT !.appended = e])
    BY <1>7 DEF CreateOfMapped
  <2>2. e \in EventIds /\ e \in Mapped
    BY <1>1, <1>2, <2>1, ClusterParts DEF Mapped, TypeOK
  <2> HIDE DEF e
  <2> QED
    BY <1>3, <2>1, <2>2
<1>8. CASE Create(w)
  <2>1. PICK e \in EventIds :
            /\ Drawn(e)
            /\ run' = [run EXCEPT ![w] = [run[w] EXCEPT !.event = e, !.pc = "map",
                                   !.tx = [NoTx EXCEPT !.new = {<<e, Of(w).title>>}]]]
    BY <1>8 DEF Create
  <2> DEFINE tx == [NoTx EXCEPT !.new = {<<e, Of(w).title>>}]
             j == [run[w] EXCEPT !.event = e, !.pc = "map", !.tx = tx]
  <2>2. Of(w).title \in Titles
    BY <1>2, ClusterParts
  <2>3. tx \in Tx /\ tx.new = {<<e, Of(w).title>>} /\ ~tx.mapped /\ tx.anchors = {} /\ tx.prints = {}
    BY <2>2, FirstWrite DEF Empty
  <2> HIDE DEF tx
  <2>4. j \in Job /\ j.pc = "map" /\ j.event = e /\ j.tx = tx /\ j.c = run[w].c
    BY <1>1, <2>3 DEF Job
  <2> HIDE DEF j
  <2>5. \A x \in NewOf(j) : x = e
    <3>1. j.tx.new = {<<e, Of(w).title>>}
      BY <2>3, <2>4
    <3> QED
      BY <3>1 DEF NewOf
  <2>6. Tidy(j) /\ Aims(j)
    BY <1>2, <2>4 DEF Tidy, Aims, Of, tx
  <2>7. Unseen(j) /\ \A v \in Workers \ {w} : Apart(j, run[v])
    BY <2>1, <2>3, <2>4, <2>5, DrawnIsNew DEF Unseen, Apart
  <2>8. run' = [run EXCEPT ![w] = j]
    BY <2>1 DEF j, tx
  <2> QED
    BY <1>2, <2>4, <2>6, <2>7, <2>8 DEF Quiet
<1> QED
  BY <1>4, <1>5, <1>6, <1>7, <1>8 DEF Route

(* The insert into cluster_event_map waited for whoever held the key. *)
LEMMA MapQuiet ==
    ASSUME TInv, NEW w \in Workers, MapCluster(w)
    PROVE  Quiet(w)
<1>1. run[w] \in Job /\ Tidy(run[w]) /\ Aims(run[w]) /\ Unseen(run[w]) /\ TypeOK
      /\ run \in [Workers -> Job]
  BY DEF TInv, TypeOK, Tidy, Of
<1>2. /\ run[w].pc = "map" /\ UNCHANGED tables /\ Of(w) \in Clusters
      /\ ClusterFree(w, Of(w).id) /\ clusterMap[Of(w).id] = None
  BY <1>1 DEF MapCluster, At, Tidy, Of
<1> DEFINE e == run[w].event
           old == run[w].tx
           tx == [old EXCEPT !.mapped = TRUE, !.appended = e]
           j == run'[w]
<1>3. e \in EventIds /\ Of(w).title \in Titles /\ old = [NoTx EXCEPT !.new = {<<e, Of(w).title>>}]
  <2>1. Of(w).title \in Titles
    BY <1>2, ClusterParts
  <2>2. e \in EventIds /\ old = [NoTx EXCEPT !.new = {<<e, Of(w).title>>}]
    BY <1>1, <1>2, Zenon DEF Aims, Of
  <2> QED
    BY <2>1, <2>2, Zenon
<1>4. old \in Tx /\ Empty(old) /\ old.new = {<<e, Of(w).title>>}
  <2> DEFINE t == Of(w).title
             n == [NoTx EXCEPT !.new = {<<e, t>>}]
  <2>1. old = n
    BY <1>3
  <2>2. e \in EventIds /\ t \in Titles
    BY <1>3
  <2> HIDE DEF e, t, old
  <2>3. n \in Tx /\ Empty(n) /\ n.new = {<<e, t>>}
    BY <2>2, FirstWrite
  <2> HIDE DEF n
  <2> QED
    BY <2>1, <2>3 DEF t
<1> HIDE DEF old
<1>5. /\ tx \in Tx /\ tx.mapped /\ tx.appended = e /\ tx.new = {<<e, Of(w).title>>}
      /\ tx.anchors = {} /\ tx.prints = {}
  BY <1>3, <1>4 DEF Tx, Empty
<1>6. Applying(w, "CREATE", e, tx)
  BY DEF MapCluster, old
<1> HIDE DEF tx
<1>7. /\ run' \in [Workers -> Job]
      /\ j = [run[w] EXCEPT !.pc = "apply", !.action = "CREATE", !.event = e,
                            !.hold = j.hold, !.claim = j.claim, !.tx = tx]
      /\ \A v \in Workers \ {w} : run'[v] = run[v]
  BY <1>1, <1>2, <1>3, <1>5, <1>6, ApplyingTyped
<1>8. j \in Job /\ run' = [run EXCEPT ![w] = j]
  BY <1>1, <1>7
<1>9. j.pc = "apply" /\ j.event = e /\ j.tx = tx /\ j.c = run[w].c
  BY <1>1, <1>7 DEF Job
<1> HIDE DEF j
<1>10. \A x : x \in NewOf(j) <=> x = e
  <2>1. j.tx.new = {<<e, Of(w).title>>}
    BY <1>5, <1>9
  <2> QED
    BY <1>3, <2>1 DEF NewOf
<1>11. e \in NewOf(run[w])
  BY <1>3, <1>4 DEF NewOf, old
<1>12. Tidy(j) /\ Aims(j)
  BY <1>2, <1>3, <1>5, <1>9, <1>10 DEF Tidy, Aims, Linked, Of
<1>13. Unseen(j)
  BY <1>1, <1>5, <1>9, <1>10, <1>11 DEF Unseen
<1>14. \A v \in Workers \ {w} : Apart(j, run[v])
  <2> SUFFICES ASSUME NEW v \in Workers \ {w} PROVE Apart(j, run[v])
    OBVIOUS
  <2>1. Apart(run[w], run[v])
    BY DEF TInv
  <2>2. ~(run[v].tx.mapped /\ run[v].c.id = run[w].c.id)
    BY <1>2 DEF ClusterFree, Of
  <2> QED
    BY <1>5, <1>9, <1>10, <1>11, <2>1, <2>2 DEF Apart
<1> QED
  BY <1>2, <1>8, <1>12, <1>13, <1>14 DEF Quiet

LEMMA LoseQuiet ==
    ASSUME TInv, NEW w \in Workers, LoseCluster(w)
    PROVE  Quiet(w)
<1>1. run[w] \in Job /\ Tidy(run[w]) /\ TypeOK /\ run \in [Workers -> Job]
  BY DEF TInv, TypeOK, Tidy, Of
<1> DEFINE e == clusterMap[Of(w).id]
           tx == [NoTx EXCEPT !.appended = e]
           j == run'[w]
<1>2. /\ run[w].pc = "map" /\ UNCHANGED tables /\ Of(w) \in Clusters
      /\ e # None /\ Applying(w, "CREATE", e, tx)
  BY <1>1 DEF LoseCluster, At, Tidy, Of
<1>3. e \in EventIds /\ e \in Mapped /\ Of(w).title \in Titles
  BY <1>1, <1>2, ClusterParts DEF Mapped, TypeOK
<1> HIDE DEF e
<1>4. tx \in Tx /\ Empty(tx) /\ tx.new = {} /\ tx.appended = e
  BY <1>3, FirstWrite
<1> HIDE DEF tx
<1>5. /\ run' \in [Workers -> Job]
      /\ j = [run[w] EXCEPT !.pc = "apply", !.action = "CREATE", !.event = e,
                            !.hold = j.hold, !.claim = j.claim, !.tx = tx]
      /\ \A v \in Workers \ {w} : run'[v] = run[v]
  <2>1. TypeOK /\ Of(w) \in Clusters /\ Applying(w, "CREATE", e, tx)
    BY <1>1, <1>2
  <2>2. e \in EventIds /\ tx \in Tx
    BY <1>3, <1>4
  <2> HIDE DEF j
  <2>3. "CREATE" \in {"CREATE", "APPEND", "HOLD"}
    OBVIOUS
  <2> QED
    BY <2>1, <2>2, <2>3, ApplyingTyped, Zenon DEF j
<1>6. j \in Job /\ run' = [run EXCEPT ![w] = j]
  BY <1>1, <1>5
<1>7. j.pc = "apply" /\ j.event = e /\ j.tx = tx /\ j.c = run[w].c
  BY <1>1, <1>5 DEF Job
<1> HIDE DEF j
<1>8. NewOf(j) = {}
  BY <1>4, <1>7 DEF NewOf
<1>9. Tidy(j) /\ Aims(j) /\ Unseen(j)
  BY <1>2, <1>3, <1>4, <1>7, <1>8 DEF Tidy, Aims, Unseen, Linked, Of, Empty
<1>10. \A v \in Workers \ {w} : Apart(j, run[v])
  BY <1>4, <1>7, <1>8 DEF Apart, Empty
<1> QED
  BY <1>2, <1>6, <1>9, <1>10 DEF Quiet

LEMMA HoldMemberQuiet ==
    ASSUME TInv, NEW w \in Workers, HoldMember(w)
    PROVE  Quiet(w)
<1>1. run[w] \in Job /\ Tidy(run[w]) /\ Aims(run[w]) /\ Unseen(run[w]) /\ TypeOK
  BY DEF TInv, TypeOK, Tidy, Of
<1>2. UNCHANGED tables /\ run[w].pc = "apply"
  BY DEF HoldMember, At
<1> DEFINE old == run[w].tx
<1>3. PICK k \in run[w].hold, e \in EventIds :
          /\ Drawn(e)
          /\ run' = [run EXCEPT ![w].hold = run[w].hold \ {k},
                     ![w].tx = [old EXCEPT !.new = old.new \cup {<<e, k>>},
                                  !.links = old.links \cup {[from |-> e, to |-> run[w].event,
                                                   why |-> "held"]}]]
  BY Zenon DEF HoldMember
<1> DEFINE l == [from |-> e, to |-> run[w].event, why |-> "held"]
           new == old.new \cup {<<e, k>>}
           all == old.links \cup {l}
           tx == [old EXCEPT !.new = new, !.links = all]
           left == run[w].hold \ {k}
           j == [run[w] EXCEPT !.hold = left, !.tx = tx]
<1>4. k \in Titles /\ run[w].event \in EventIds /\ old \in Tx
  BY <1>1, <1>2 DEF Job, Aims
<1>5. l \in Link /\ l.from = e /\ l.to = run[w].event /\ l.why = "held"
  BY <1>4 DEF Link
<1>6. run' = [run EXCEPT ![w] = j]
  BY <1>3
<1> HIDE DEF l
<1>7. new \in SUBSET (EventIds \X Titles) /\ all \in SUBSET Link
  BY <1>4, <1>5 DEF Tx
<1>8. left \in SUBSET Titles
  BY <1>1 DEF Job
<1> HIDE DEF new, all, left
<1>9. /\ tx \in Tx /\ tx.new = new /\ tx.links = all /\ tx.mapped = old.mapped
      /\ tx.appended = old.appended /\ tx.anchors = old.anchors /\ tx.prints = old.prints
  BY <1>4, <1>7 DEF Tx
<1> HIDE DEF tx
<1>10. /\ j \in Job /\ j.pc = "apply" /\ j.event = run[w].event /\ j.c = run[w].c /\ j.tx = tx
  BY <1>1, <1>2, <1>8, <1>9 DEF Job
<1> HIDE DEF j
<1>11. \A x : x \in NewOf(j) <=> x \in NewOf(run[w]) \/ x = e
  <2>1. j.tx.new = run[w].tx.new \cup {<<e, k>>}
    BY <1>9, <1>10 DEF new
  <2> QED
    BY <1>4, <2>1 DEF NewOf
<1>12. Linked(j)
  BY <1>1, <1>2, <1>5, <1>9, <1>10, <1>11 DEF Linked, Aims, all
<1>13. Tidy(j) /\ Aims(j)
  BY <1>1, <1>2, <1>9, <1>10, <1>11, <1>12 DEF Tidy, Aims
<1>14. Unseen(j)
  BY <1>1, <1>3, <1>9, <1>10, <1>11, DrawnIsNew DEF Unseen
<1>15. \A v \in Workers \ {w} : Apart(j, run[v])
  <2> SUFFICES ASSUME NEW v \in Workers \ {w} PROVE Apart(j, run[v])
    OBVIOUS
  <2>1. Apart(run[w], run[v])
    BY DEF TInv
  <2>2. e \notin NewOf(run[v])
    BY <1>3, DrawnIsNew
  <2> QED
    BY <1>9, <1>10, <1>11, <2>1, <2>2 DEF Apart
<1> QED
  BY <1>2, <1>6, <1>10, <1>13, <1>14, <1>15 DEF Quiet

(* The insert waited for whoever had written the key; a key that is taken   *)
(* is not written again.                                                    *)
LEMMA ClaimQuiet ==
    ASSUME TInv, NEW w \in Workers, Claim(w)
    PROVE  Quiet(w)
<1>1. run[w] \in Job /\ Tidy(run[w]) /\ Aims(run[w]) /\ Unseen(run[w]) /\ TypeOK
  BY DEF TInv, TypeOK, Tidy, Of
<1>2. UNCHANGED tables /\ run[w].pc = "apply" /\ run[w].claim # <<>>
  BY DEF Claim, At
<1> DEFINE old == run[w].tx
           next == Head(run[w].claim)
           k == next[2]
           rest == Tail(run[w].claim)
<1>3. rest \in Seq(NextKeys) /\ next \in NextKeys /\ old \in Tx
  BY <1>1, <1>2 DEF Job, NextKeys
(* Whichever set the key goes to, the transaction is as before but for it. *)
<1>4. ASSUME NEW anchors \in SUBSET Anchors, NEW prints \in SUBSET Prints,
             \A a \in anchors : a \in old.anchors \/ (anchorMap[a] = None /\ AnchorFree(w, a)),
             \A f \in prints : f \in old.prints \/ (printMap[f] = None /\ PrintFree(w, f)),
             NEW tx \in Tx, tx.anchors = anchors, tx.prints = prints, tx.new = old.new,
             tx.mapped = old.mapped, tx.appended = old.appended, tx.links = old.links,
             run' = [run EXCEPT ![w].claim = rest, ![w].tx = tx]
      PROVE  Quiet(w)
  <2> DEFINE j == [run[w] EXCEPT !.claim = rest, !.tx = tx]
  <2> HIDE DEF rest
  <2>1. /\ j \in Job /\ j.pc = "apply" /\ j.event = run[w].event /\ j.c = run[w].c /\ j.tx = tx
    BY <1>1, <1>2, <1>3 DEF Job, NextKeys
  <2>2. run' = [run EXCEPT ![w] = j]
    BY <1>4
  <2> HIDE DEF j
  <2>3. NewOf(j) = NewOf(run[w])
    BY <1>4, <2>1 DEF NewOf
  <2>4. Tidy(j) /\ Aims(j)
    BY <1>1, <1>2, <1>4, <2>1, <2>3 DEF Tidy, Aims, Linked
  <2>5. Unseen(j)
    BY <1>1, <1>4, <2>1, <2>3 DEF Unseen
  <2>6. \A v \in Workers \ {w} : Apart(j, run[v])
    <3> SUFFICES ASSUME NEW v \in Workers \ {w} PROVE Apart(j, run[v])
      OBVIOUS
    <3>1. Apart(run[w], run[v])
      BY DEF TInv
    <3> QED
      BY <1>4, <2>1, <2>3, <3>1 DEF Apart, AnchorFree, PrintFree
  <2> QED
    BY <1>2, <2>1, <2>2, <2>4, <2>5, <2>6 DEF Quiet
<1>5. CASE next[1] = "anchor"
  <2> DEFINE some == old.anchors \cup Untaken(anchorMap, k)
             tx == [old EXCEPT !.anchors = some]
  <2>1. AnchorFree(w, k) /\ run' = [run EXCEPT ![w].claim = rest, ![w].tx = tx]
    BY <1>5, Zenon DEF Claim
  <2>2. k \in Anchors
    BY <1>3, <1>5 DEF NextKeys
  <2>3. some \in SUBSET Anchors
    BY <1>3, <2>2 DEF Tx, Untaken
  <2>4. \A a \in some : a \in old.anchors \/ (anchorMap[a] = None /\ AnchorFree(w, a))
    BY <2>1 DEF Untaken
  <2> HIDE DEF some
  <2>5. /\ tx \in Tx /\ tx.anchors = some /\ tx.prints = old.prints /\ tx.new = old.new
        /\ tx.mapped = old.mapped /\ tx.appended = old.appended /\ tx.links = old.links
        /\ old.prints \in SUBSET Prints
    BY <1>3, <2>3 DEF Tx
  <2> HIDE DEF tx, old, rest, k
  <2> QED
    BY <1>4, <2>1, <2>3, <2>4, <2>5
<1>6. CASE next[1] # "anchor"
  <2> DEFINE some == old.prints \cup Untaken(printMap, k)
             tx == [old EXCEPT !.prints = some]
  <2>1. PrintFree(w, k) /\ run' = [run EXCEPT ![w].claim = rest, ![w].tx = tx]
    BY <1>6, Zenon DEF Claim
  <2>2. k \in Prints
    BY <1>3, <1>6 DEF NextKeys
  <2>3. some \in SUBSET Prints
    BY <1>3, <2>2 DEF Tx, Untaken
  <2>4. \A f \in some : f \in old.prints \/ (printMap[f] = None /\ PrintFree(w, f))
    BY <2>1 DEF Untaken
  <2> HIDE DEF some
  <2>5. /\ tx \in Tx /\ tx.prints = some /\ tx.anchors = old.anchors /\ tx.new = old.new
        /\ tx.mapped = old.mapped /\ tx.appended = old.appended /\ tx.links = old.links
        /\ old.anchors \in SUBSET Anchors
    BY <1>3, <2>3 DEF Tx
  <2> HIDE DEF tx, old, rest, k
  <2> QED
    BY <1>4, <2>1, <2>3, <2>4, <2>5
<1> QED
  BY <1>5, <1>6

(* A worker begins, fails, or is the victim of a deadlock. *)
LEMMA TakeQuiet ==
    ASSUME TInv, NEW w \in Workers, NEW c \in Clusters, Take(w, c)
    PROVE  Quiet(w)
<1> DEFINE j == [Idle EXCEPT !.pc = "cluster", !.c = c]
<1>1. j \in Job /\ j.tx = NoTx /\ j.pc = "cluster" /\ j.c = c /\ j.event = None
  <2>1. Idle \in Job /\ Idle.tx = NoTx /\ Idle.event = None
    BY NoTxTyped DEF Idle
  <2> QED
    BY <2>1 DEF Job
<1>2. run' = [run EXCEPT ![w] = j] /\ UNCHANGED tables
  BY DEF Take
<1> HIDE DEF j
<1>3. Tidy(j) /\ Aims(j)
  BY <1>1 DEF Tidy, Aims
<1> QED
  BY <1>1, <1>2, <1>3, QuietWithout

LEMMA EndQuiet ==
    ASSUME TInv, NEW w \in Workers, Fail(w) \/ DeadlockAbort(w)
    PROVE  Quiet(w)
<1>1. run' = [run EXCEPT ![w] = Idle] /\ UNCHANGED tables
  BY DEF Fail, DeadlockAbort
<1> QED
  BY <1>1, NoTxTyped, IdleIsQuiet, QuietWithout

-----------------------------------------------------------------------------
(* The commit. *)

(* What the tables hold after it. *)
LEMMA CommitEffect ==
    ASSUME TInv, NEW w \in Workers, Commit(w)
    PROVE  LET j == run[w]
               e == j.event
           IN  /\ j.pc = "apply" /\ e \in EventIds
               /\ title' \in [EventIds -> Titles \cup {None}]
               /\ \A x \in EventIds : IF x \in NewOf(j) THEN title'[x] # None ELSE title'[x] = title[x]
               /\ updates' = [x \in EventIds |->
                                IF x = j.tx.appended THEN updates[x] + 1 ELSE updates[x]]
               /\ clusterMap' = IF j.tx.mapped THEN [clusterMap EXCEPT ![j.c.id] = e] ELSE clusterMap
               /\ j.c.id \in ClusterIds
               /\ anchorMap' = [a \in Anchors |-> IF a \in j.tx.anchors THEN e ELSE anchorMap[a]]
               /\ printMap' = [f \in Prints |-> IF f \in j.tx.prints THEN e ELSE printMap[f]]
               /\ links' = links \cup j.tx.links
               /\ Mapped' = Mapped \cup {e}
<1> DEFINE j == run[w]
           e == j.event
<1>1. /\ j \in Job /\ Tidy(j) /\ Aims(j) /\ Unseen(j) /\ TypeOK
  BY DEF TInv, TypeOK, Tidy, Of
<1>2. j.pc = "apply"
  BY DEF Commit, At
<1>3. e \in EventIds /\ j.c \in Clusters /\ j.c.id \in ClusterIds
  BY <1>1, <1>2, ClusterParts DEF Aims, Tidy
<1>4. /\ title' \in [EventIds -> Titles \cup {None}]
      /\ \A x \in EventIds : IF x \in NewOf(j) THEN title'[x] # None ELSE title'[x] = title[x]
  <2>1. title' = [x \in EventIds |-> IF NewTitle(j.tx, x) = {} THEN title[x]
                                     ELSE CHOOSE t \in NewTitle(j.tx, x) : TRUE]
    BY DEF Commit
  <2>2. \A x \in EventIds : NewTitle(j.tx, x) = {} <=> x \notin NewOf(j)
    BY DEF NewTitle, NewOf
  <2>3. \A x : NewTitle(j.tx, x) # {} =>
                 (CHOOSE t \in NewTitle(j.tx, x) : TRUE) \in Titles
    BY DEF NewTitle
  <2>4. None \notin Titles
    BY TimelineAssumption
  <2> QED
    BY <1>1, <2>1, <2>2, <2>3, <2>4 DEF TypeOK
<1>5. updates' = [x \in EventIds |-> IF x = j.tx.appended THEN updates[x] + 1 ELSE updates[x]]
  BY DEF Commit
<1>6. clusterMap' = IF j.tx.mapped THEN [clusterMap EXCEPT ![j.c.id] = e] ELSE clusterMap
  <2>1. clusterMap' = Owned(clusterMap, IF j.tx.mapped THEN {j.c.id} ELSE {}, e)
    BY DEF Commit, Of
  <2> HIDE DEF j
  <2>2. clusterMap \in [ClusterIds -> EventIds \cup {None}]
    BY <1>1 DEF TypeOK
  <2> QED
    BY <1>3, <2>1, <2>2 DEF Owned
<1>7. /\ anchorMap' = [a \in Anchors |-> IF a \in j.tx.anchors THEN e ELSE anchorMap[a]]
      /\ printMap' = [f \in Prints |-> IF f \in j.tx.prints THEN e ELSE printMap[f]]
  <2>1. anchorMap' = Owned(anchorMap, j.tx.anchors, e) /\ printMap' = Owned(printMap, j.tx.prints, e)
    BY DEF Commit
  <2>2. DOMAIN anchorMap = Anchors /\ DOMAIN printMap = Prints
    BY <1>1 DEF TypeOK
  <2> QED
    BY <2>1, <2>2 DEF Owned
<1>8. links' = links \cup j.tx.links
  BY DEF Commit
<1>9. Mapped' = Mapped \cup {e}
  <2>1. CASE j.tx.mapped
    <3>1. clusterMap[j.c.id] = None /\ e # None
      BY <1>1, <1>2, <1>3, <2>1, TimelineAssumption DEF Aims
    <3>2. clusterMap \in [ClusterIds -> EventIds \cup {None}]
      BY <1>1 DEF TypeOK
    <3> HIDE DEF j, e
    <3>3. Mapped' = {clusterMap'[k] : k \in ClusterIds} \ {None}
      BY DEF Mapped
    <3>4. clusterMap'[j.c.id] = e /\ \A k \in ClusterIds \ {j.c.id} : clusterMap'[k] = clusterMap[k]
      BY <1>3, <1>6, <2>1, <3>2
    <3> QED
      BY <1>3, <3>1, <3>3, <3>4 DEF Mapped
  <2>2. CASE ~j.tx.mapped
    BY <1>1, <1>2, <1>6, <2>2 DEF Mapped, Aims
  <2> QED
    BY <2>1, <2>2
<1> QED
  BY <1>2, <1>3, <1>4, <1>5, <1>6, <1>7, <1>8, <1>9

(* What is left of the worker. *)
LEMMA CommitLeaves ==
    ASSUME TInv, NEW w \in Workers, Commit(w)
    PROVE  \E j \in Job : /\ run' = [run EXCEPT ![w] = j] /\ j.tx = NoTx /\ Tidy(j)
                          /\ j.pc \in {"idle", "remap", "link"}
                          /\ j.pc # "idle" => j.event = run[w].event
                          /\ j.pc = "link" => j.semantic \in EventIds
<1>1. run[w] \in Job /\ Tidy(run[w]) /\ run[w].pc = "apply"
  BY DEF TInv, TypeOK, Tidy, Of, Commit, At
<1>2. \A pc \in {"remap", "link"} :
          LET j == After(w, pc)
          IN  /\ j \in Job /\ j.tx = NoTx /\ Tidy(j) /\ j.pc = pc /\ j.event = run[w].event
              /\ j.semantic = run[w].semantic
  <2>1. run[w].tx.mapped \in BOOLEAN
    BY <1>1 DEF Job, Tx
  <2> QED
    BY <1>1, <2>1, NoTxTyped DEF After, Job, Tidy
<1>3. \/ run' = [run EXCEPT ![w] = After(w, "remap")]
      \/ run' = [run EXCEPT ![w] = After(w, "link")] /\ run[w].semantic # None
      \/ run' = [run EXCEPT ![w] = Idle]
  BY Zenon DEF Commit
<1>4. run[w].semantic \in EventIds \cup {None}
  BY <1>1 DEF Job
<1>5. Idle \in Job /\ Idle.tx = NoTx /\ Tidy(Idle) /\ Idle.pc = "idle"
  BY NoTxTyped, IdleIsQuiet DEF Idle
<1>6. CASE run' = [run EXCEPT ![w] = After(w, "remap")]
  BY <1>2, <1>6
<1>7. CASE run' = [run EXCEPT ![w] = After(w, "link")] /\ run[w].semantic # None
  BY <1>2, <1>4, <1>7
<1>8. CASE run' = [run EXCEPT ![w] = Idle]
  BY <1>5, <1>8
<1> QED
  BY <1>3, <1>6, <1>7, <1>8

LEMMA CommitNoOrphan ==
    ASSUME TInv, NEW w \in Workers, Commit(w)
    PROVE  NoOrphan' /\ \A e \in EventIds : title'[e] = None => updates'[e] = 0
<1> DEFINE j == run[w]
           e == j.event
<1>1. /\ Aims(j) /\ Unseen(j) /\ TypeOK /\ NoOrphan
      /\ \A x \in EventIds : title[x] = None => updates[x] = 0
  BY DEF TInv
<1>2. /\ j.pc = "apply" /\ e \in EventIds
      /\ \A x \in EventIds : IF x \in NewOf(j) THEN title'[x] # None ELSE title'[x] = title[x]
      /\ updates' = [x \in EventIds |-> IF x = j.tx.appended THEN updates[x] + 1 ELSE updates[x]]
      /\ links' = links \cup j.tx.links
      /\ Mapped' = Mapped \cup {e}
  BY CommitEffect
<1>3. /\ anchorMap' = [a \in Anchors |-> IF a \in j.tx.anchors THEN e ELSE anchorMap[a]]
      /\ printMap' = [f \in Prints |-> IF f \in j.tx.prints THEN e ELSE printMap[f]]
      /\ clusterMap' = IF j.tx.mapped THEN [clusterMap EXCEPT ![j.c.id] = e] ELSE clusterMap
  BY CommitEffect
<1>4. /\ j.tx.mapped => e \in NewOf(j) /\ j.tx.appended = e
      /\ ~j.tx.mapped => e \in Mapped /\ j.tx.appended \in {None, e}
      /\ Linked(j)
  BY <1>1, <1>2 DEF Aims
<1>5. None \notin EventIds
  BY TimelineAssumption
<1>6. updates \in [EventIds -> Nat]
  BY <1>1 DEF TypeOK
<1> HIDE DEF j, e
<1>7. ASSUME NEW x \in EventIds, title'[x] # None
      PROVE  \/ x \in Mapped' /\ updates'[x] > 0
             \/ /\ x \notin Mapped' /\ updates'[x] = 0
                /\ \E l \in links' : l.from = x /\ l.to \in Mapped' /\ l.why = "held"
  <2>1. CASE x = e /\ j.tx.mapped
    BY <1>2, <1>4, <1>6, <2>1
  <2>2. CASE x = e /\ ~j.tx.mapped
    <3>1. title[e] # None
      BY <1>1, <1>4, <2>2 DEF NoOrphan
    <3>2. updates[e] > 0
      BY <1>1, <1>2, <1>4, <2>2, <3>1 DEF NoOrphan
    <3> QED
      BY <1>2, <1>4, <1>6, <2>2, <3>2
  <2>3. CASE x # e /\ x \in NewOf(j)
    <3>1. title[x] = None
      BY <1>1, <2>3 DEF Unseen, j
    <3>2. x \notin Mapped /\ updates[x] = 0
      BY <1>1, <3>1 DEF NoOrphan
    <3>3. x \notin Mapped' /\ updates'[x] = 0
      BY <1>2, <1>4, <1>5, <2>3, <3>2
    <3>4. PICK l \in j.tx.links : l.from = x /\ l.to = e /\ l.why = "held"
      BY <1>4, <2>3 DEF Linked, e
    <3> QED
      BY <1>2, <3>3, <3>4
  <2>4. CASE x # e /\ x \notin NewOf(j)
    <3>1. title[x] # None
      BY <1>2, <1>7, <2>4
    <3>2. updates'[x] = updates[x]
      BY <1>2, <1>4, <1>5, <2>4
    <3> QED
      BY <1>1, <1>2, <2>4, <3>1, <3>2 DEF NoOrphan
  <2> QED
    BY <2>1, <2>2, <2>3, <2>4
<1>8. Range(clusterMap') \cup Range(anchorMap') \cup Range(printMap') \subseteq Mapped' \cup {None}
  <2>1. /\ clusterMap \in [ClusterIds -> EventIds \cup {None}]
        /\ anchorMap \in [Anchors -> EventIds \cup {None}]
        /\ printMap \in [Prints -> EventIds \cup {None}]
    BY <1>1 DEF TypeOK
  <2>2. /\ \A k \in ClusterIds : clusterMap[k] \in Mapped \cup {None}
        /\ \A a \in Anchors : anchorMap[a] \in Mapped \cup {None}
        /\ \A f \in Prints : printMap[f] \in Mapped \cup {None}
    BY <1>1, <2>1 DEF NoOrphan, Range
  <2>3. \A k \in ClusterIds : clusterMap'[k] \in Mapped' \cup {None}
    BY <1>2, <1>3, <2>1, <2>2
  <2>4. \A a \in Anchors : anchorMap'[a] \in Mapped' \cup {None}
    BY <1>2, <1>3, <2>2
  <2>5. \A f \in Prints : printMap'[f] \in Mapped' \cup {None}
    BY <1>2, <1>3, <2>2
  <2>6. DOMAIN clusterMap' = ClusterIds /\ DOMAIN anchorMap' = Anchors /\ DOMAIN printMap' = Prints
    BY <1>3, <2>1
  <2> QED
    BY <2>3, <2>4, <2>5, <2>6 DEF Range
<1>9. \A x \in Mapped' : title'[x] # None
  <2>1. \A x \in Mapped : x \in EventIds /\ title[x] # None
    BY <1>1 DEF NoOrphan, TypeOK, Mapped
  <2>2. title'[e] # None
    BY <1>2, <1>4, <2>1
  <2> QED
    BY <1>2, <2>1, <2>2
<1>10. ASSUME NEW x \in EventIds, title'[x] = None PROVE updates'[x] = 0
  <2>1. x \notin NewOf(j) /\ title[x] = None
    BY <1>2, <1>10
  <2>2. x # e
    BY <1>1, <1>4, <2>1 DEF NoOrphan
  <2> QED
    BY <1>1, <1>2, <1>4, <1>5, <2>1, <2>2
<1> QED
  BY <1>7, <1>8, <1>9, <1>10 DEF NoOrphan

(* The other transactions keep what they hold: it is apart. *)
LEMMA CommitSpares ==
    ASSUME TInv, NEW w \in Workers, Commit(w), NEW v \in Workers, v # w
    PROVE  Aims(run[v])' /\ Unseen(run[v])' /\ run'[v] = run[v]
<1> DEFINE j == run[w]
           e == j.event
           i == run[v]
<1>1. /\ Aims(j) /\ Aims(i) /\ Unseen(j) /\ Unseen(i) /\ Apart(j, i) /\ TypeOK
      /\ i \in Job /\ run \in [Workers -> Job]
  BY DEF TInv, TypeOK
<1>2. run'[v] = i
  BY <1>1, CommitLeaves
<1>3. /\ j.pc = "apply" /\ e \in EventIds
      /\ \A x \in EventIds : IF x \in NewOf(j) THEN title'[x] # None ELSE title'[x] = title[x]
      /\ Mapped' = Mapped \cup {e}
      /\ clusterMap' = IF j.tx.mapped THEN [clusterMap EXCEPT ![j.c.id] = e] ELSE clusterMap
      /\ anchorMap' = [a \in Anchors |-> IF a \in j.tx.anchors THEN e ELSE anchorMap[a]]
      /\ printMap' = [f \in Prints |-> IF f \in j.tx.prints THEN e ELSE printMap[f]]
  BY CommitEffect
<1>4. i.tx \in Tx /\ i.tx.anchors \subseteq Anchors /\ i.tx.prints \subseteq Prints
  BY <1>1 DEF Job, Tx
<1>5. i.pc = "apply" /\ i.tx.mapped => clusterMap'[i.c.id] = None
  <2> SUFFICES ASSUME i.pc = "apply", i.tx.mapped PROVE clusterMap'[i.c.id] = None
    OBVIOUS
  <2>1. clusterMap[i.c.id] = None
    BY <1>1 DEF Aims
  <2>2. j.tx.mapped => i.c.id # j.c.id
    BY <1>1 DEF Apart
  <2>3. clusterMap \in [ClusterIds -> EventIds \cup {None}]
    BY <1>1 DEF TypeOK
  <2>4. i.c.id \in ClusterIds
    <3>1. i.c \in Clusters
      BY DEF TInv, TypeOK, Of
    <3> QED
      BY <3>1, ClusterParts
  <2> HIDE DEF i, j, e
  <2> QED
    BY <1>3, <2>1, <2>2, <2>3, <2>4
<1> HIDE DEF i, j, e
<1>6. ASSUME NEW q \in Job, q = i PROVE Aims(q)' /\ Unseen(q)'
  <2>1. Aims(q) /\ Unseen(q) /\ Apart(j, q) /\ (q.pc = "apply" /\ q.tx.mapped => clusterMap'[q.c.id] = None)
    BY <1>1, <1>5, <1>6
  <2>2. Aims(q)'
    BY <1>3, <2>1 DEF Aims, Linked, NewOf
  <2>3. \A x \in NewOf(q) : x \in EventIds /\ title'[x] = None
    BY <1>3, <2>1 DEF Unseen, Apart, NewOf
  <2>4. \A a \in q.tx.anchors : anchorMap'[a] = None
    BY <1>3, <1>4, <1>6, <2>1 DEF Unseen, Apart
  <2>5. \A f \in q.tx.prints : printMap'[f] = None
    BY <1>3, <1>4, <1>6, <2>1 DEF Unseen, Apart
  <2> QED
    BY <2>2, <2>3, <2>4, <2>5 DEF Unseen, NewOf
<1> QED
  BY <1>1, <1>2, <1>6 DEF i

LEMMA CommitKeeps ==
    ASSUME TInv, NEW w \in Workers, Commit(w)
    PROVE  TInv'
<1>1. PICK j \in Job : /\ run' = [run EXCEPT ![w] = j] /\ j.tx = NoTx /\ Tidy(j)
                       /\ j.pc \in {"idle", "remap", "link"}
                       /\ j.pc # "idle" => j.event = run[w].event
                       /\ j.pc = "link" => j.semantic \in EventIds
  BY CommitLeaves
<1>2. /\ run' \in [Workers -> Job] /\ run'[w] = j
      /\ \A v \in Workers \ {w} : run'[v] = run[v]
  BY <1>1, JobChange DEF TInv, TypeOK
<1>3. TypeOK'
  <2>1. \A v \in Workers : Tidy(run'[v])
    BY <1>1, <1>2 DEF TInv, TypeOK, Tidy, Of
  <2>2. /\ updates \in [EventIds -> Nat] /\ links \subseteq Link /\ run[w] \in Job
        /\ clusterMap \in [ClusterIds -> EventIds \cup {None}]
        /\ anchorMap \in [Anchors -> EventIds \cup {None}]
        /\ printMap \in [Prints -> EventIds \cup {None}]
    BY DEF TInv, TypeOK
  <2>3. run[w].tx.links \subseteq Link
    BY <2>2 DEF Job, Tx
  <2>4. run[w].event \in EventIds /\ title' \in [EventIds -> Titles \cup {None}]
    BY CommitEffect
  <2>5. links' \subseteq Link /\ updates' \in [EventIds -> Nat]
    BY <2>2, <2>3, CommitEffect
  <2>6. clusterMap' \in [ClusterIds -> EventIds \cup {None}]
    BY <2>2, <2>4, CommitEffect
  <2>7. /\ anchorMap' \in [Anchors -> EventIds \cup {None}]
        /\ printMap' \in [Prints -> EventIds \cup {None}]
    BY <2>2, <2>4, CommitEffect
  <2> QED
    BY <1>2, <2>1, <2>4, <2>5, <2>6, <2>7 DEF TypeOK, Tidy, Of
<1>4. NoOrphan' /\ \A e \in EventIds : title'[e] = None => updates'[e] = 0
  BY CommitNoOrphan
<1>5. Aims(j)' /\ Unseen(j)' /\ NewOf(j) = {} /\ j.tx.anchors = {} /\ j.tx.prints = {} /\ ~j.tx.mapped
  <2>1. NewOf(j) = {} /\ j.tx.anchors = {} /\ j.tx.prints = {} /\ ~j.tx.mapped
    BY <1>1, NoTxFields DEF NewOf, Empty
  <2>2. j.pc # "idle" => j.event \in Mapped'
    BY <1>1, CommitEffect
  <2>3. Aims(j)'
    BY <1>1, <2>2 DEF Aims
  <2>4. Unseen(j)'
    BY <2>1 DEF Unseen, NewOf
  <2> QED
    BY <2>1, <2>3, <2>4
<1>6. \A v \in Workers : Aims(run[v])' /\ Unseen(run[v])'
  <2> TAKE v \in Workers
  <2>1. CASE v = w
    BY <1>2, <1>5, <2>1
  <2>2. CASE v # w
    BY <2>2, CommitSpares
  <2> QED
    BY <2>1, <2>2
<1>7. \A u, v \in Workers : u # v => Apart(run[u], run[v])'
  <2> SUFFICES ASSUME NEW u \in Workers, NEW v \in Workers, u # v
               PROVE  Apart(run'[u], run'[v])
    BY DEF Apart, NewOf
  <2>1. CASE u = w
    BY <1>2, <1>5, <2>1 DEF Apart
  <2>2. CASE v = w
    BY <1>2, <1>5, <2>2 DEF Apart
  <2>3. CASE u # w /\ v # w
    BY <1>2, <2>3 DEF TInv
  <2> QED
    BY <2>1, <2>2, <2>3
<1> QED
  BY <1>3, <1>4, <1>6, <1>7 DEF TInv

-----------------------------------------------------------------------------
(* What follows in a transaction of its own. *)

LEMMA RemapKeeps ==
    ASSUME TInv, NEW w \in Workers, Remap(w)
    PROVE  TInv'
<1> DEFINE e == run[w].event
           id == Of(w).id
<1>1. /\ Aims(run[w]) /\ TypeOK /\ NoOrphan /\ run \in [Workers -> Job] /\ Tidy(run[w])
      /\ clusterMap \in [ClusterIds -> EventIds \cup {None}]
  BY DEF TInv, TypeOK, Tidy, Of
<1>2. /\ run[w].pc = "remap" /\ ClusterFree(w, id)
      /\ clusterMap' = [clusterMap EXCEPT ![id] = IF clusterMap[id] = None THEN e ELSE clusterMap[id]]
      /\ run' = [run EXCEPT ![w] = Idle]
      /\ UNCHANGED <<title, updates, anchorMap, printMap, links>>
  BY DEF Remap, At
<1>3. e \in Mapped /\ e \in EventIds /\ id \in ClusterIds
  BY <1>1, <1>2, ClusterParts DEF Aims, Tidy, Of, Mapped
<1>4. Idle \in Job /\ Idle.tx = NoTx /\ Tidy(Idle) /\ Idle.pc = "idle"
  BY NoTxTyped, IdleIsQuiet DEF Idle
<1>5. /\ run' \in [Workers -> Job] /\ run'[w] = Idle
      /\ \A v \in Workers \ {w} : run'[v] = run[v]
  BY <1>1, <1>2, <1>4, JobChange
<1> HIDE DEF e, id
<1>6. clusterMap' \in [ClusterIds -> EventIds \cup {None}]
  BY <1>1, <1>2, <1>3
<1>7. Mapped' = Mapped
  <2>1. \A k \in ClusterIds : clusterMap'[k] = clusterMap[k]
                               \/ (clusterMap[k] = None /\ clusterMap'[k] = e)
    BY <1>1, <1>2, <1>3
  <2>2. e # None
    BY <1>3, TimelineAssumption
  <2> QED
    BY <1>3, <2>1, <2>2 DEF Mapped
<1>8. TypeOK'
  <2>1. \A v \in Workers : Tidy(run'[v])
    BY <1>4, <1>5 DEF TInv, TypeOK, Tidy, Of
  <2> QED
    BY <1>1, <1>2, <1>5, <1>6, <2>1 DEF TypeOK, Tidy, Of
<1>9. NoOrphan'
  <2>1. Range(clusterMap') \subseteq Mapped' \cup {None}
    BY <1>6 DEF Range, Mapped
  <2>2. Range(anchorMap') \cup Range(printMap') \subseteq Mapped' \cup {None}
    BY <1>1, <1>2, <1>7 DEF NoOrphan
  <2>3. \A x \in EventIds : title'[x] # None =>
          \/ x \in Mapped' /\ updates'[x] > 0
          \/ /\ x \notin Mapped' /\ updates'[x] = 0
             /\ \E l \in links' : l.from = x /\ l.to \in Mapped' /\ l.why = "held"
    BY <1>1, <1>2, <1>7 DEF NoOrphan
  <2>4. \A x \in Mapped' : title'[x] # None
    BY <1>1, <1>2, <1>7 DEF NoOrphan
  <2> QED
    BY <2>1, <2>2, <2>3, <2>4 DEF NoOrphan
<1>10. \A v \in Workers : Aims(run[v])' /\ Unseen(run[v])'
  <2> TAKE v \in Workers
  <2>1. Aims(Idle)' /\ Unseen(Idle)'
    BY <1>4, NoTxFields DEF Aims, Unseen, NewOf, Empty
  <2>2. CASE v = w
    BY <1>5, <2>1, <2>2
  <2>3. CASE v # w
    <3>1. ASSUME NEW q \in Job, q = run[v] PROVE Aims(q)' /\ Unseen(q)'
      <4>1. Aims(q) /\ Unseen(q)
        BY <3>1 DEF TInv
      <4>2. ASSUME q.pc = "apply", q.tx.mapped PROVE clusterMap'[q.c.id] = None
        <5>1. q.c.id # id
          BY <1>2, <2>3, <3>1, <4>2 DEF ClusterFree, Of
        <5>2. clusterMap[q.c.id] = None
          BY <4>1, <4>2 DEF Aims
        <5>3. q.c.id \in ClusterIds
          <6>1. q.c \in Clusters
            BY <3>1, <4>2 DEF TInv, TypeOK, Of
          <6> QED
            BY <6>1, ClusterParts
        <5> QED
          BY <1>1, <1>2, <1>3, <5>1, <5>2, <5>3
      <4>3. Aims(q)'
        BY <1>7, <4>1, <4>2 DEF Aims, Linked, NewOf
      <4>4. Unseen(q)'
        BY <1>2, <4>1 DEF Unseen, NewOf
      <4> QED
        BY <4>3, <4>4
    <3> QED
      BY <1>1, <1>5, <2>3, <3>1
  <2> QED
    BY <2>2, <2>3
<1>11. \A u, v \in Workers : u # v => Apart(run[u], run[v])'
  <2> SUFFICES ASSUME NEW u \in Workers, NEW v \in Workers, u # v
               PROVE  Apart(run'[u], run'[v])
    BY DEF Apart, NewOf
  <2>1. NewOf(Idle) = {} /\ Idle.tx.anchors = {} /\ Idle.tx.prints = {} /\ ~Idle.tx.mapped
    BY <1>4, NoTxFields DEF NewOf, Empty
  <2>2. CASE u = w
    BY <1>5, <2>1, <2>2 DEF Apart
  <2>3. CASE v = w
    BY <1>5, <2>1, <2>3 DEF Apart
  <2>4. CASE u # w /\ v # w
    BY <1>5, <2>4 DEF TInv
  <2> QED
    BY <2>2, <2>3, <2>4
<1>12. \A x \in EventIds : title'[x] = None => updates'[x] = 0
  BY <1>2 DEF TInv
<1> QED
  BY <1>8, <1>9, <1>10, <1>11, <1>12 DEF TInv

LEMMA LinkKeeps ==
    ASSUME TInv, NEW w \in Workers, LinkSemantic(w)
    PROVE  TInv'
<1> DEFINE l == [from |-> run[w].event, to |-> run[w].semantic, why |-> "semantic"]
<1>1. /\ Aims(run[w]) /\ TypeOK /\ NoOrphan /\ run \in [Workers -> Job] /\ run[w] \in Job
  BY DEF TInv, TypeOK
<1>2. /\ run[w].pc = "link" /\ links' = links \cup {l}
      /\ run' = [run EXCEPT ![w] = Idle]
      /\ UNCHANGED <<title, updates, clusterMap, anchorMap, printMap>>
  BY DEF LinkSemantic, At
<1>3. l \in Link
  BY <1>1, <1>2 DEF Aims, Mapped, TypeOK, Link, Job
<1> HIDE DEF l
<1>4. Idle \in Job /\ Idle.tx = NoTx /\ Tidy(Idle) /\ Idle.pc = "idle"
  BY NoTxTyped, IdleIsQuiet DEF Idle
<1>5. /\ run' \in [Workers -> Job] /\ run'[w] = Idle
      /\ \A v \in Workers \ {w} : run'[v] = run[v]
  BY <1>1, <1>2, <1>4, JobChange
<1>6. TypeOK'
  <2>1. \A v \in Workers : Tidy(run'[v])
    BY <1>4, <1>5 DEF TInv, TypeOK, Tidy, Of
  <2> QED
    BY <1>1, <1>2, <1>3, <1>5, <2>1 DEF TypeOK, Tidy, Of
<1>7. NoOrphan' /\ \A e \in EventIds : title'[e] = None => updates'[e] = 0
  BY <1>1, <1>2 DEF TInv, NoOrphan, Mapped
<1>8. NewOf(Idle) = {} /\ Idle.tx.anchors = {} /\ Idle.tx.prints = {} /\ ~Idle.tx.mapped
  BY <1>4, NoTxFields DEF NewOf, Empty
<1>9. \A v \in Workers : Aims(run[v])' /\ Unseen(run[v])'
  <2> TAKE v \in Workers
  <2>1. Aims(Idle)' /\ Unseen(Idle)'
    BY <1>4, <1>8 DEF Aims, Unseen, NewOf
  <2>2. ASSUME NEW q \in Job, q = run[v] PROVE Aims(q)' /\ Unseen(q)'
    <3>1. Aims(q) /\ Unseen(q) /\ Mapped' = Mapped
      BY <1>2, <2>2 DEF TInv, Mapped
    <3>2. Aims(q)'
      BY <1>2, <3>1 DEF Aims, Linked, NewOf
    <3>3. Unseen(q)'
      BY <1>2, <3>1 DEF Unseen, NewOf
    <3> QED
      BY <3>2, <3>3
  <2> QED
    BY <1>1, <1>5, <2>1, <2>2
<1>10. \A u, v \in Workers : u # v => Apart(run[u], run[v])'
  <2> SUFFICES ASSUME NEW u \in Workers, NEW v \in Workers, u # v
               PROVE  Apart(run'[u], run'[v])
    BY DEF Apart, NewOf
  <2>1. CASE u = w
    BY <1>5, <1>8, <2>1 DEF Apart
  <2>2. CASE v = w
    BY <1>5, <1>8, <2>2 DEF Apart
  <2>3. CASE u # w /\ v # w
    BY <1>5, <2>3 DEF TInv
  <2> QED
    BY <2>1, <2>2, <2>3
<1> QED
  BY <1>6, <1>7, <1>9, <1>10 DEF TInv

-----------------------------------------------------------------------------
(* The invariant. *)

LEMMA InitTInv == Init => TInv
<1> SUFFICES ASSUME Init PROVE TInv
  OBVIOUS
<1>1. Idle \in Job /\ Idle.tx = NoTx /\ Tidy(Idle) /\ Idle.pc = "idle"
  BY NoTxTyped, IdleIsQuiet DEF Idle
<1>2. \A w \in Workers : run[w] = Idle
  BY DEF Init
<1>3. TypeOK
  BY <1>1, <1>2 DEF Init, TypeOK, Tidy, Of
<1>4. Mapped = {}
  BY DEF Init, Mapped
<1>5. NoOrphan
  BY <1>4 DEF Init, NoOrphan, Range
<1>6. NewOf(Idle) = {} /\ Idle.tx.anchors = {} /\ Idle.tx.prints = {} /\ ~Idle.tx.mapped
  BY <1>1, NoTxFields DEF NewOf, Empty
<1>7. Aims(Idle) /\ Unseen(Idle) /\ Apart(Idle, Idle)
  BY <1>6, IdleIsQuiet DEF Unseen, Apart
<1> QED
  BY <1>2, <1>3, <1>5, <1>7 DEF TInv, Init

(* A step writes the tables, or is quiet. *)
LEMMA StepKinds ==
    ASSUME TInv, NEW w \in Workers, Step(w) \/ Fail(w) \/ \E c \in Clusters : Take(w, c)
    PROVE  Quiet(w) \/ Commit(w) \/ Remap(w) \/ LinkSemantic(w)
<1>1. CASE Lookup(w)
  BY <1>1, LookupQuiet
<1>2. CASE Route(w)
  BY <1>2, RouteQuiet
<1>3. CASE Apply(w)
  BY <1>3, MapQuiet, LoseQuiet, HoldMemberQuiet, ClaimQuiet DEF Apply
<1>4. CASE Fail(w) \/ DeadlockAbort(w)
  BY <1>4, EndQuiet
<1>5. CASE \E c \in Clusters : Take(w, c)
  BY <1>5, TakeQuiet
<1> QED
  BY <1>1, <1>2, <1>3, <1>4, <1>5 DEF Step

LEMMA NextTInv == TInv /\ [Next]_vars => TInv'
<1> SUFFICES ASSUME TInv, [Next]_vars PROVE TInv'
  OBVIOUS
<1>1. ASSUME NEW w \in Workers, Step(w) \/ Fail(w) \/ \E c \in Clusters : Take(w, c)
      PROVE  TInv'
  BY <1>1, StepKinds, QuietKeeps, CommitKeeps, RemapKeeps, LinkKeeps
<1>2. CASE UNCHANGED vars
  <2>1. UNCHANGED tables /\ run' = run /\ Mapped' = Mapped
    BY <1>2 DEF vars, tables, Mapped
  <2>2. TypeOK' /\ NoOrphan' /\ \A e \in EventIds : title'[e] = None => updates'[e] = 0
    BY <2>1 DEF TInv, TypeOK, NoOrphan, tables, Of, Range
  <2>3. ASSUME NEW q \in Job, Aims(q), Unseen(q) PROVE Aims(q)' /\ Unseen(q)'
    <3>1. Aims(q)'
      BY <2>1, <2>3 DEF Aims, Linked, NewOf, tables
    <3>2. Unseen(q)'
      BY <2>1, <2>3 DEF Unseen, NewOf, tables
    <3> QED
      BY <3>1, <3>2
  <2>4. \A v \in Workers : Aims(run[v])' /\ Unseen(run[v])'
    BY <2>1, <2>3 DEF TInv, TypeOK
  <2>5. \A u, v \in Workers : u # v => Apart(run[u], run[v])'
    BY <2>1 DEF TInv, Apart, NewOf
  <2> QED
    BY <2>2, <2>4, <2>5 DEF TInv
<1> QED
  BY <1>1, <1>2 DEF Next

LEMMA InvariantTInv == Spec => []TInv
  BY InitTInv, NextTInv, PTL DEF Spec

(* The type invariant of EventTimeline. *)
THEOREM TimelineTypes == Spec => []TypeOK
<1>1. TInv => TypeOK
  BY DEF TInv
<1> QED
  BY <1>1, InvariantTInv, PTL

(* No race, failure or deadlock leaves an event that is neither shown with  *)
(* an update nor held for one that is (apply_routing: one commit, and the   *)
(* rollback of the loser).                                                  *)
THEOREM NothingIsOrphaned == Spec => []NoOrphan
<1>1. TInv => NoOrphan
  BY DEF TInv
<1> QED
  BY <1>1, InvariantTInv, PTL

(* The first owner of a cluster, an anchor or a fingerprint stays it, and   *)
(* no title is rewritten, because no two transactions hold one key.         *)
THEOREM FirstOwnersStay == Spec => FirstOwnerStays
<1> DEFINE Kept == /\ Keeps(clusterMap, clusterMap') /\ Keeps(anchorMap, anchorMap')
                   /\ Keeps(printMap, printMap') /\ Keeps(title, title')
                   /\ links \subseteq links' /\ \A e \in EventIds : updates'[e] >= updates[e]
<1>1. ASSUME TInv, UNCHANGED tables PROVE Kept
  BY <1>1 DEF Keeps, tables, TInv, TypeOK
<1>2. ASSUME TInv, NEW w \in Workers, Commit(w) PROVE Kept
  <2>1. /\ TypeOK /\ Aims(run[w]) /\ Unseen(run[w]) /\ run[w].pc = "apply"
    BY <1>2 DEF TInv, Commit, At
  <2>2. Keeps(title, title')
    BY <1>2, <2>1, CommitEffect DEF Keeps, Unseen, TypeOK
  <2>3. Keeps(anchorMap, anchorMap') /\ Keeps(printMap, printMap')
    BY <1>2, <2>1, CommitEffect DEF Keeps, Unseen, TypeOK
  <2>4. Keeps(clusterMap, clusterMap')
    BY <1>2, <2>1, CommitEffect DEF Keeps, Aims, TypeOK
  <2>5. links \subseteq links' /\ \A e \in EventIds : updates'[e] >= updates[e]
    BY <1>2, <2>1, CommitEffect DEF TypeOK
  <2> QED
    BY <2>2, <2>3, <2>4, <2>5
<1>3. ASSUME TInv, NEW w \in Workers, Remap(w) PROVE Kept
  BY <1>3 DEF Remap, Keeps, TInv, TypeOK
<1>4. ASSUME TInv, NEW w \in Workers, LinkSemantic(w) PROVE Kept
  BY <1>4 DEF LinkSemantic, Keeps, TInv, TypeOK
<1>5. TInv /\ [Next]_vars => [Kept]_vars
  <2> SUFFICES ASSUME TInv, Next PROVE Kept
    OBVIOUS
  <2>1. PICK w \in Workers : Step(w) \/ Fail(w) \/ \E c \in Clusters : Take(w, c)
    BY DEF Next
  <2>2. Quiet(w) => UNCHANGED tables
    BY DEF Quiet
  <2> QED
    BY <1>1, <1>2, <1>3, <1>4, <2>1, <2>2, StepKinds
<1>6. Spec => [][Kept]_vars
  BY <1>5, InvariantTInv, PTL DEF Spec
<1> QED
  BY <1>6 DEF FirstOwnerStays

-----------------------------------------------------------------------------
(* The pipeline implements the timeline its readers see: a commit publishes *)
(* an event or tells an update of one that is shown, a promoted cluster is  *)
(* attached, and all else is not seen.                                      *)

LEMMA InitTimeline == Init => PT!TimelineInit
  BY DEF Init, PT!TimelineInit, Told, Mapped

LEMMA CommitShows ==
    ASSUME TInv, NEW w \in Workers, Commit(w)
    PROVE  PT!TimelineNext \/ UNCHANGED <<clusterMap, Told>>
<1> DEFINE j == run[w]
           e == j.event
<1>0. Unseen(j)
  BY DEF TInv
<1>1. Aims(j) /\ TypeOK /\ NoOrphan /\ updates \in [EventIds -> Nat]
      /\ \A x \in EventIds : title[x] = None => updates[x] = 0
      /\ Unseen(j) /\ None \notin EventIds /\ clusterMap \in [ClusterIds -> EventIds \cup {None}]
  BY TimelineAssumption DEF TInv, TypeOK
<1>2. /\ j.pc = "apply" /\ e \in EventIds
      /\ updates' = [x \in EventIds |-> IF x = j.tx.appended THEN updates[x] + 1 ELSE updates[x]]
      /\ clusterMap' = IF j.tx.mapped THEN [clusterMap EXCEPT ![j.c.id] = e] ELSE clusterMap
      /\ j.c.id \in ClusterIds
      /\ Mapped' = Mapped \cup {e}
  BY CommitEffect
<1>3. \A x \in EventIds : x \in Mapped <=> PT!Shown(x)
  <2>1. \A x \in EventIds : x # None
    BY TimelineAssumption
  <2> QED
    BY <2>1, Zenon DEF PT!Shown, Mapped
<1>4. CASE j.tx.mapped
  <2>1. e \in NewOf(j) /\ j.tx.appended = e /\ clusterMap[j.c.id] = None
    BY <1>1, <1>2, <1>4 DEF Aims
  <2>2. e \notin Mapped /\ updates[e] = 0
    <3>1. Unseen(j)
      BY <1>0
    <3>2. title[e] = None
      BY <2>1, <3>1 DEF Unseen
    <3>3. \A x \in Mapped : title[x] # None
      BY <1>1 DEF NoOrphan
    <3> QED
      BY <1>1, <1>2, <3>2, <3>3
  <2> HIDE DEF j, e
  <2>3. Told' = [Told EXCEPT ![e] = 1]
    <3>1. Told' = [x \in EventIds |-> IF x \in Mapped' THEN updates'[x] ELSE 0]
      BY DEF Told
    <3>2. \A x \in EventIds : (IF x \in Mapped' THEN updates'[x] ELSE 0)
                              = (IF x = e THEN 1 ELSE IF x \in Mapped THEN updates[x] ELSE 0)
      BY <1>1, <1>2, <2>1, <2>2
    <3> QED
      BY <3>1, <3>2 DEF Told
  <2>4. PT!Publish(j.c.id, e)
    BY <1>2, <1>3, <1>4, <2>1, <2>2, <2>3 DEF PT!Publish
  <2> QED
    BY <1>2, <2>4 DEF PT!TimelineNext
<1>5. CASE ~j.tx.mapped
  <2>1. e \in Mapped /\ j.tx.appended \in {None, e} /\ clusterMap' = clusterMap /\ Mapped' = Mapped
    BY <1>1, <1>2, <1>5 DEF Aims
  <2> HIDE DEF j, e
  <2>2. CASE j.tx.appended = e
    <3>1. Told' = [x \in EventIds |-> IF x \in Mapped THEN updates'[x] ELSE 0]
      BY <2>1 DEF Told
    <3>2. Told' = [Told EXCEPT ![e] = Told[e] + 1]
      BY <1>2, <2>1, <2>2, <3>1 DEF Told
    <3>3. PT!Tell(e)
      BY <1>2, <1>3, <2>1, <3>2 DEF PT!Tell
    <3> QED
      BY <1>2, <3>3 DEF PT!TimelineNext
  <2>3. CASE j.tx.appended = None
    <3>1. \A x \in EventIds : updates'[x] = updates[x]
      <4>1. \A x \in EventIds : x # j.tx.appended
        BY <2>3, TimelineAssumption
      <4> QED
        BY <1>2, <4>1
    <3> QED
      BY <2>1, <3>1 DEF Told
  <2> QED
    BY <2>1, <2>2, <2>3
<1> QED
  BY <1>4, <1>5

LEMMA RemapShows ==
    ASSUME TInv, NEW w \in Workers, Remap(w)
    PROVE  PT!TimelineNext \/ UNCHANGED <<clusterMap, Told>>
<1> DEFINE e == run[w].event
           id == Of(w).id
<1>1. /\ Aims(run[w]) /\ Tidy(run[w]) /\ TypeOK /\ None \notin EventIds
      /\ clusterMap \in [ClusterIds -> EventIds \cup {None}]
  BY TimelineAssumption DEF TInv, TypeOK, Tidy, Of
<1>2. /\ run[w].pc = "remap" /\ updates' = updates
      /\ clusterMap' = [clusterMap EXCEPT ![id] = IF clusterMap[id] = None THEN e ELSE clusterMap[id]]
  BY DEF Remap, At
<1>3. e \in Mapped /\ e \in EventIds /\ id \in ClusterIds
  BY <1>1, <1>2, ClusterParts DEF Aims, Tidy, Of, Mapped
<1> HIDE DEF e, id
<1>4. Mapped' = Mapped
  <2>1. \A k \in ClusterIds : clusterMap'[k] = clusterMap[k]
                               \/ (clusterMap[k] = None /\ clusterMap'[k] = e)
    BY <1>1, <1>2, <1>3
  <2>2. e # None
    BY <1>1, <1>3
  <2> QED
    BY <1>3, <2>1, <2>2 DEF Mapped
<1>5. Told' = Told
  BY <1>2, <1>4 DEF Told
<1>6. CASE clusterMap[id] = None
  <2>1. clusterMap' = [clusterMap EXCEPT ![id] = e]
    BY <1>2, <1>6
  <2>2. PT!Shown(e)
    BY <1>3 DEF PT!Shown, Mapped
  <2>3. PT!Attach(id, e)
    BY <1>5, <1>6, <2>1, <2>2 DEF PT!Attach
  <2> QED
    BY <1>3, <2>3 DEF PT!TimelineNext
<1>7. CASE clusterMap[id] # None
  BY <1>1, <1>2, <1>3, <1>5, <1>7
<1> QED
  BY <1>6, <1>7

(* Every step of the pipeline is one of the public timeline or is not seen. *)
THEOREM TimelineImplemented == Spec => ImplementsTimeline
<1>1. TInv /\ [Next]_vars => [PT!TimelineNext]_<<clusterMap, Told>>
  <2> SUFFICES ASSUME TInv, [Next]_vars
               PROVE  PT!TimelineNext \/ UNCHANGED <<clusterMap, Told>>
    OBVIOUS
  <2>1. ASSUME UNCHANGED <<clusterMap, updates>> PROVE UNCHANGED <<clusterMap, Told>>
    BY <2>1 DEF Told, Mapped
  <2>2. CASE UNCHANGED vars
    BY <2>1, <2>2 DEF vars, tables
  <2>3. CASE Next
    <3>1. PICK w \in Workers : Step(w) \/ Fail(w) \/ \E c \in Clusters : Take(w, c)
      BY <2>3 DEF Next
    <3>2. CASE Quiet(w)
      BY <2>1, <3>2 DEF Quiet, tables
    <3>3. CASE LinkSemantic(w)
      BY <2>1, <3>3 DEF LinkSemantic
    <3> QED
      BY <3>1, <3>2, <3>3, StepKinds, CommitShows, RemapShows
  <2> QED
    BY <2>2, <2>3
<1> QED
  BY <1>1, InitTimeline, InvariantTInv, PTL DEF Spec, ImplementsTimeline, PT!TimelineSpec

-----------------------------------------------------------------------------
(* A split needs an overlap.  A worker that may still create an event has  *)
(* found that no event alone owns the anchors of its cluster; this stays   *)
(* so as long as nobody else commits.                                      *)

MayCreate(j) ==
    \/ j.pc \in {"prints", "map"} \/ j.tx.mapped
    \/ j.pc = "route" /\ j.event = None

Unowned(c) == Sole(Owners(anchorMap, c.anchors)) = None

Hist == [rounds : Nat, faults : Nat, overlap : BOOLEAN, split : SUBSET EventIds]

SplitInv ==
    /\ hist \in Hist
    /\ ~hist.overlap =>
          /\ hist.split = {}
          /\ \A v, w \in Workers : ~At(v, "idle") /\ ~At(w, "idle") => v = w
          /\ \A w \in Workers : MayCreate(run[w]) => Unowned(Of(w))

(* What a step does to the worker that takes it: it may create afterwards   *)
(* only if it could before, or has just found the anchors unowned.          *)
Course(w) ==
    /\ \A v \in Workers \ {w} : run'[v] = run[v]
    /\ MayCreate(run'[w]) => /\ run'[w].c = run[w].c
                             /\ MayCreate(run[w]) \/ Unowned(run[w].c)

LEMMA IdleCourse ==
    ASSUME TypeOK, NEW w \in Workers, run' = [run EXCEPT ![w] = Idle]
    PROVE  Course(w) /\ ~MayCreate(run'[w])
<1>1. ~MayCreate(Idle)
  BY DEF Idle, NoTx, MayCreate
<1>2. run'[w] = Idle /\ \A v \in Workers \ {w} : run'[v] = run[v]
  BY DEF TypeOK
<1> QED
  BY <1>1, <1>2 DEF Course

LEMMA ApplyingCourse ==
    ASSUME TypeOK, NEW w \in Workers, NEW action, NEW event, NEW tx,
           Applying(w, action, event, tx), tx.mapped => MayCreate(run[w])
    PROVE  Course(w)
<1>1. run \in [Workers -> Job] /\ run[w] \in Job
  BY DEF TypeOK
<1>2. PICK hold, claim :
          run' = [run EXCEPT ![w].pc = "apply", ![w].action = action, ![w].event = event,
                             ![w].hold = hold, ![w].claim = claim, ![w].tx = tx]
  BY DEF Applying
<1>3. /\ run'[w].pc = "apply" /\ run'[w].tx = tx /\ run'[w].c = run[w].c
      /\ \A v \in Workers \ {w} : run'[v] = run[v]
  BY <1>1, <1>2 DEF Job
<1> QED
  BY <1>3 DEF Course, MayCreate

LEMMA LookupCourse ==
    ASSUME TInv, NEW w \in Workers, Lookup(w)
    PROVE  Course(w)
<1>1. /\ TypeOK /\ run \in [Workers -> Job] /\ run[w] \in Job
      /\ run[w].pc \notin {"map", "apply"} => ~run[w].tx.mapped
  <2>1. TypeOK
    BY DEF TInv
  <2>2. ~NoTx.mapped
    BY DEF NoTx
  <2>3. run[w].pc \notin {"map", "apply"} => run[w].tx = NoTx
    BY <2>1 DEF TypeOK
  <2>4. run \in [Workers -> Job]
    BY <2>1 DEF TypeOK
  <2> QED
    BY <2>1, <2>2, <2>3, <2>4
<1>2. None \notin EventIds
  BY TimelineAssumption
<1>3. CASE GetClusterEvent(w)
  <2>1. PICK e : e = clusterMap[Of(w).id]
    OBVIOUS
  <2>2. run' = [run EXCEPT ![w].event = e, ![w].pc = IF e = None THEN "held" ELSE "route"]
        /\ run[w].pc = "cluster"
    BY <1>3, <2>1 DEF GetClusterEvent, At
  <2>3. /\ run'[w].event = e /\ run'[w].pc = (IF e = None THEN "held" ELSE "route")
        /\ run'[w].tx = run[w].tx /\ \A v \in Workers \ {w} : run'[v] = run[v]
    BY <1>1, <2>2 DEF Job
  <2> QED
    BY <1>1, <2>2, <2>3 DEF Course, MayCreate
<1>4. CASE FindHeldParents(w)
  <2>1. \/ run' = [run EXCEPT ![w].pc = "anchors"]
        \/ \E p \in Mapped : run' = [run EXCEPT ![w].event = p, ![w].promoted = TRUE,
                                                ![w].pc = "route"]
    BY <1>4 DEF FindHeldParents, HeldParents
  <2>2. CASE run' = [run EXCEPT ![w].pc = "anchors"]
    <3>1. /\ run'[w].pc = "anchors" /\ run'[w].tx = run[w].tx
          /\ \A v \in Workers \ {w} : run'[v] = run[v]
      BY <1>1, <2>2 DEF Job
    <3> QED
      BY <1>1, <1>4, <3>1 DEF Course, MayCreate, FindHeldParents, At
  <2>3. CASE \E p \in Mapped : run' = [run EXCEPT ![w].event = p, ![w].promoted = TRUE,
                                                  ![w].pc = "route"]
    <3>1. PICK p \in Mapped : run' = [run EXCEPT ![w].event = p, ![w].promoted = TRUE,
                                                 ![w].pc = "route"]
      BY <2>3
    <3>2. /\ run'[w].pc = "route" /\ run'[w].event = p /\ run'[w].tx = run[w].tx
          /\ \A v \in Workers \ {w} : run'[v] = run[v]
      BY <1>1, <3>1 DEF Job
    <3>3. p # None
      BY DEF Mapped
    <3> QED
      BY <1>1, <1>4, <3>2, <3>3 DEF Course, MayCreate, FindHeldParents, At
  <2> QED
    BY <2>1, <2>2, <2>3
<1>5. CASE FindByIdentity(w)
  <2>1. PICK owner : owner = Sole(Owners(anchorMap, Of(w).anchors))
    OBVIOUS
  <2>2. CASE owner # None
    <3>1. run' = [run EXCEPT ![w].event = owner, ![w].promoted = TRUE, ![w].pc = "route"]
      BY <1>5, <2>1, <2>2 DEF FindByIdentity
    <3>2. /\ run'[w].pc = "route" /\ run'[w].event = owner /\ run'[w].tx = run[w].tx
          /\ \A v \in Workers \ {w} : run'[v] = run[v]
      BY <1>1, <3>1 DEF Job
    <3> QED
      BY <1>1, <1>5, <2>2, <3>2 DEF Course, MayCreate, FindByIdentity, At
  <2>3. CASE owner = None
    <3>1. run' = [run EXCEPT ![w].pc = "prints"]
      BY <1>5, <2>1, <2>3 DEF FindByIdentity
    <3>2. run'[w].c = run[w].c /\ \A v \in Workers \ {w} : run'[v] = run[v]
      BY <1>1, <3>1 DEF Job
    <3> QED
      BY <2>1, <2>3, <3>2 DEF Course, Unowned, Of
  <2> QED
    BY <2>2, <2>3
<1>6. CASE FindByFingerprint(w)
  <2>1. PICK s : s = Sole(Owners(printMap, Of(w).prints))
    OBVIOUS
  <2>2. run' = [run EXCEPT ![w].semantic = s, ![w].pc = "route"] /\ run[w].pc = "prints"
    BY <1>6, <2>1 DEF FindByFingerprint, At
  <2>3. run'[w].c = run[w].c /\ \A v \in Workers \ {w} : run'[v] = run[v]
    BY <1>1, <2>2 DEF Job
  <2> QED
    BY <2>2, <2>3 DEF Course, MayCreate
<1> QED
  BY <1>3, <1>4, <1>5, <1>6 DEF Lookup

LEMMA RouteCourse ==
    ASSUME TInv, NEW w \in Workers, Route(w)
    PROVE  Course(w)
<1>1. TypeOK /\ run \in [Workers -> Job] /\ run[w] \in Job /\ run[w].pc = "route"
  BY DEF TInv, TypeOK, Route, Withhold, Hold, AppendUpdate, CreateOfMapped, Create, At
<1>2. \A e : ~[NoTx EXCEPT !.appended = e].mapped
  BY DEF NoTx
<1>3. ~NoTx.mapped
  BY DEF NoTx
<1>4. CASE Withhold(w)
  BY <1>1, <1>4, IdleCourse DEF Withhold
<1>5. CASE Hold(w)
  BY <1>1, <1>3, <1>5, ApplyingCourse DEF Hold
<1>6. CASE AppendUpdate(w)
  BY <1>1, <1>2, <1>6, ApplyingCourse DEF AppendUpdate
<1>7. CASE CreateOfMapped(w)
  BY <1>1, <1>2, <1>7, ApplyingCourse DEF CreateOfMapped
<1>8. CASE Create(w)
  <2>1. PICK e, tx : run' = [run EXCEPT ![w].event = e, ![w].pc = "map", ![w].tx = tx]
    BY <1>8 DEF Create
  <2>2. run'[w].c = run[w].c /\ \A v \in Workers \ {w} : run'[v] = run[v]
    BY <1>1, <2>1 DEF Job
  <2>3. run[w].event = None
    BY <1>8 DEF Create, Action
  <2> QED
    BY <1>1, <2>2, <2>3 DEF Course, MayCreate
<1> QED
  BY <1>4, <1>5, <1>6, <1>7, <1>8 DEF Route

LEMMA ApplyCourse ==
    ASSUME TInv, NEW w \in Workers, Apply(w)
    PROVE  Course(w)
<1>1. /\ TypeOK /\ run \in [Workers -> Job] /\ run[w] \in Job
      /\ run[w].pc \in {"map", "apply"} /\ run[w].tx \in Tx
  BY DEF TInv, TypeOK, Job, Apply, MapCluster, LoseCluster, HoldMember, Claim, Commit, At
<1>2. \A e : ~[NoTx EXCEPT !.appended = e].mapped
  BY DEF NoTx
<1>3. CASE MapCluster(w)
  <2>1. MayCreate(run[w])
    BY <1>3 DEF MapCluster, At, MayCreate
  <2> QED
    BY <1>1, <1>3, <2>1, ApplyingCourse DEF MapCluster
<1>4. CASE LoseCluster(w)
  BY <1>1, <1>2, <1>4, ApplyingCourse DEF LoseCluster
<1>5. CASE HoldMember(w)
  <2>1. PICK h, n, l : run' = [run EXCEPT ![w].hold = h,
                                          ![w].tx = [run[w].tx EXCEPT !.new = n, !.links = l]]
    BY <1>5 DEF HoldMember
  <2>2. /\ run'[w].c = run[w].c /\ run'[w].pc = run[w].pc
        /\ run'[w].event = run[w].event
        /\ run'[w].tx = [run[w].tx EXCEPT !.new = n, !.links = l]
        /\ \A v \in Workers \ {w} : run'[v] = run[v]
    BY <1>1, <2>1 DEF Job
  <2>3. [run[w].tx EXCEPT !.new = n, !.links = l].mapped = run[w].tx.mapped
    BY <1>1 DEF Tx
  <2> QED
    BY <2>2, <2>3 DEF Course, MayCreate
<1>6. CASE Claim(w)
  <2>1. PICK c, tx : /\ run' = [run EXCEPT ![w].claim = c, ![w].tx = tx]
                     /\ tx.mapped = run[w].tx.mapped
    <3>1. \A a : [run[w].tx EXCEPT !.anchors = a].mapped = run[w].tx.mapped
      BY <1>1 DEF Tx
    <3>2. \A f : [run[w].tx EXCEPT !.prints = f].mapped = run[w].tx.mapped
      BY <1>1 DEF Tx
    <3>3. CASE Head(run[w].claim)[1] = "anchor"
      <4>1. PICK c, a : run' = [run EXCEPT ![w].claim = c,
                                           ![w].tx = [run[w].tx EXCEPT !.anchors = a]]
        BY <1>6, <3>3 DEF Claim
      <4> QED
        BY <3>1, <4>1
    <3>4. CASE Head(run[w].claim)[1] # "anchor"
      <4>1. PICK c, f : run' = [run EXCEPT ![w].claim = c,
                                           ![w].tx = [run[w].tx EXCEPT !.prints = f]]
        BY <1>6, <3>4 DEF Claim
      <4> QED
        BY <3>2, <4>1
    <3> QED
      BY <3>3, <3>4
  <2>2. /\ run'[w].c = run[w].c /\ run'[w].pc = run[w].pc
        /\ run'[w].event = run[w].event /\ run'[w].tx = tx
        /\ \A v \in Workers \ {w} : run'[v] = run[v]
    BY <1>1, <2>1 DEF Job
  <2> QED
    BY <2>1, <2>2 DEF Course, MayCreate
<1>7. CASE Commit(w)
  <2>1. PICK j \in Job : /\ run' = [run EXCEPT ![w] = j] /\ j.tx = NoTx
                         /\ j.pc \in {"idle", "remap", "link"}
    BY <1>7, CommitLeaves
  <2>2. ~MayCreate(j)
    BY <2>1 DEF MayCreate, NoTx
  <2>3. run'[w] = j /\ \A v \in Workers \ {w} : run'[v] = run[v]
    BY <1>1, <2>1
  <2> QED
    BY <2>2, <2>3 DEF Course
<1> QED
  BY <1>3, <1>4, <1>5, <1>6, <1>7 DEF Apply

(* Any step but that of taking up a cluster: what a commit splits off had   *)
(* a single owner of its anchors, and only a commit writes anchors.         *)
LEMMA StepCourse ==
    ASSUME TInv, hist \in Hist, NEW w \in Workers, Step(w) \/ Fail(w)
    PROVE  /\ Course(w) /\ ~At(w, "idle")
           /\ hist' \in Hist /\ hist'.overlap = hist.overlap
           /\ anchorMap' = anchorMap \/ ~MayCreate(run'[w])
           /\ hist'.split = hist.split \/ (MayCreate(run[w]) /\ ~Unowned(Of(w)))
<1>1. TypeOK /\ run \in [Workers -> Job]
  BY DEF TInv, TypeOK
<1>2. ~At(w, "idle")
  BY DEF Step, Lookup, Route, Apply, GetClusterEvent, FindHeldParents, FindByIdentity,
         FindByFingerprint, Withhold, Hold, AppendUpdate, CreateOfMapped, Create, MapCluster,
         LoseCluster, HoldMember, Claim, Commit, Remap, LinkSemantic, DeadlockAbort, WaitsFor,
         Fail, At
<1>3. Course(w)
  <2>1. CASE Remap(w) \/ LinkSemantic(w) \/ DeadlockAbort(w) \/ Fail(w)
    <3>1. run' = [run EXCEPT ![w] = Idle]
      BY <2>1 DEF Remap, LinkSemantic, DeadlockAbort, Fail
    <3> QED
      BY <1>1, <3>1, IdleCourse
  <2> QED
    BY <2>1, LookupCourse, RouteCourse, ApplyCourse DEF Step
<1>4. CASE Commit(w)
  <2>1. PICK j \in Job : /\ run' = [run EXCEPT ![w] = j] /\ j.tx = NoTx
                         /\ j.pc \in {"idle", "remap", "link"}
    BY <1>4, CommitLeaves
  <2>2. run'[w] = j
    BY <1>1, <2>1
  <2>3. ~MayCreate(run'[w])
    BY <2>1, <2>2 DEF MayCreate, NoTx
  <2>4. run[w].event \in EventIds
    BY <1>4, CommitEffect
  <2>5. PICK split \in SUBSET EventIds :
            /\ hist' = [hist EXCEPT !.split = split]
            /\ split = hist.split \/ (MayCreate(run[w]) /\ ~Unowned(Of(w)))
    <3>1. hist.split \in SUBSET EventIds /\ hist.split \cup {run[w].event} \in SUBSET EventIds
      BY <2>4 DEF Hist
    <3>2. CASE run[w].tx.mapped /\ ~Unowned(Of(w))
      <4>1. hist' = [hist EXCEPT !.split = hist.split \cup {run[w].event}]
        BY <1>4, <3>2 DEF Commit, Unowned
      <4> QED
        BY <3>1, <3>2, <4>1 DEF MayCreate
    <3>3. CASE ~(run[w].tx.mapped /\ ~Unowned(Of(w)))
      <4>1. hist' = [hist EXCEPT !.split = hist.split]
        BY <1>4, <3>3 DEF Commit, Unowned
      <4> QED
        BY <3>1, <4>1
    <3> QED
      BY <3>2, <3>3
  <2>6. hist' \in Hist /\ hist'.split = split /\ hist'.overlap = hist.overlap
    BY <2>5 DEF Hist
  <2> QED
    BY <1>2, <1>3, <2>3, <2>5, <2>6
<1>5. CASE ~Commit(w)
  <2>1. anchorMap' = anchorMap
    BY <1>5 DEF Step, Lookup, Route, Apply, GetClusterEvent, FindHeldParents, FindByIdentity,
         FindByFingerprint, Withhold, Hold, AppendUpdate, CreateOfMapped, Create, MapCluster,
         LoseCluster, HoldMember, Claim, Remap, LinkSemantic, DeadlockAbort, Fail, tables
  <2>2. hist' = hist \/ hist' = [hist EXCEPT !.faults = @ + 1]
    BY <1>5 DEF Step, Lookup, Route, Apply, GetClusterEvent, FindHeldParents, FindByIdentity,
         FindByFingerprint, Withhold, Hold, AppendUpdate, CreateOfMapped, Create, MapCluster,
         LoseCluster, HoldMember, Claim, Remap, LinkSemantic, DeadlockAbort, Fail
  <2>3. hist' \in Hist /\ hist'.split = hist.split /\ hist'.overlap = hist.overlap
    BY <2>2 DEF Hist
  <2> QED
    BY <1>2, <1>3, <2>1, <2>3
<1> QED
  BY <1>4, <1>5

LEMMA InitSplit == Init => SplitInv
  BY DEF Init, SplitInv, Hist, At, Idle, NoTx, MayCreate

LEMMA TakeSplit ==
    ASSUME TInv, SplitInv, NEW w \in Workers, NEW c \in Clusters, Take(w, c)
    PROVE  SplitInv'
<1>1. run \in [Workers -> Job]
  BY DEF TInv, TypeOK
<1>2. PICK job : job = [Idle EXCEPT !.pc = "cluster", !.c = c]
  OBVIOUS
<1>3. run'[w] = job /\ \A v \in Workers \ {w} : run'[v] = run[v]
  BY <1>1, <1>2 DEF Take
<1>4. ~MayCreate(job)
  BY <1>2 DEF MayCreate, Idle, NoTx
<1>5. /\ hist' \in Hist /\ hist'.split = hist.split
      /\ hist'.overlap = (hist.overlap \/ \E v \in Workers : ~At(v, "idle"))
  <2>1. PICK b \in BOOLEAN : b = (hist.overlap \/ \E v \in Workers : ~At(v, "idle"))
    BY DEF SplitInv, Hist
  <2>2. hist' = [hist EXCEPT !.rounds = @ + 1, !.overlap = b]
    BY <2>1 DEF Take
  <2>3. hist \in Hist /\ hist.rounds + 1 \in Nat
    BY DEF SplitInv, Hist
  <2>4. hist' \in Hist /\ hist'.split = hist.split /\ hist'.overlap = b
    <3>1. PICK n \in Nat : n = hist.rounds + 1
      BY <2>3
    <3>2. hist' = [hist EXCEPT !.rounds = n, !.overlap = b]
      BY <2>2, <3>1
    <3> QED
      BY <2>3, <3>2 DEF Hist
  <2> QED
    BY <2>1, <2>4
<1>6. ASSUME ~hist'.overlap
      PROVE  /\ hist'.split = {}
             /\ \A u, v \in Workers : ~At(u, "idle")' /\ ~At(v, "idle")' => u = v
             /\ \A v \in Workers : MayCreate(run[v])' => Unowned(Of(v))'
  <2>1. ~hist.overlap /\ \A v \in Workers : At(v, "idle")
    BY <1>5, <1>6
  <2>2. \A v \in Workers : ~MayCreate(run[v])
    BY <2>1 DEF TInv, TypeOK, MayCreate, At, NoTx
  <2>3. \A v \in Workers : ~MayCreate(run'[v])
    BY <1>3, <1>4, <2>2
  <2>4. \A v \in Workers \ {w} : run'[v].pc = "idle"
    BY <1>3, <2>1 DEF At
  <2>5. \A v \in Workers : MayCreate(run[v])' <=> MayCreate(run'[v])
    BY DEF MayCreate
  <2> QED
    BY <1>5, <2>1, <2>3, <2>4, <2>5 DEF SplitInv, At
<1> QED
  BY <1>5, <1>6 DEF SplitInv

LEMMA StepSplit ==
    ASSUME TInv, SplitInv, NEW w \in Workers, Step(w) \/ Fail(w)
    PROVE  SplitInv'
<1>1. /\ Course(w) /\ ~At(w, "idle")
      /\ hist' \in Hist /\ hist'.overlap = hist.overlap
      /\ anchorMap' = anchorMap \/ ~MayCreate(run'[w])
      /\ hist'.split = hist.split \/ (MayCreate(run[w]) /\ ~Unowned(Of(w)))
  BY StepCourse DEF SplitInv
<1>2. ASSUME ~hist.overlap
      PROVE  /\ hist'.split = {}
             /\ \A u, v \in Workers : ~At(u, "idle")' /\ ~At(v, "idle")' => u = v
             /\ \A v \in Workers : MayCreate(run[v])' => Unowned(Of(v))'
  <2>1. /\ hist.split = {} /\ (MayCreate(run[w]) => Unowned(Of(w)))
        /\ \A v \in Workers \ {w} : At(v, "idle")
    BY <1>1, <1>2 DEF SplitInv
  <2>2. \A v \in Workers \ {w} : run'[v] = run[v]
    BY <1>1 DEF Course
  <2>3. \A v \in Workers \ {w} : run'[v].pc = "idle" /\ ~MayCreate(run'[v])
    BY <2>1, <2>2 DEF TInv, TypeOK, MayCreate, At, NoTx
  <2>4. MayCreate(run'[w]) => Unowned(Of(w)) /\ run'[w].c = run[w].c /\ anchorMap' = anchorMap
    BY <1>1, <2>1 DEF Course, Of
  <2>5. MayCreate(run'[w]) => Unowned(Of(w))'
    BY <2>4 DEF Unowned, Owners, Of
  <2>6. \A v \in Workers : MayCreate(run[v])' <=> MayCreate(run'[v])
    BY DEF MayCreate
  <2> QED
    BY <1>1, <2>1, <2>3, <2>5, <2>6 DEF At
<1> QED
  BY <1>1, <1>2 DEF SplitInv

LEMMA NextSplit == TInv /\ SplitInv /\ [Next]_vars => SplitInv'
<1> SUFFICES ASSUME TInv, SplitInv, [Next]_vars PROVE SplitInv'
  OBVIOUS
<1>1. CASE Next
  BY <1>1, StepSplit, TakeSplit DEF Next
<1>2. CASE UNCHANGED vars
  BY <1>2 DEF vars, tables, SplitInv, At, MayCreate, Unowned, Owners, Of
<1> QED
  BY <1>1, <1>2

(* find_events_by_identity: as long as no two workers are under way at once, *)
(* a cluster that shares an anchor with an event that alone owns its anchors *)
(* ends in that event, whatever fails and is taken up again.                 *)
THEOREM SplitsNeedOverlap == Spec => []SplitNeedsOverlap
<1>1. SplitInv => SplitNeedsOverlap
  BY DEF SplitInv, SplitNeedsOverlap
<1> QED
  BY <1>1, InitSplit, NextSplit, InvariantTInv, PTL DEF Spec

-----------------------------------------------------------------------------
(* What cluster_records puts together.                                      *)

LEMMA SmallestSubset ==
    ASSUME NEW S, IsFiniteSet(S), NEW B \in SUBSET SUBSET S, B # {}
    PROVE  \E s \in B : \A u \in SUBSET s : u # s => u \notin B
<1>1. IsWellFoundedOn(StrictSubsetOrdering(S), SUBSET S)
  BY FS_StrictSubsetOrderingWellFounded, FS_FiniteSubsetsOfFinite
<1>2. PICK s \in B : \A u \in B : <<u, s>> \notin StrictSubsetOrdering(S)
  BY <1>1, WFMin
<1> QED
  BY <1>2 DEF StrictSubsetOrdering

(* No pair leads out of c. *)
Closed(c, pairs) == \A e \in pairs : e[1] \in c => e[2] \in c

LEMMA ComponentIsLeast ==
    ASSUME NEW S, NEW pairs, NEW c
    PROVE  c \in Components(S, pairs) <=>
              /\ c \in SUBSET S /\ c # {} /\ Closed(c, pairs)
              /\ \A d \in SUBSET c : d # {} /\ Closed(d, pairs) => d = c
  BY DEF Components, Closed

LEMMA ComponentsPartition ==
    ASSUME NEW S, IsFiniteSet(S), NEW pairs \in SUBSET (S \X S),
           \A x, y \in S : <<x, y>> \in pairs => <<y, x>> \in pairs
    PROVE  /\ \A x \in S : \E c \in Components(S, pairs) : x \in c
           /\ \A c, d \in Components(S, pairs) : c # d => c \cap d = {}
<1>1. ASSUME NEW x \in S PROVE \E c \in Components(S, pairs) : x \in c
  <2> DEFINE B == {c \in SUBSET S : x \in c /\ Closed(c, pairs)}
  <2>1. S \in B
    BY DEF Closed
  <2>2. PICK c \in B : \A u \in SUBSET c : u # c => u \notin B
    <3>1. B \in SUBSET SUBSET S
      OBVIOUS
    <3> HIDE DEF B
    <3> QED
      BY <2>1, <3>1, SmallestSubset
  <2>3. ASSUME NEW d \in SUBSET c, d # {}, Closed(d, pairs) PROVE d = c
    <3>1. CASE x \in d
      BY <2>2, <2>3, <3>1
    <3>2. CASE x \notin d
      <4>1. Closed(c \ d, pairs)
        <5> SUFFICES ASSUME NEW e \in pairs, e[1] \in c \ d PROVE e[2] \in c \ d
          BY DEF Closed
        <5>1. e[2] \in c
          BY <2>2 DEF Closed
        <5>2. PICK y, z \in S : e = <<y, z>>
          OBVIOUS
        <5>3. <<z, y>> \in pairs
          BY <5>2
        <5>4. z \in d => y \in d
          BY <2>3, <5>3 DEF Closed
        <5> QED
          BY <5>1, <5>2, <5>4
      <4>2. c \ d \in B
        BY <2>2, <3>2, <4>1
      <4> QED
        BY <2>2, <2>3, <4>2
    <3> QED
      BY <3>1, <3>2
  <2> QED
    BY <2>2, <2>3, ComponentIsLeast
<1>2. ASSUME NEW c \in Components(S, pairs), NEW d \in Components(S, pairs), c \cap d # {}
      PROVE  c = d
  <2>1. Closed(c \cap d, pairs)
    BY ComponentIsLeast DEF Closed
  <2> QED
    BY <1>2, <2>1, ComponentIsLeast
<1> QED
  BY <1>1, <1>2

Together(b, i, j) == Strong(b[i], b[j]) \/ Weak(b[i], b[j])

Pairs(b, S) == StrongPairs(b, S) \cup WeakPairs(b, S)

LEMMA PairsAreMutual ==
    ASSUME NEW b, NEW S
    PROVE  /\ Pairs(b, S) \in SUBSET (S \X S)
           /\ \A i, j \in S : <<i, j>> \in Pairs(b, S) <=> Together(b, i, j)
           /\ \A i, j \in S : <<i, j>> \in Pairs(b, S) => <<j, i>> \in Pairs(b, S)
<1>1. /\ Pairs(b, S) \in SUBSET (S \X S)
      /\ \A i, j \in S : <<i, j>> \in Pairs(b, S) <=> Together(b, i, j)
  BY DEF Pairs, StrongPairs, WeakPairs, Together
<1>2. \A i, j \in S : Together(b, i, j) => Together(b, j, i)
  <2>1. \A r, q : Strong(r, q) => Strong(q, r)
    BY DEF Strong
  <2>2. \A t, u : Similar(t, u) => Similar(u, t)
    <3>1. \A t, u : {t, u} = {u, t}
      OBVIOUS
    <3> QED
      BY <3>1 DEF Similar
  <2>3. \A r, q : Weak(r, q) => Weak(q, r)
    BY <2>2 DEF Weak
  <2> QED
    BY <2>1, <2>3 DEF Together
<1> QED
  BY <1>1, <1>2

LEMMA Several ==
    ASSUME NEW S, IsFiniteSet(S)
    PROVE  Cardinality(S) > 1 <=> \E x, y \in S : x # y
<1>1. Cardinality(S) \in Nat
  BY FS_CardinalityType
<1>2. Cardinality(S) = 0 <=> S = {}
  BY FS_EmptySet
<1>3. Cardinality(S) = 1 <=> \E x : S = {x}
  BY FS_Singleton
<1>4. Cardinality(S) > 1 <=> Cardinality(S) # 0 /\ Cardinality(S) # 1
  BY <1>1
<1> QED
  BY <1>2, <1>3, <1>4

LEMMA BatchIsFinite ==
    ASSUME NEW R, NEW b \in Seq(R)
    PROVE  IsFiniteSet(DOMAIN b) /\ \A S \in SUBSET DOMAIN b : IsFiniteSet(S)
<1>1. DOMAIN b = 1..Len(b) /\ Len(b) \in Nat
  OBVIOUS
<1>2. IsFiniteSet(1..Len(b))
  BY <1>1, FS_Interval
<1> QED
  BY <1>1, <1>2, FS_Subset

LEMMA GroupsAre ==
    ASSUME NEW R, NEW b \in Seq(R), NEW g
    PROVE  g \in Groups(b) <=>
              g \in Components(DOMAIN b, Pairs(b, DOMAIN b)) /\ \E i, j \in g : i # j
<1>1. ASSUME g \in Components(DOMAIN b, Pairs(b, DOMAIN b)) PROVE IsFiniteSet(g)
  BY <1>1, BatchIsFinite, ComponentIsLeast
<1>2. g \in Groups(b) <=>
          g \in Components(DOMAIN b, Pairs(b, DOMAIN b)) /\ Cardinality(g) > 1
  BY DEF Groups, Pairs
<1> QED
  BY <1>1, <1>2, Several

(* cluster_records: records that are alike, strongly or weakly, are in one  *)
(* cluster, no record is in two, and a cluster does not fall apart: between *)
(* any two parts of it there is a pair that joins them.                     *)
THEOREM ClustersPartitionTheBatch ==
    ASSUME NEW R, NEW b \in Seq(R)
    PROVE  /\ \A g, h \in Groups(b) : g # h => g \cap h = {}
           /\ \A i, j \in DOMAIN b :
                 i # j /\ Together(b, i, j) => \E g \in Groups(b) : i \in g /\ j \in g
           /\ \A g \in Groups(b) : \A h \in SUBSET g :
                 h # {} /\ h # g => \E i \in h, j \in g \ h : Together(b, i, j)
<1> DEFINE D == DOMAIN b
           Q == Pairs(b, D)
<1>1. IsFiniteSet(D)
  BY BatchIsFinite
<1>2. /\ Q \in SUBSET (D \X D)
      /\ \A i, j \in D : <<i, j>> \in Q <=> Together(b, i, j)
      /\ \A i, j \in D : <<i, j>> \in Q => <<j, i>> \in Q
  BY PairsAreMutual
<1>3. \A g : g \in Groups(b) <=> g \in Components(D, Q) /\ \E i, j \in g : i # j
  BY GroupsAre
<1> HIDE DEF D, Q
<1>4. /\ \A i \in D : \E c \in Components(D, Q) : i \in c
      /\ \A c, d \in Components(D, Q) : c # d => c \cap d = {}
  BY <1>1, <1>2, ComponentsPartition
<1>5. ASSUME NEW i \in D, NEW j \in D, i # j, Together(b, i, j)
      PROVE  \E g \in Groups(b) : i \in g /\ j \in g
  <2>1. PICK c \in Components(D, Q) : i \in c
    BY <1>4
  <2>2. <<i, j>> \in Q
    BY <1>2, <1>5
  <2>3. j \in c
    BY <2>1, <2>2, ComponentIsLeast DEF Closed
  <2> QED
    BY <1>3, <1>5, <2>1, <2>3
<1>6. ASSUME NEW g \in Groups(b), NEW h \in SUBSET g, h # {}, h # g
      PROVE  \E i \in h, j \in g \ h : Together(b, i, j)
  <2>1. g \in Components(D, Q)
    BY <1>3
  <2>2. g \in SUBSET D /\ Closed(g, Q) /\ ~Closed(h, Q)
    BY <1>6, <2>1, ComponentIsLeast
  <2>3. PICK e \in Q : e[1] \in h /\ e[2] \notin h
    BY <2>2 DEF Closed
  <2>4. PICK i, j \in D : e = <<i, j>>
    BY <1>2
  <2>5. i \in h /\ j \in g \ h
    BY <2>2, <2>3, <2>4 DEF Closed
  <2> QED
    BY <1>2, <2>3, <2>4, <2>5
<1> QED
  BY <1>3, <1>4, <1>5, <1>6 DEF D

-----------------------------------------------------------------------------
(* The order of a batch.  p says which record of the batch stands at a      *)
(* place of its reordering, q where a record of the batch has gone.         *)

Swaps(S, T, p, q) == /\ \A i \in T : p[i] \in S /\ q[p[i]] = i
                     /\ \A j \in S : q[j] \in T /\ p[q[j]] = j

Moved(c, q) == {q[j] : j \in c}

LEMMA MovedBack ==
    ASSUME NEW S, NEW T, NEW p, NEW q, Swaps(S, T, p, q), NEW c \in SUBSET S
    PROVE  /\ Moved(c, q) \in SUBSET T /\ Moved(Moved(c, q), p) = c
           /\ \A i \in T : i \in Moved(c, q) <=> p[i] \in c
  BY DEF Swaps, Moved

LEMMA MovedPart ==
    ASSUME NEW S, NEW T, NEW p, NEW q, Swaps(S, T, p, q), NEW c \in SUBSET S
    PROVE  Swaps(c, Moved(c, q), p, q)
  BY DEF Swaps, Moved

LEMMA ComponentMoves ==
    ASSUME NEW S, NEW T, NEW p, NEW q, Swaps(S, T, p, q),
           NEW P \in SUBSET (S \X S), NEW Q \in SUBSET (T \X T),
           \A i, j \in T : <<i, j>> \in Q <=> <<p[i], p[j]>> \in P,
           NEW c \in Components(S, P)
    PROVE  Moved(c, q) \in Components(T, Q)
<1>1. /\ c \in SUBSET S /\ c # {} /\ Closed(c, P)
      /\ \A d \in SUBSET c : d # {} /\ Closed(d, P) => d = c
  BY ComponentIsLeast
<1>2. /\ Moved(c, q) \in SUBSET T /\ Moved(c, q) # {}
      /\ \A i \in T : i \in Moved(c, q) <=> p[i] \in c
  <2>1. Moved(c, q) # {}
    BY <1>1 DEF Moved
  <2> QED
    BY <1>1, <2>1, MovedBack
<1>3. Closed(Moved(c, q), Q)
  <2> SUFFICES ASSUME NEW e \in Q, e[1] \in Moved(c, q) PROVE e[2] \in Moved(c, q)
    BY DEF Closed
  <2>1. PICK i, j \in T : e = <<i, j>>
    OBVIOUS
  <2>2. <<p[i], p[j]>> \in P /\ p[i] \in c
    BY <1>2, <2>1
  <2>3. p[j] \in c
    BY <1>1, <2>2 DEF Closed
  <2> QED
    BY <1>2, <2>1, <2>3
<1>4. ASSUME NEW d \in SUBSET Moved(c, q), d # {}, Closed(d, Q) PROVE d = Moved(c, q)
  <2>1. d \in SUBSET T /\ Swaps(T, S, q, p)
    BY <1>2 DEF Swaps
  <2>2. /\ Moved(d, p) \in SUBSET S /\ Moved(Moved(d, p), q) = d
        /\ \A j \in S : j \in Moved(d, p) <=> q[j] \in d
    BY <2>1, MovedBack
  <2>3. Closed(Moved(d, p), P)
    <3> SUFFICES ASSUME NEW e \in P, e[1] \in Moved(d, p) PROVE e[2] \in Moved(d, p)
      BY DEF Closed
    <3>1. PICK i, j \in S : e = <<i, j>>
      OBVIOUS
    <3>2. q[i] \in T /\ q[j] \in T /\ p[q[i]] = i /\ p[q[j]] = j
      BY DEF Swaps
    <3>3. <<q[i], q[j]>> \in Q /\ q[i] \in d
      BY <2>2, <3>1, <3>2
    <3>4. q[j] \in d
      BY <1>4, <3>3 DEF Closed
    <3> QED
      BY <2>2, <3>1, <3>4
  <2>4. Moved(d, p) # {} /\ Moved(d, p) \subseteq c
    BY <1>1, <1>2, <1>4, <2>2 DEF Moved
  <2>5. Moved(d, p) = c
    BY <1>1, <2>3, <2>4
  <2> QED
    BY <2>2, <2>5
<1> QED
  BY <1>2, <1>3, <1>4, ComponentIsLeast

(* r is the batch b in another order. *)
Reordered(b, r, p, q) ==
    /\ DOMAIN r = DOMAIN b /\ Swaps(DOMAIN b, DOMAIN b, p, q)
    /\ \A i \in DOMAIN b : r[i] = b[p[i]]

LEMMA ReorderedBack ==
    ASSUME NEW b, NEW r, NEW p, NEW q, Reordered(b, r, p, q)
    PROVE  Reordered(r, b, q, p)
  BY DEF Reordered, Swaps

LEMMA GroupMoves ==
    ASSUME NEW R, NEW b \in Seq(R), NEW r \in Seq(R), NEW p, NEW q, Reordered(b, r, p, q),
           NEW g \in Groups(b)
    PROVE  /\ g \in SUBSET DOMAIN b /\ Moved(g, q) \in Groups(r)
           /\ KeysOf(r, Moved(g, q)) = KeysOf(b, g)
           /\ IsStrong(r, Moved(g, q)) = IsStrong(b, g)
<1> DEFINE D == DOMAIN b
           h == Moved(g, q)
<1>1. DOMAIN r = D /\ Swaps(D, D, p, q) /\ \A i \in D : r[i] = b[p[i]]
  BY DEF Reordered
<1>2. g \in Components(D, Pairs(b, D)) /\ \E i, j \in g : i # j
  BY GroupsAre
<1>3. g \in SUBSET D
  BY <1>2, ComponentIsLeast
<1> HIDE DEF D
<1>4. h \in SUBSET D /\ \A j \in g : q[j] \in h /\ q[j] \in D /\ r[q[j]] = b[j] /\ p[q[j]] = j
  BY <1>1, <1>3 DEF Swaps, Moved
<1>5. \A i \in h : i \in D /\ p[i] \in g /\ q[p[i]] = i /\ r[i] = b[p[i]]
  <2>1. \A i \in D : i \in h <=> p[i] \in g
    BY <1>1, <1>3, MovedBack
  <2> QED
    BY <1>1, <1>4, <2>1 DEF Swaps
<1>6. h \in Components(D, Pairs(r, D))
  <2>1. \A i, j \in D : <<i, j>> \in Pairs(r, D) <=> <<p[i], p[j]>> \in Pairs(b, D)
    <3> SUFFICES ASSUME NEW i \in D, NEW j \in D
                 PROVE  <<i, j>> \in Pairs(r, D) <=> <<p[i], p[j]>> \in Pairs(b, D)
      OBVIOUS
    <3>1. p[i] \in D /\ p[j] \in D /\ r[i] = b[p[i]] /\ r[j] = b[p[j]]
      BY <1>1 DEF Swaps
    <3>2. Together(r, i, j) <=> Together(b, p[i], p[j])
      BY <3>1 DEF Together
    <3>3. <<i, j>> \in Pairs(r, D) <=> Together(r, i, j)
      BY PairsAreMutual
    <3>4. <<p[i], p[j]>> \in Pairs(b, D) <=> Together(b, p[i], p[j])
      BY <3>1, PairsAreMutual
    <3> QED
      BY <3>2, <3>3, <3>4
  <2>2. Pairs(b, D) \in SUBSET (D \X D) /\ Pairs(r, D) \in SUBSET (D \X D)
    BY PairsAreMutual
  <2> QED
    BY <1>1, <1>2, <2>1, <2>2, ComponentMoves
<1>7. \E i, j \in h : i # j
  BY <1>2, <1>4
<1>8. h \in Groups(r)
  BY <1>1, <1>6, <1>7, GroupsAre
<1>9. KeysOf(r, h) = KeysOf(b, g)
  BY <1>4, <1>5 DEF KeysOf
<1>10. IsStrong(r, h) <=> IsStrong(b, g)
  BY <1>4, <1>5 DEF IsStrong
<1>11. IsStrong(r, h) \in BOOLEAN /\ IsStrong(b, g) \in BOOLEAN
  BY DEF IsStrong
<1>12. IsStrong(r, h) = IsStrong(b, g)
  BY <1>10, <1>11
<1> QED
  BY <1>3, <1>8, <1>9, <1>12 DEF D

(* cluster_records: which records are put together, and whether by a strong *)
(* key, does not depend on the order in which the batch is read.            *)
THEOREM ClustersIgnoreOrder ==
    ASSUME NEW R, NEW b \in Seq(R), NEW r \in Seq(R), NEW p, NEW q, Reordered(b, r, p, q)
    PROVE  {<<KeysOf(r, g), IsStrong(r, g)>> : g \in Groups(r)}
         = {<<KeysOf(b, g), IsStrong(b, g)>> : g \in Groups(b)}
<1>1. \A g \in Groups(b) : /\ Moved(g, q) \in Groups(r)
                           /\ KeysOf(r, Moved(g, q)) = KeysOf(b, g)
                           /\ IsStrong(r, Moved(g, q)) = IsStrong(b, g)
  BY GroupMoves
<1>2. Reordered(r, b, q, p)
  BY ReorderedBack
<1>3. \A g \in Groups(r) : /\ Moved(g, p) \in Groups(b)
                           /\ KeysOf(b, Moved(g, p)) = KeysOf(r, g)
                           /\ IsStrong(b, Moved(g, p)) = IsStrong(r, g)
  BY <1>2, GroupMoves
<1>4. \A g \in Groups(b) : \E h \in Groups(r) :
          <<KeysOf(b, g), IsStrong(b, g)>> = <<KeysOf(r, h), IsStrong(r, h)>>
  BY <1>1
<1>5. \A h \in Groups(r) : \E g \in Groups(b) :
          <<KeysOf(r, h), IsStrong(r, h)>> = <<KeysOf(b, g), IsStrong(b, g)>>
  BY <1>3
<1> QED
  BY <1>4, <1>5

-----------------------------------------------------------------------------
(* The core of a cluster, when no two records of the batch have one key     *)
(* (MCEventTimeline has a batch with ties in which the order is seen).      *)

(* Every record of S has a key, which no other record of the batch has. *)
OneRecordPerKey(b, S) ==
    \A j \in S : /\ KeyOf(b[j]) \in Range(KeyOrder)
                 /\ \A i \in DOMAIN b : i # j => KeyOf(b[i]) # KeyOf(b[j])

LEMMA ReorderedIsOnePerKey ==
    ASSUME NEW R, NEW b \in Seq(R), NEW r \in Seq(R), NEW p, NEW q, Reordered(b, r, p, q),
           NEW S \in SUBSET DOMAIN b, OneRecordPerKey(b, S)
    PROVE  Moved(S, q) \in SUBSET DOMAIN r /\ OneRecordPerKey(r, Moved(S, q))
<1> DEFINE D == DOMAIN b
           T == Moved(S, q)
<1>1. /\ DOMAIN r = D /\ Swaps(D, D, p, q)
      /\ \A i \in D : p[i] \in D /\ q[p[i]] = i /\ r[i] = b[p[i]]
  BY DEF Reordered, Swaps
<1>2. S \in SUBSET D /\ \A j \in S : /\ KeyOf(b[j]) \in Range(KeyOrder)
                                     /\ \A i \in D : i # j => KeyOf(b[i]) # KeyOf(b[j])
  BY DEF OneRecordPerKey
<1> HIDE DEF D
<1>3. T \in SUBSET D /\ \A i \in D : i \in T <=> p[i] \in S
  BY <1>1, <1>2, MovedBack
<1> HIDE DEF T
<1>4. ASSUME NEW j \in T
      PROVE  /\ KeyOf(r[j]) \in Range(KeyOrder)
             /\ \A i \in D : i # j => KeyOf(r[i]) # KeyOf(r[j])
  <2>1. j \in D /\ p[j] \in S /\ r[j] = b[p[j]]
    BY <1>1, <1>3
  <2>2. ASSUME NEW i \in D, i # j PROVE KeyOf(r[i]) # KeyOf(r[j])
    <3>1. p[i] \in D /\ p[i] # p[j] /\ r[i] = b[p[i]]
      BY <1>1, <2>1, <2>2
    <3> QED
      BY <1>2, <2>1, <3>1
  <2> QED
    BY <1>2, <2>1, <2>2
<1> QED
  BY <1>1, <1>3, <1>4 DEF OneRecordPerKey, T

LEMMA RanksDiffer ==
    ASSUME NEW R, NEW b \in Seq(R), NEW S \in SUBSET DOMAIN b, OneRecordPerKey(b, S)
    PROVE  /\ \A i \in S : Rank(KeyOf(b[i])) \in Nat
           /\ \A i, j \in S : i # j => Rank(KeyOf(b[i])) # Rank(KeyOf(b[j]))
<1>1. ASSUME NEW k \in Range(KeyOrder)
      PROVE  Rank(k) \in Nat /\ KeyOrder[Rank(k)] = k
  <2>1. \E n \in DOMAIN KeyOrder : KeyOrder[n] = k
    BY DEF Range
  <2>2. Rank(k) \in DOMAIN KeyOrder /\ KeyOrder[Rank(k)] = k
    BY <2>1 DEF Rank
  <2>3. DOMAIN KeyOrder = 1..Len(KeyOrder)
    BY KeyOrderAssumption
  <2> QED
    BY <2>2, <2>3
<1>2. ASSUME NEW i \in S, NEW j \in S, i # j PROVE Rank(KeyOf(b[i])) # Rank(KeyOf(b[j]))
  <2>1. /\ KeyOf(b[i]) \in Range(KeyOrder) /\ KeyOf(b[j]) \in Range(KeyOrder)
        /\ KeyOf(b[i]) # KeyOf(b[j])
    BY <1>2 DEF OneRecordPerKey
  <2> QED
    BY <1>1, <2>1
<1> QED
  BY <1>1, <1>2 DEF OneRecordPerKey

LEMMA LeastNat ==
    ASSUME NEW N \in SUBSET Nat, N # {}
    PROVE  \E n \in N : \A m \in N : n <= m
<1>1. PICK n \in N : \A m \in N : <<m, n>> \notin OpToRel(<, Nat)
  BY NatLessThanWellFounded, WFMin
<1>2. \A m \in N : ~(m < n)
  BY <1>1 DEF OpToRel
<1> QED
  BY <1>2

LEMMA FirstIs ==
    ASSUME NEW R, NEW b \in Seq(R), NEW S \in SUBSET DOMAIN b, OneRecordPerKey(b, S),
           NEW c \in SUBSET S, c # {}
    PROVE  /\ First(b, c) \in c
           /\ \A j \in c \ {First(b, c)} : Rank(KeyOf(b[First(b, c)])) < Rank(KeyOf(b[j]))
           /\ \A i \in c : (\A j \in c \ {i} : Rank(KeyOf(b[i])) < Rank(KeyOf(b[j])))
                             => i = First(b, c)
<1> DEFINE rk(i) == Rank(KeyOf(b[i]))
<1>1. /\ \A i \in c : rk(i) \in Nat
      /\ \A i, j \in c : i # j => rk(i) # rk(j)
  BY RanksDiffer
<1>2. First(b, c) = CHOOSE i \in c : \A j \in c \ {i} : rk(i) < rk(j) \/ (rk(i) = rk(j) /\ i < j)
  BY DEF First, Before
<1> HIDE DEF rk
<1>3. PICK n \in {rk(i) : i \in c} : \A m \in {rk(i) : i \in c} : n <= m
  <2>1. {rk(i) : i \in c} \in SUBSET Nat /\ {rk(i) : i \in c} # {}
    BY <1>1
  <2> QED
    BY <2>1, LeastNat
<1>4. PICK i \in c : rk(i) = n
  BY <1>3
<1>5. ASSUME NEW j \in c \ {i} PROVE rk(i) < rk(j)
  <2>1. rk(i) \in Nat /\ rk(j) \in Nat /\ rk(i) # rk(j)
    BY <1>1
  <2>2. rk(i) <= rk(j)
    BY <1>3, <1>4
  <2> QED
    BY <2>1, <2>2
<1>6. /\ First(b, c) \in c
      /\ \A j \in c \ {First(b, c)} : \/ rk(First(b, c)) < rk(j)
                                      \/ rk(First(b, c)) = rk(j) /\ First(b, c) < j
  BY <1>2, <1>5
<1>7. \A j \in c \ {First(b, c)} : rk(First(b, c)) < rk(j)
  BY <1>1, <1>6
<1>8. ASSUME NEW j \in c, \A k \in c \ {j} : rk(j) < rk(k) PROVE j = First(b, c)
  BY <1>1, <1>6, <1>7, <1>8
<1> QED
  BY <1>6, <1>7, <1>8 DEF rk

LEMMA FirstMoves ==
    ASSUME NEW R, NEW b \in Seq(R), NEW r \in Seq(R), NEW p, NEW q, Reordered(b, r, p, q),
           NEW S \in SUBSET DOMAIN b, OneRecordPerKey(b, S), NEW c \in SUBSET S, c # {}
    PROVE  First(r, Moved(c, q)) = q[First(b, c)]
<1> DEFINE h == Moved(c, q)
           f == First(b, c)
<1>1. /\ h \in SUBSET Moved(S, q) /\ h # {}
      /\ \A j \in c : q[j] \in h /\ r[q[j]] = b[j]
  <2>1. \A j \in c : q[j] \in DOMAIN r /\ p[q[j]] = j
    BY DEF Reordered, Swaps
  <2>2. \A j \in c : r[q[j]] = b[j]
    BY <2>1 DEF Reordered
  <2> QED
    BY <2>1, <2>2 DEF Moved
<1>2. f \in c /\ \A j \in c \ {f} : Rank(KeyOf(b[f])) < Rank(KeyOf(b[j]))
  BY FirstIs
<1>3. \A i \in h : \E j \in c : i = q[j]
  BY DEF Moved
<1> HIDE DEF h, f
<1>4. q[f] \in h
  BY <1>1, <1>2
<1>5. ASSUME NEW i \in h \ {q[f]} PROVE Rank(KeyOf(r[q[f]])) < Rank(KeyOf(r[i]))
  <2>1. PICK j \in c : i = q[j]
    BY <1>3
  <2>2. j # f /\ r[i] = b[j] /\ r[q[f]] = b[f]
    BY <1>1, <1>2, <1>5, <2>1
  <2> QED
    BY <1>2, <2>2
<1>6. \A i \in h : (\A j \in h \ {i} : Rank(KeyOf(r[i])) < Rank(KeyOf(r[j]))) => i = First(r, h)
  <2>1. Moved(S, q) \in SUBSET DOMAIN r /\ OneRecordPerKey(r, Moved(S, q))
    BY ReorderedIsOnePerKey
  <2> QED
    BY <1>1, <2>1, FirstIs
<1> QED
  BY <1>4, <1>5, <1>6 DEF h, f

LEMMA GreatestNat ==
    ASSUME NEW N \in SUBSET Nat, N # {}, NEW bound \in Nat, \A n \in N : n <= bound
    PROVE  \E n \in N : \A m \in N : m <= n
<1> DEFINE M == {bound - n : n \in N}
<1>1. M \in SUBSET Nat /\ M # {}
  <2>1. \A n \in N : bound - n \in Nat
    OBVIOUS
  <2> QED
    BY <2>1
<1>2. PICK k \in M : \A m \in M : k <= m
  <2> HIDE DEF M
  <2> QED
    BY <1>1, LeastNat
<1>3. PICK n \in N : k = bound - n
  OBVIOUS
<1>4. ASSUME NEW m \in N PROVE m <= n
  <2>1. k <= bound - m
    BY <1>2
  <2> QED
    BY <1>3, <2>1
<1> QED
  BY <1>4

(* The components of the strong keys alone, in a part of the batch. *)
LEMMA PartsOf ==
    ASSUME NEW R, NEW b \in Seq(R), NEW g \in SUBSET DOMAIN b, g # {}
    PROVE  /\ Components(g, StrongPairs(b, g)) # {}
           /\ \A c \in Components(g, StrongPairs(b, g)) :
                 /\ c \in SUBSET g /\ c # {} /\ Cardinality(c) \in Nat
                 /\ Cardinality(c) <= Cardinality(g)
           /\ \A c, d \in Components(g, StrongPairs(b, g)) : c # d => c \cap d = {}
<1> DEFINE P == StrongPairs(b, g)
<1>1. IsFiniteSet(g) /\ \A c \in SUBSET g : IsFiniteSet(c)
  BY BatchIsFinite
<1>2. P \in SUBSET (g \X g) /\ \A x, y \in g : <<x, y>> \in P => <<y, x>> \in P
  BY DEF StrongPairs, Strong
<1> HIDE DEF P
<1>3. /\ \A x \in g : \E c \in Components(g, P) : x \in c
      /\ \A c, d \in Components(g, P) : c # d => c \cap d = {}
  BY <1>1, <1>2, ComponentsPartition
<1>4. ASSUME NEW c \in Components(g, P)
      PROVE  c \in SUBSET g /\ c # {} /\ Cardinality(c) \in Nat /\ Cardinality(c) <= Cardinality(g)
  <2>1. c \in SUBSET g /\ c # {}
    BY ComponentIsLeast
  <2> QED
    BY <1>1, <2>1, FS_Subset, FS_CardinalityType
<1> QED
  BY <1>3, <1>4 DEF P

LEMMA OneBestPart ==
    ASSUME NEW R, NEW b \in Seq(R), NEW g \in SUBSET DOMAIN b, OneRecordPerKey(b, g),
           NEW c \in Components(g, StrongPairs(b, g)), NEW d \in Components(g, StrongPairs(b, g)),
           Precedes(b, c, d), Precedes(b, d, c)
    PROVE  c = d
<1>1. c # {} /\ d # {} /\ c \in SUBSET g /\ d \in SUBSET g
  BY ComponentIsLeast
<1>2. SUFFICES ASSUME c # d PROVE FALSE
  OBVIOUS
<1>3. c \cap d = {} /\ Cardinality(c) \in Nat /\ Cardinality(d) \in Nat
  <2>1. g # {}
    BY <1>1
  <2> QED
    BY <1>2, <2>1, PartsOf
<1>4. Cardinality(c) = Cardinality(d)
  BY <1>3 DEF Precedes
<1>5. c \cup d = d \cup c /\ First(b, c \cup d) \in c /\ First(b, d \cup c) \in d
  BY <1>3, <1>4 DEF Precedes
<1> QED
  BY <1>3, <1>5

LEMMA ABestPart ==
    ASSUME NEW R, NEW b \in Seq(R), NEW g \in SUBSET DOMAIN b, OneRecordPerKey(b, g), g # {}
    PROVE  \E c \in Components(g, StrongPairs(b, g)) :
              \A d \in Components(g, StrongPairs(b, g)) \ {c} : Precedes(b, c, d)
<1> DEFINE parts == Components(g, StrongPairs(b, g))
           sizes == {Cardinality(c) : c \in parts}
<1>1. /\ parts # {}
      /\ \A c \in parts : /\ c \in SUBSET g /\ c # {} /\ Cardinality(c) \in Nat
                          /\ Cardinality(c) <= Cardinality(g)
      /\ \A c, d \in parts : c # d => c \cap d = {}
  BY PartsOf
<1>2. Cardinality(g) \in Nat
  BY BatchIsFinite, FS_CardinalityType
<1> HIDE DEF parts
<1>3. PICK size \in sizes : \A n \in sizes : n <= size
  <2>1. sizes \in SUBSET Nat /\ sizes # {} /\ \A n \in sizes : n <= Cardinality(g)
    BY <1>1
  <2> HIDE DEF sizes
  <2> QED
    BY <1>2, <2>1, GreatestNat
<1> DEFINE large == {c \in parts : Cardinality(c) = size}
           fit == {c \in large : HasPublishable(b, c)}
           best == IF fit # {} THEN fit ELSE large
<1>4. best # {} /\ best \subseteq large /\ large \subseteq parts
  BY <1>3
<1>5. UNION best \in SUBSET g /\ UNION best # {}
  BY <1>1, <1>4
<1>6. PICK c \in best : First(b, UNION best) \in c
  <2> DEFINE all == UNION best
  <2>1. all \in SUBSET g /\ all # {}
    BY <1>5
  <2> HIDE DEF all
  <2>2. First(b, all) \in all
    BY <2>1, FirstIs
  <2> QED
    BY <2>2 DEF all
<1>7. ASSUME NEW d \in parts \ {c} PROVE Precedes(b, c, d)
  <2>1. Cardinality(c) = size /\ Cardinality(d) \in Nat /\ size \in Nat /\ Cardinality(d) <= size
    BY <1>1, <1>3, <1>4, <1>6
  <2>2. CASE Cardinality(d) # size
    BY <2>1, <2>2 DEF Precedes
  <2>3. CASE Cardinality(d) = size
    <3>1. HasPublishable(b, d) => HasPublishable(b, c)
      BY <1>6, <2>3
    <3>2. CASE HasPublishable(b, c) /\ ~HasPublishable(b, d)
      BY <2>1, <2>3, <3>2 DEF Precedes
    <3>3. CASE HasPublishable(b, c) <=> HasPublishable(b, d)
      <4>1. d \in best
        BY <1>6, <2>3, <3>3
      <4> DEFINE f == First(b, UNION best)
                 both == c \cup d
      <4>2. f \in c /\ \A j \in (UNION best) \ {f} : Rank(KeyOf(b[f])) < Rank(KeyOf(b[j]))
        <5> DEFINE all == UNION best
        <5>1. all \in SUBSET g /\ all # {}
          BY <1>5
        <5> HIDE DEF all
        <5>2. \A j \in all \ {First(b, all)} : Rank(KeyOf(b[First(b, all)])) < Rank(KeyOf(b[j]))
          BY <5>1, FirstIs
        <5> QED
          BY <1>6, <5>2 DEF all
      <4>3. both \in SUBSET (UNION best) /\ both \in SUBSET g /\ both # {} /\ f \in both
        <5> HIDE DEF best, f
        <5> QED
          BY <1>5, <1>6, <4>1, <4>2
      <4> HIDE DEF best, f, both
      <4>4. f = First(b, both)
        BY <4>2, <4>3, FirstIs
      <4>5. First(b, c \cup d) \in c
        BY <4>2, <4>4 DEF both
      <4>6. HasPublishable(b, c) \in BOOLEAN /\ HasPublishable(b, d) \in BOOLEAN
        BY DEF HasPublishable
      <4>7. HasPublishable(b, c) = HasPublishable(b, d)
        BY <3>3, <4>6
      <4> QED
        BY <2>1, <2>3, <4>5, <4>7 DEF Precedes
    <3> QED
      BY <3>1, <3>2, <3>3
  <2> QED
    BY <2>2, <2>3
<1>8. c \in parts
  BY <1>4, <1>6
<1> QED
  BY <1>7, <1>8 DEF parts

LEMMA CoreIs ==
    ASSUME NEW R, NEW b \in Seq(R), NEW g \in SUBSET DOMAIN b, OneRecordPerKey(b, g), g # {}
    PROVE  /\ Core(b, g) \in Components(g, StrongPairs(b, g))
           /\ \A d \in Components(g, StrongPairs(b, g)) \ {Core(b, g)} : Precedes(b, Core(b, g), d)
           /\ \A c \in Components(g, StrongPairs(b, g)) :
                 (\A d \in Components(g, StrongPairs(b, g)) \ {c} : Precedes(b, c, d))
                 => c = Core(b, g)
<1> DEFINE parts == Components(g, StrongPairs(b, g))
<1>1. \E c \in parts : \A d \in parts \ {c} : Precedes(b, c, d)
  BY ABestPart
<1>2. Core(b, g) = CHOOSE c \in parts : \A d \in parts \ {c} : Precedes(b, c, d)
  BY DEF Core
<1>3. \A c, d \in parts : Precedes(b, c, d) /\ Precedes(b, d, c) => c = d
  BY OneBestPart
<1> HIDE DEF parts
<1>4. Core(b, g) \in parts /\ \A d \in parts \ {Core(b, g)} : Precedes(b, Core(b, g), d)
  BY <1>1, <1>2
<1>5. ASSUME NEW c \in parts, \A d \in parts \ {c} : Precedes(b, c, d) PROVE c = Core(b, g)
  BY <1>3, <1>4, <1>5
<1> QED
  BY <1>4, <1>5 DEF parts

LEMMA PrecedesMoves ==
    ASSUME NEW R, NEW b \in Seq(R), NEW r \in Seq(R), NEW p, NEW q, Reordered(b, r, p, q),
           NEW S \in SUBSET DOMAIN b, OneRecordPerKey(b, S),
           NEW c \in SUBSET S, NEW d \in SUBSET S, c # {}
    PROVE  Precedes(r, Moved(c, q), Moved(d, q)) <=> Precedes(b, c, d)
<1> DEFINE D == DOMAIN b
<1>1. DOMAIN r = D /\ Swaps(D, D, p, q) /\ \A i \in D : r[i] = b[p[i]]
  BY DEF Reordered
<1>2. \A i \in D : q[i] \in D /\ p[q[i]] = i /\ r[q[i]] = b[i]
  BY <1>1 DEF Swaps
<1> HIDE DEF D
<1>3. ASSUME NEW e \in SUBSET D
      PROVE  /\ Cardinality(Moved(e, q)) = Cardinality(e)
             /\ HasPublishable(r, Moved(e, q)) = HasPublishable(b, e)
  <2>1. Cardinality(Moved(e, q)) = Cardinality(e)
    <3> DEFINE f == [j \in e |-> q[j]]
    <3>1. f \in [e -> Moved(e, q)] /\ \A i \in Moved(e, q) : \E j \in e : f[j] = i
      BY DEF Moved
    <3>2. \A i, j \in e : f[i] = f[j] => i = j
      BY <1>2
    <3>3. IsInjective(f)
      BY <3>1, <3>2 DEF IsInjective
    <3>4. f \in Bijection(e, Moved(e, q))
      <4> HIDE DEF f
      <4> QED
        BY <3>1, <3>3 DEF Bijection, Injection, Surjection
    <3>5. IsFiniteSet(e)
      BY BatchIsFinite DEF D
    <3> QED
      BY <3>4, <3>5, FS_Bijection DEF ExistsBijection
  <2>2. HasPublishable(r, Moved(e, q)) <=> HasPublishable(b, e)
    <3>1. \A j \in e : q[j] \in Moved(e, q) /\ r[q[j]] = b[j]
      BY <1>2 DEF Moved
    <3>2. \A i \in Moved(e, q) : \E j \in e : i = q[j]
      BY DEF Moved
    <3>3. \A i \in Moved(e, q) : \E j \in e : r[i] = b[j]
      BY <3>1, <3>2
    <3> QED
      BY <3>1, <3>3 DEF HasPublishable
  <2>3. HasPublishable(r, Moved(e, q)) \in BOOLEAN /\ HasPublishable(b, e) \in BOOLEAN
    BY DEF HasPublishable
  <2> QED
    BY <2>1, <2>2, <2>3
<1>4. /\ Moved(c, q) \cup Moved(d, q) = Moved(c \cup d, q)
      /\ \A j \in D : q[j] \in Moved(c, q) <=> j \in c
  <2>1. Moved(c, q) \cup Moved(d, q) = Moved(c \cup d, q)
    BY DEF Moved
  <2>2. \A i, j \in D : q[i] = q[j] => i = j
    BY <1>2
  <2>3. c \in SUBSET D
    BY DEF D
  <2> QED
    BY <2>1, <2>2, <2>3 DEF Moved
<1>5. /\ First(r, Moved(c \cup d, q)) = q[First(b, c \cup d)]
      /\ First(b, c \cup d) \in D
  <2> DEFINE e == c \cup d
  <2>1. e \in SUBSET S /\ e # {}
    OBVIOUS
  <2> HIDE DEF e
  <2>2. First(r, Moved(e, q)) = q[First(b, e)] /\ First(b, e) \in e
    BY <2>1, FirstMoves, FirstIs
  <2> QED
    BY <2>1, <2>2 DEF e, D
<1>6. First(r, Moved(c, q) \cup Moved(d, q)) \in Moved(c, q) <=> First(b, c \cup d) \in c
  BY <1>4, <1>5
<1> QED
  BY <1>3, <1>6 DEF Precedes, D

LEMMA PartMoves ==
    ASSUME NEW R, NEW b \in Seq(R), NEW r \in Seq(R), NEW p, NEW q, Reordered(b, r, p, q),
           NEW g \in SUBSET DOMAIN b, NEW c \in Components(g, StrongPairs(b, g))
    PROVE  Moved(c, q) \in Components(Moved(g, q), StrongPairs(r, Moved(g, q)))
<1> DEFINE h == Moved(g, q)
<1>1. Swaps(DOMAIN b, DOMAIN b, p, q) /\ \A i \in DOMAIN b : r[i] = b[p[i]]
  BY DEF Reordered
<1>2. Swaps(g, h, p, q)
  BY <1>1, MovedPart
<1>3. h \in SUBSET DOMAIN b
  BY <1>1, MovedBack
<1> HIDE DEF h
<1>4. \A i, j \in h : <<i, j>> \in StrongPairs(r, h) <=> <<p[i], p[j]>> \in StrongPairs(b, g)
  <2> SUFFICES ASSUME NEW i \in h, NEW j \in h
               PROVE  <<i, j>> \in StrongPairs(r, h) <=> <<p[i], p[j]>> \in StrongPairs(b, g)
    OBVIOUS
  <2>1. p[i] \in g /\ p[j] \in g /\ r[i] = b[p[i]] /\ r[j] = b[p[j]]
    BY <1>1, <1>2, <1>3 DEF Swaps
  <2> QED
    BY <2>1 DEF StrongPairs
<1>5. StrongPairs(b, g) \in SUBSET (g \X g) /\ StrongPairs(r, h) \in SUBSET (h \X h)
  BY DEF StrongPairs
<1> QED
  BY <1>2, <1>4, <1>5, ComponentMoves DEF h

LEMMA CoreMoves ==
    ASSUME NEW R, NEW b \in Seq(R), NEW r \in Seq(R), NEW p, NEW q, Reordered(b, r, p, q),
           NEW g \in SUBSET DOMAIN b, OneRecordPerKey(b, g), g # {}
    PROVE  Core(r, Moved(g, q)) = Moved(Core(b, g), q) /\ Core(b, g) \in SUBSET g
<1> DEFINE h == Moved(g, q)
           parts == Components(g, StrongPairs(b, g))
           moved == Components(h, StrongPairs(r, h))
           c == Core(b, g)
<1>1. /\ c \in parts /\ \A d \in parts \ {c} : Precedes(b, c, d)
      /\ \A d \in parts : d \in SUBSET g /\ d # {}
  BY CoreIs, ComponentIsLeast
<1>2. /\ h \in SUBSET DOMAIN r /\ h # {} /\ Moved(h, p) = g
      /\ Swaps(DOMAIN b, DOMAIN b, p, q) /\ Swaps(DOMAIN b, DOMAIN b, q, p) /\ DOMAIN r = DOMAIN b
  <2>1. DOMAIN r = DOMAIN b /\ Swaps(DOMAIN b, DOMAIN b, p, q) /\ Swaps(DOMAIN b, DOMAIN b, q, p)
    BY DEF Reordered, Swaps
  <2>2. h # {}
    BY DEF Moved
  <2> QED
    BY <2>1, <2>2, MovedBack
<1>3. Moved(c, q) \in moved
  BY <1>1, PartMoves
<1>4. ASSUME NEW d \in moved \ {Moved(c, q)} PROVE Precedes(r, Moved(c, q), d)
  <2>1. Reordered(r, b, q, p)
    BY ReorderedBack
  <2>2. Moved(d, p) \in parts
    <3> HIDE DEF h
    <3>1. Moved(d, p) \in Components(Moved(h, p), StrongPairs(b, Moved(h, p)))
      BY <1>2, <2>1, PartMoves
    <3> QED
      BY <1>2, <3>1
  <2>3. d \in SUBSET h
    BY ComponentIsLeast
  <2>4. Moved(Moved(d, p), q) = d
    <3> HIDE DEF h
    <3>1. d \in SUBSET DOMAIN b
      BY <1>2, <2>3
    <3> QED
      BY <1>2, <3>1, MovedBack
  <2>5. Moved(d, p) # c
    BY <1>4, <2>4
  <2>6. Precedes(b, c, Moved(d, p))
    BY <1>1, <2>2, <2>5
  <2>7. c \in SUBSET g /\ c # {} /\ Moved(d, p) \in SUBSET g
    BY <1>1, <2>2
  <2> HIDE DEF c
  <2>8. Precedes(r, Moved(c, q), Moved(Moved(d, p), q))
    BY <2>6, <2>7, PrecedesMoves
  <2> QED
    BY <2>4, <2>8
<1>5. Moved(c, q) = Core(r, h)
  <2>1. OneRecordPerKey(r, h)
    BY ReorderedIsOnePerKey
  <2> HIDE DEF h, c
  <2> QED
    BY <1>2, <1>3, <1>4, <2>1, CoreIs
<1> QED
  BY <1>1, <1>5

LEMMA RecordStays ==
    ASSUME NEW R, NEW b \in Seq(R), NEW r \in Seq(R), NEW p, NEW q, Reordered(b, r, p, q),
           NEW g \in SUBSET DOMAIN b, OneRecordPerKey(b, g), NEW i \in g
    PROVE  RecordOf(b, KeyOf(b[i])) = b[i] /\ RecordOf(r, KeyOf(b[i])) = b[i]
<1>1. ASSUME NEW s \in Seq(R), NEW S \in SUBSET DOMAIN s, OneRecordPerKey(s, S), NEW j \in S
      PROVE  RecordOf(s, KeyOf(s[j])) = s[j]
  <2> DEFINE k == KeyOf(s[j])
             Is(i1) == KeyOf(s[i1]) = k /\ \A j1 \in 1..(i1 - 1) : KeyOf(s[j1]) # k
  <2>1. DOMAIN s = 1..Len(s)
    OBVIOUS
  <2>2. \A i1 \in DOMAIN s : KeyOf(s[i1]) = k => i1 = j
    BY <1>1 DEF OneRecordPerKey
  <2>3. Is(j)
    BY <2>1, <2>2
  <2>4. RecordOf(s, k) = s[CHOOSE i1 \in DOMAIN s : Is(i1)]
    BY DEF RecordOf
  <2>5. \A i1 \in DOMAIN s : Is(i1) => i1 = j
    BY <2>2
  <2> HIDE DEF Is
  <2>6. (CHOOSE i1 \in DOMAIN s : Is(i1)) = j
    BY <2>3, <2>5
  <2> QED
    BY <2>4, <2>6
<1>2. /\ DOMAIN r = DOMAIN b
      /\ \A j \in DOMAIN b : p[j] \in DOMAIN b /\ q[j] \in DOMAIN b /\ q[p[j]] = j /\ p[q[j]] = j
      /\ \A j \in DOMAIN b : r[j] = b[p[j]]
  BY DEF Reordered, Swaps
<1>3. Moved(g, q) \in SUBSET DOMAIN r /\ OneRecordPerKey(r, Moved(g, q))
  BY ReorderedIsOnePerKey
<1>4. q[i] \in Moved(g, q) /\ r[q[i]] = b[i]
  BY <1>2 DEF Moved
<1> QED
  BY <1>1, <1>3, <1>4

LEMMA CandidateMoves ==
    ASSUME NEW R, NEW b \in Seq(R), NEW r \in Seq(R), NEW p, NEW q, Reordered(b, r, p, q),
           NEW g \in Groups(b), OneRecordPerKey(b, g)
    PROVE  Moved(g, q) \in Groups(r) /\ Candidate(r, Moved(g, q)) = Candidate(b, g)
<1> DEFINE h == Moved(g, q)
<1>1. /\ g \in SUBSET DOMAIN b /\ g # {} /\ h \in Groups(r)
      /\ KeysOf(r, h) = KeysOf(b, g) /\ IsStrong(r, h) = IsStrong(b, g)
  <2>1. g # {}
    BY GroupsAre
  <2> QED
    BY <2>1, GroupMoves
<1>2. \A i, j \in DOMAIN b : q[i] = q[j] => i = j
  BY DEF Reordered, Swaps
<1>3. \A j \in g : r[q[j]] = b[j]
  <2>1. \A j \in g : q[j] \in DOMAIN b /\ p[q[j]] = j
    BY <1>1 DEF Reordered, Swaps
  <2> QED
    BY <2>1 DEF Reordered
<1>4. WeakOnly(r, h) = WeakOnly(b, g)
  <2> DEFINE c == Core(b, g)
  <2>1. Core(r, h) = Moved(c, q) /\ c \in SUBSET g
    BY <1>1, CoreMoves
  <2> HIDE DEF c
  <2>2. h \ Moved(c, q) = Moved(g \ c, q)
    BY <1>1, <1>2, <2>1 DEF Moved
  <2>3. KeysOf(r, Moved(g \ c, q)) = KeysOf(b, g \ c)
    <3>1. \A j \in g \ c : q[j] \in Moved(g \ c, q) /\ r[q[j]] = b[j]
      BY <1>3 DEF Moved
    <3>2. \A i \in Moved(g \ c, q) : \E j \in g \ c : i = q[j]
      BY DEF Moved
    <3>3. \A i \in Moved(g \ c, q) : \E j \in g \ c : r[i] = b[j]
      BY <3>1, <3>2
    <3> QED
      BY <3>1, <3>3 DEF KeysOf
  <2> QED
    BY <2>1, <2>2, <2>3 DEF WeakOnly, c
<1>5. CoreKeys(r, h) = CoreKeys(b, g)
  BY <1>1, <1>4 DEF CoreKeys
<1>6. \A k \in KeysOf(b, g) : RecordOf(r, k) = RecordOf(b, k)
  BY <1>1, RecordStays DEF KeysOf
<1>7. [k \in KeysOf(r, h) |-> RecordOf(r, k)] = [k \in KeysOf(b, g) |-> RecordOf(b, k)]
  BY <1>1, <1>6
<1> QED
  BY <1>1, <1>4, <1>5, <1>7 DEF Candidate

(* cluster_records, candidate_from_cluster: where every record of a cluster *)
(* has a key of its own, as after the deduplication of a cycle, the         *)
(* timeline is told the same whatever the order in which the batch is read, *)
(* the core, the face, the anchors and the fingerprints too.                *)
THEOREM CandidatesIgnoreOrder ==
    ASSUME NEW R, NEW b \in Seq(R), NEW r \in Seq(R), NEW p, NEW q, Reordered(b, r, p, q),
           \A g \in Groups(b) : OneRecordPerKey(b, g)
    PROVE  CandidatesOf(r) = CandidatesOf(b)
<1>1. Reordered(r, b, q, p)
  BY ReorderedBack
<1>2. \A g \in Groups(b) : Moved(g, q) \in Groups(r) /\ Candidate(r, Moved(g, q)) = Candidate(b, g)
  BY CandidateMoves
<1>3. ASSUME NEW h \in Groups(r) PROVE \E g \in Groups(b) : Candidate(r, h) = Candidate(b, g)
  <2> DEFINE g == Moved(h, p)
  <2>1. g \in Groups(b) /\ h \in SUBSET DOMAIN b
    BY <1>1, GroupMoves DEF Reordered
  <2>2. Moved(g, q) = h
    <3>1. Swaps(DOMAIN b, DOMAIN b, q, p)
      BY <1>1 DEF Reordered
    <3> QED
      BY <2>1, <3>1, MovedBack
  <2> QED
    BY <1>2, <2>1, <2>2
<1>4. \A g \in Groups(b) : \E h \in Groups(r) : Candidate(b, g) = Candidate(r, h)
  BY <1>2
<1> QED
  BY <1>3, <1>4 DEF CandidatesOf
=============================================================================
