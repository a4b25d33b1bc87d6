------------------------ MODULE CycleDeliveryProofs ------------------------
(***************************************************************************)
(* What holds of CycleDelivery for every set of records, keys and hashes,  *)
(* every number of cycles at once, of failures and of crashes.             *)
(***************************************************************************)
EXTENDS CycleDelivery, TLAPS, FiniteSetTheorems, WellFoundedInduction

-----------------------------------------------------------------------------
(* Types. *)

LEMMA KeysAreKeys == \A S \in SUBSET Records : KeysOf(S) \in SUBSET Keys
  BY DeliveryAssumption DEF KeysOf

LEMMA TypeStep ==
    ASSUME TypeOK, [Next]_vars
    PROVE  TypeOK'
<1> USE DEF TypeOK
<1>1. ASSUME NEW w \in Runners, Collect(w) PROVE TypeOK'
  <2>1. PICK got \in SUBSET Records, written \in SUBSET Records, blind \in BOOLEAN :
            /\ run' = [run EXCEPT ![w] = [Idle EXCEPT !.pc = "queue", !.blind = blind,
                        !.seen = Loaded(blind) \cup KeysOf(got),
                        !.written = written, !.todo = written]]
            /\ hist' = [hist EXCEPT !.cycles = hist.cycles + 1,
                    !.overlaps = IF \E v \in Runners : run[v].pc # "idle"
                                 THEN hist.overlaps + 1 ELSE hist.overlaps,
                    !.unread = IF blind THEN hist.unread + 1 ELSE hist.unread]
    BY <1>1 DEF Collect
  <2>2. Loaded(blind) \cup KeysOf(got) \in SUBSET Keys
    BY KeysAreKeys DEF Loaded
  <2>3. run' \in [Runners -> Cycle]
    BY <2>1, <2>2 DEF Idle, Cycle
  <2>4. hist' \in [cycles : Nat, crashes : Nat, overlaps : Nat, unread : Nat]
    <3> DEFINE more == IF \E v \in Runners : run[v].pc # "idle"
                       THEN hist.overlaps + 1 ELSE hist.overlaps
               missed == IF blind THEN hist.unread + 1 ELSE hist.unread
    <3>1. hist' = [hist EXCEPT !.cycles = hist.cycles + 1, !.overlaps = more,
                               !.unread = missed]
      BY <2>1
    <3>2. hist.cycles + 1 \in Nat /\ more \in Nat /\ missed \in Nat
      OBVIOUS
    <3>3. hist \in [cycles : Nat, crashes : Nat, overlaps : Nat, unread : Nat]
      OBVIOUS
    <3> HIDE DEF more, missed, TypeOK
    <3> QED
      BY <3>1, <3>2, <3>3
  <2> QED
    BY <1>1, <2>3, <2>4 DEF Collect
<1>2. ASSUME NEW w \in Runners, Append(w) PROVE TypeOK'
  <2>1. PICK lines \in SUBSET run[w].written, failed \in BOOLEAN :
            /\ queue' = [r \in Records |-> IF r \in lines THEN queue[r] + 1 ELSE queue[r]]
            /\ run' = [run EXCEPT ![w] = [@ EXCEPT !.pc = "bridge", !.queueFailed = failed]]
    BY <1>2 DEF Append
  <2>2. queue' \in [Records -> Nat]
    BY <2>1
  <2>3. [run[w] EXCEPT !.pc = "bridge", !.queueFailed = failed] \in Cycle
    <3>1. run[w] \in Cycle /\ failed \in BOOLEAN
      OBVIOUS
    <3> HIDE DEF TypeOK
    <3> QED
      BY <3>1 DEF Cycle
  <2>4. run' \in [Runners -> Cycle]
    BY <2>1, <2>3
  <2> QED
    BY <1>2, <2>2, <2>4 DEF Append
<1>3. ASSUME NEW w \in Runners, Bridge(w) PROVE TypeOK'
  <2>1. PICK r \in run[w].todo : NoCall(w, r) \/ PostFails(w, r) \/ Posted(w, r)
    BY <1>3 DEF Bridge
  <2>2. r \in Records
    BY DEF Cycle
  <2>3. HashOf[r] # NoUrl => HashOf[r] \in Hashes
    BY <2>2, DeliveryAssumption
  <2>4. rows' \in SUBSET Hashes
    BY <2>1, <2>3 DEF NoCall, PostFails, Posted
  <2>5. ASSUME NEW f \in SUBSET Records, NEW h \in SUBSET Hashes, Done(w, r, f, h)
        PROVE  run' \in [Runners -> Cycle]
    <3> DEFINE c == [run[w] EXCEPT !.todo = run[w].todo \ {r},
                                   !.rawFailed = run[w].rawFailed \cup f,
                                   !.hashes = run[w].hashes \cup h]
    <3>1. run[w] \in Cycle
      OBVIOUS
    <3>2. c \in Cycle
      BY <3>1 DEF Cycle
    <3>3. run' = [run EXCEPT ![w] = c]
      BY <2>5 DEF Done
    <3> HIDE DEF c
    <3> QED
      BY <3>2, <3>3
  <2>6. \E f \in SUBSET Records, h \in SUBSET Hashes : Done(w, r, f, h)
    <3> HIDE DEF TypeOK
    <3>1. {} \in SUBSET Records /\ {r} \in SUBSET Records /\ {} \in SUBSET Hashes
      BY <2>2
    <3>2. HashOf[r] # NoUrl => {HashOf[r]} \in SUBSET Hashes
      BY <2>3
    <3> QED
      BY <2>1, <3>1, <3>2 DEF NoCall, PostFails, Posted
  <2>7. run' \in [Runners -> Cycle]
    BY <2>5, <2>6
  <2> QED
    BY <1>3, <2>4, <2>7 DEF Bridge
<1>4. ASSUME NEW w \in Runners, Report(w) PROVE TypeOK'
  BY <1>4, SMTT(20) DEF Report, Cycle
<1>5. ASSUME NEW w \in Runners, SaveIndex(w) PROVE TypeOK'
  BY <1>5 DEF SaveIndex, Idle, Cycle
<1>6. ASSUME NEW w \in Runners, Crash(w) PROVE TypeOK'
  BY <1>6 DEF Crash, Idle, Cycle
<1>7. ASSUME UNCHANGED vars PROVE TypeOK'
  BY <1>7 DEF vars
<1> QED
  BY <1>1, <1>2, <1>3, <1>4, <1>5, <1>6, <1>7 DEF Next

(* Every variable keeps its type.                                          *)
THEOREM DeliveryTypes == Spec => []TypeOK
<1>1. Init => TypeOK
  BY DeliveryAssumption DEF Init, TypeOK, Idle, Cycle
<1> QED
  BY <1>1, TypeStep, PTL DEF Spec

-----------------------------------------------------------------------------
(* Where the records of a cycle in progress stand: each of its keys is     *)
(* settled already or stands for a record of the cycle; the queue, then    *)
(* raw_events, has taken what the cycle remembers as done.                 *)
KeyOwned(w) ==
    run[w].pc # "idle" =>
        \A k \in run[w].seen : Settled(k) \/ \E r \in run[w].written : KeyOf[r] = k

AppendKnown(w) ==
    run[w].pc \in {"bridge", "index"} =>
        \A r \in run[w].written :
            queue[r] > 0 \/ (run[w].pc = "bridge" /\ run[w].queueFailed) \/ r \in alerted.queue

BridgeKnown(w) ==
    /\ run[w].pc = "queue" => run[w].todo = run[w].written
    /\ run[w].pc = "bridge" =>
        \A r \in run[w].written \ run[w].todo : r \in run[w].rawFailed \/ Stored(r)

WriterKnown(w) == run[w].hashes \subseteq rows

AllSettled(w) == run[w].pc = "index" => \A k \in run[w].seen : Settled(k)

CycleKnown(w) ==
    KeyOwned(w) /\ AppendKnown(w) /\ BridgeKnown(w) /\ WriterKnown(w) /\ AllSettled(w)

DeliveryInv == TypeOK /\ NoSilentLoss /\ \A w \in Runners : CycleKnown(w)

(* What a step may do to the shared state: the queue, raw_events and the   *)
(* alerts only grow.                                                       *)
Grows ==
    /\ \A r \in Records : queue[r] <= queue'[r]
    /\ rows \subseteq rows'
    /\ alerted.queue \subseteq alerted.queue' /\ alerted.raw \subseteq alerted.raw'

LEMMA StepGrows ==
    ASSUME TypeOK, [Next]_vars
    PROVE  Grows
<1> USE DEF TypeOK, Grows
<1>0. (queue' = queue => \A r \in Records : queue[r] <= queue'[r])
  OBVIOUS
<1>1. ASSUME NEW w \in Runners, Append(w) PROVE Grows
  <2>1. PICK lines \in SUBSET run[w].written :
            queue' = [r \in Records |-> IF r \in lines THEN queue[r] + 1 ELSE queue[r]]
    BY <1>1 DEF Append
  <2> QED
    BY <1>1, <2>1 DEF Append
<1>2. ASSUME NEW w \in Runners, Bridge(w) PROVE Grows
  BY <1>0, <1>2 DEF Bridge, NoCall, PostFails, Posted
<1>3. ASSUME NEW w \in Runners, Report(w) PROVE Grows
  BY <1>3 DEF Report
<1>4. ASSUME NEW w \in Runners, Collect(w) \/ SaveIndex(w) \/ Crash(w) PROVE Grows
  <2>1. UNCHANGED <<queue, rows, alerted>>
    BY <1>4 DEF Collect, SaveIndex, Crash
  <2> QED
    BY <1>0, <2>1
<1>5. ASSUME UNCHANGED vars PROVE Grows
  BY <1>5 DEF vars
<1> QED
  BY <1>1, <1>2, <1>3, <1>4, <1>5 DEF Next

LEMMA StandingStays ==
    ASSUME TypeOK, Grows, TypeOK'
    PROVE  /\ \A r \in Records : Queued(r) => Queued(r)'
           /\ \A r \in Records : Stored(r) => Stored(r)'
           /\ \A k \in Keys : Settled(k) => Settled(k)'
<1>1. \A r \in Records : Queued(r) => Queued(r)'
  BY DEF TypeOK, Grows, Queued
<1>2. \A r \in Records : Stored(r) => Stored(r)'
  BY DEF TypeOK, Grows, Stored
<1> QED
  BY <1>1, <1>2 DEF Settled

(* A cycle that the step does not move keeps what is known of it.          *)
LEMMA OthersKnown ==
    ASSUME TypeOK, TypeOK', Grows, NEW v \in Runners, CycleKnown(v), run'[v] = run[v]
    PROVE  CycleKnown(v)'
<1>1. run[v].seen \subseteq Keys /\ run[v].written \subseteq Records
  BY DEF TypeOK, Cycle
<1>2. KeyOwned(v)'
  BY <1>1, StandingStays DEF CycleKnown, KeyOwned
<1>3. AppendKnown(v)'
  BY <1>1 DEF CycleKnown, AppendKnown, Grows, TypeOK
<1>4. BridgeKnown(v)'
  BY <1>1, StandingStays DEF CycleKnown, BridgeKnown
<1>5. WriterKnown(v)'
  BY DEF CycleKnown, WriterKnown, Grows
<1>6. AllSettled(v)'
  BY <1>1, StandingStays DEF CycleKnown, AllSettled
<1> QED
  BY <1>2, <1>3, <1>4, <1>5, <1>6 DEF CycleKnown

(* A cycle that has ended knows nothing.                                   *)
LEMMA IdleKnown ==
    ASSUME NEW v \in Runners, run'[v] = Idle
    PROVE  CycleKnown(v)'
  BY DEF Idle, CycleKnown, KeyOwned, AppendKnown, BridgeKnown, WriterKnown, AllSettled

LEMMA CollectKnown ==
    ASSUME DeliveryInv, NEW w \in Runners, Collect(w), TypeOK', Grows
    PROVE  CycleKnown(w)'
<1>1. PICK got \in SUBSET Records, written \in SUBSET Records, blind \in BOOLEAN :
          /\ Passes(got, Loaded(blind), written)
          /\ run' = [run EXCEPT ![w] = [Idle EXCEPT !.pc = "queue", !.blind = blind,
                        !.seen = Loaded(blind) \cup KeysOf(got),
                        !.written = written, !.todo = written]]
  BY DEF Collect
<1>2. run'[w] = [Idle EXCEPT !.pc = "queue", !.blind = blind,
                             !.seen = Loaded(blind) \cup KeysOf(got),
                             !.written = written, !.todo = written]
  BY <1>1 DEF DeliveryInv, TypeOK
<1>3. ASSUME NEW k \in Loaded(blind) \cup KeysOf(got)
      PROVE  Settled(k)' \/ \E r \in written : KeyOf[r] = k
  <2>1. CASE k \in Loaded(blind)
    <3>1. k \in index
      BY <2>1 DEF Loaded
    <3> QED
      BY <3>1, StandingStays DEF DeliveryInv, NoSilentLoss, TypeOK
  <2>2. CASE k \notin Loaded(blind)
    BY <1>1, <1>3, <2>2 DEF Passes, KeysOf
  <2> QED
    BY <2>1, <2>2
<1>4. KeyOwned(w)'
  BY <1>2, <1>3 DEF KeyOwned, Idle
<1> QED
  BY <1>2, <1>4 DEF CycleKnown, AppendKnown, BridgeKnown, WriterKnown, AllSettled, Idle

LEMMA AppendKeepsKnown ==
    ASSUME DeliveryInv, NEW w \in Runners, Append(w), TypeOK', Grows
    PROVE  CycleKnown(w)'
<1>1. PICK lines \in SUBSET run[w].written, failed \in BOOLEAN :
          /\ queue' = [r \in Records |-> IF r \in lines THEN queue[r] + 1 ELSE queue[r]]
          /\ lines # run[w].written => failed
          /\ run' = [run EXCEPT ![w] = [@ EXCEPT !.pc = "bridge", !.queueFailed = failed]]
  BY DEF Append
<1>2. /\ run'[w].pc = "bridge" /\ run'[w].queueFailed = failed
      /\ run'[w].seen = run[w].seen /\ run'[w].written = run[w].written
      /\ run'[w].todo = run[w].todo /\ run'[w].hashes = run[w].hashes
  BY <1>1 DEF DeliveryInv, TypeOK, Cycle
<1>3. run[w].pc = "queue" /\ run[w].written \subseteq Records /\ run[w].seen \subseteq Keys
  BY DEF Append, DeliveryInv, TypeOK, Cycle
<1>4. KeyOwned(w)'
  BY <1>2, <1>3, StandingStays DEF DeliveryInv, CycleKnown, KeyOwned
<1>5. ASSUME NEW r \in run[w].written, ~failed PROVE queue'[r] > 0
  BY <1>1, <1>3, <1>5 DEF DeliveryInv, TypeOK
<1>6. AppendKnown(w)'
  BY <1>2, <1>5 DEF AppendKnown
<1>7. BridgeKnown(w)'
  BY <1>2, <1>3 DEF DeliveryInv, CycleKnown, BridgeKnown
<1>8. WriterKnown(w)'
  BY <1>2 DEF DeliveryInv, CycleKnown, WriterKnown, Grows
<1> QED
  BY <1>2, <1>4, <1>6, <1>7, <1>8 DEF CycleKnown, AllSettled

(* Whatever the POST comes to, the record is stored, held, or remembered   *)
(* as failed.                                                              *)
LEMMA BridgeKeepsKnown ==
    ASSUME DeliveryInv, NEW w \in Runners, Bridge(w), TypeOK', Grows
    PROVE  CycleKnown(w)'
<1>1. PICK r \in run[w].todo : NoCall(w, r) \/ PostFails(w, r) \/ Posted(w, r)
  BY DEF Bridge
<1>2. run[w] \in Cycle /\ run[w].pc = "bridge" /\ alerted' = alerted /\ queue' = queue
  BY DEF Bridge, DeliveryInv, TypeOK
<1>3. run[w].written \subseteq Records /\ run[w].seen \subseteq Keys /\ r \in Records
  BY <1>2 DEF Cycle
<1>4. PICK f \in {{}, {r}}, h \in {{}, {HashOf[r]}} :
          /\ Done(w, r, f, h)
          /\ h \subseteq rows'
          /\ r \in f \/ HashOf[r] \in rows' \cup {NoUrl}
  <2>1. CASE NoCall(w, r)
    BY <2>1 DEF NoCall, DeliveryInv, CycleKnown, WriterKnown
  <2>2. CASE PostFails(w, r)
    BY <2>2 DEF PostFails
  <2>3. CASE Posted(w, r)
    BY <2>3 DEF Posted
  <2> QED
    BY <1>1, <2>1, <2>2, <2>3
<1>5. run'[w] = [run[w] EXCEPT !.todo = run[w].todo \ {r},
                               !.rawFailed = run[w].rawFailed \cup f,
                               !.hashes = run[w].hashes \cup h]
  <2>1. run \in [Runners -> Cycle]
    BY DEF DeliveryInv, TypeOK
  <2>2. run' = [run EXCEPT ![w] = [run[w] EXCEPT !.todo = run[w].todo \ {r},
                                     !.rawFailed = run[w].rawFailed \cup f,
                                     !.hashes = run[w].hashes \cup h]]
    BY <1>4 DEF Done
  <2> QED
    BY <2>1, <2>2
<1>6. /\ run'[w].pc = "bridge" /\ run'[w].queueFailed = run[w].queueFailed
      /\ run'[w].seen = run[w].seen /\ run'[w].written = run[w].written
      /\ run'[w].todo = run[w].todo \ {r} /\ run'[w].hashes = run[w].hashes \cup h
      /\ run'[w].rawFailed = run[w].rawFailed \cup f
  BY <1>2, <1>5 DEF Cycle
<1>7. KeyOwned(w)'
  BY <1>2, <1>3, <1>6, StandingStays DEF DeliveryInv, CycleKnown, KeyOwned
<1>8. AppendKnown(w)'
  BY <1>2, <1>6 DEF DeliveryInv, CycleKnown, AppendKnown
<1>9. BridgeKnown(w)'
  <2>1. ASSUME NEW x \in run[w].written \ (run[w].todo \ {r})
        PROVE  x \in run[w].rawFailed \cup f \/ Stored(x)'
    <3>1. CASE x = r
      BY <1>4, <3>1 DEF Stored
    <3>2. CASE x # r
      BY <1>2, <1>3, <2>1, <3>2, StandingStays DEF DeliveryInv, CycleKnown, BridgeKnown
    <3> QED
      BY <3>1, <3>2
  <2> QED
    BY <1>6, <2>1 DEF BridgeKnown
<1>10. WriterKnown(w)'
  BY <1>4, <1>6 DEF DeliveryInv, CycleKnown, WriterKnown, Grows
<1> QED
  BY <1>6, <1>7, <1>8, <1>9, <1>10 DEF CycleKnown, AllSettled

(* The report tells of everything that failed: from here on every key of   *)
(* the cycle is settled.                                                   *)
LEMMA ReportKeepsKnown ==
    ASSUME DeliveryInv, NEW w \in Runners, Report(w), TypeOK', Grows
    PROVE  CycleKnown(w)'
<1>1. /\ run[w] \in Cycle /\ run[w].pc = "bridge" /\ run[w].todo = {}
      /\ run' = [run EXCEPT ![w].pc = "index"] /\ queue' = queue /\ rows' = rows
  BY DEF Report, DeliveryInv, TypeOK
<1>2. /\ run'[w].pc = "index" /\ run'[w].seen = run[w].seen
      /\ run'[w].written = run[w].written /\ run'[w].hashes = run[w].hashes
  BY <1>1 DEF Cycle, DeliveryInv, TypeOK
<1>3. run[w].written \subseteq Records /\ run[w].seen \subseteq Keys
  BY <1>1 DEF Cycle
<1>4. ASSUME NEW r \in run[w].written PROVE Queued(r)' /\ Stored(r)'
  <2>1. Queued(r)'
    BY <1>1, <1>4 DEF Report, DeliveryInv, CycleKnown, AppendKnown, Queued
  <2>2. r \in run[w].rawFailed => r \in alerted'.raw
    BY DEF Report
  <2>3. Stored(r)'
    BY <1>1, <1>3, <1>4, <2>2, StandingStays
    DEF DeliveryInv, CycleKnown, BridgeKnown, Stored
  <2> QED
    BY <2>1, <2>3
<1>5. \A k \in run[w].seen : Settled(k)'
  BY <1>1, <1>3, <1>4, StandingStays DEF DeliveryInv, CycleKnown, KeyOwned, Settled
<1>6. AppendKnown(w)'
  BY <1>2, <1>4 DEF AppendKnown, Queued
<1> QED
  BY <1>2, <1>5, <1>6 DEF DeliveryInv, CycleKnown, KeyOwned, BridgeKnown, WriterKnown, AllSettled, Grows

LEMMA DeliveryStep ==
    ASSUME DeliveryInv, [Next]_vars
    PROVE  DeliveryInv'
<1>1. TypeOK /\ TypeOK' /\ Grows
  BY TypeStep, StepGrows DEF DeliveryInv
<1>2. ASSUME index' = index PROVE NoSilentLoss'
  BY <1>1, <1>2, StandingStays DEF DeliveryInv, NoSilentLoss, TypeOK
<1>3. ASSUME NEW w \in Runners, CycleKnown(w)', run' = [run EXCEPT ![w] = run'[w]]
      PROVE  \A v \in Runners : CycleKnown(v)'
  <2>1. ASSUME NEW v \in Runners, v # w PROVE CycleKnown(v)'
    BY <1>1, <1>3, <2>1, OthersKnown DEF DeliveryInv, TypeOK
  <2> QED
    BY <1>3, <2>1
<1>4. ASSUME NEW w \in Runners, Collect(w) PROVE DeliveryInv'
  <2>1. CycleKnown(w)' /\ index' = index
    BY <1>1, <1>4, CollectKnown DEF Collect
  <2>2. run' = [run EXCEPT ![w] = run'[w]]
    BY <1>1, <1>4 DEF Collect, TypeOK
  <2> QED
    BY <1>1, <1>2, <1>3, <2>1, <2>2 DEF DeliveryInv
<1>5. ASSUME NEW w \in Runners, Append(w) PROVE DeliveryInv'
  <2>1. CycleKnown(w)' /\ index' = index
    BY <1>1, <1>5, AppendKeepsKnown DEF Append
  <2>2. run' = [run EXCEPT ![w] = run'[w]]
    BY <1>1, <1>5 DEF Append, TypeOK
  <2> QED
    BY <1>1, <1>2, <1>3, <2>1, <2>2 DEF DeliveryInv
<1>6. ASSUME NEW w \in Runners, Bridge(w) PROVE DeliveryInv'
  <2>1. CycleKnown(w)' /\ index' = index
    BY <1>1, <1>6, BridgeKeepsKnown DEF Bridge
  <2>2. run' = [run EXCEPT ![w] = run'[w]]
    BY <1>1, <1>6 DEF Bridge, NoCall, PostFails, Posted, Done, TypeOK
  <2> QED
    BY <1>1, <1>2, <1>3, <2>1, <2>2 DEF DeliveryInv
<1>7. ASSUME NEW w \in Runners, Report(w) PROVE DeliveryInv'
  <2>1. CycleKnown(w)' /\ index' = index
    BY <1>1, <1>7, ReportKeepsKnown DEF Report
  <2>2. run' = [run EXCEPT ![w] = run'[w]]
    BY <1>1, <1>7 DEF Report, TypeOK
  <2> QED
    BY <1>1, <1>2, <1>3, <2>1, <2>2 DEF DeliveryInv
<1>8. ASSUME NEW w \in Runners, SaveIndex(w) PROVE DeliveryInv'
  <2>1. run'[w] = Idle /\ run' = [run EXCEPT ![w] = run'[w]]
    BY <1>1, <1>8 DEF SaveIndex, TypeOK
  <2>2. \A v \in Runners : CycleKnown(v)'
    BY <1>3, <2>1, IdleKnown
  <2>3. \A k \in run[w].seen : k \in Keys /\ Settled(k)
    BY <1>8 DEF SaveIndex, DeliveryInv, CycleKnown, AllSettled, TypeOK, Cycle
  <2>4. NoSilentLoss'
    BY <1>1, <1>8, <2>3, StandingStays DEF SaveIndex, NoSilentLoss
  <2> QED
    BY <1>1, <2>2, <2>4 DEF DeliveryInv
<1>9. ASSUME NEW w \in Runners, Crash(w) PROVE DeliveryInv'
  <2>1. run'[w] = Idle /\ run' = [run EXCEPT ![w] = run'[w]] /\ index' = index
    BY <1>1, <1>9 DEF Crash, TypeOK
  <2> QED
    BY <1>1, <1>2, <1>3, <2>1, IdleKnown DEF DeliveryInv
<1>10. ASSUME UNCHANGED vars PROVE DeliveryInv'
  BY <1>1, <1>2, <1>10, OthersKnown DEF vars, DeliveryInv
<1> QED
  BY <1>4, <1>5, <1>6, <1>7, <1>8, <1>9, <1>10 DEF Next

(* No silent loss (run_production_orchestration, steps 4 to 9): whatever   *)
(* cycles overlap, fail in part or die, a key in the dedup index stands    *)
(* for a record that was delivered or whose failure was reported.          *)
THEOREM NothingIsLostSilently == Spec => []NoSilentLoss
<1>1. Init => DeliveryInv
  <2>1. Init => TypeOK
    BY DeliveryAssumption DEF Init, TypeOK, Idle, Cycle
  <2> QED
    BY <2>1 DEF Init, DeliveryInv, NoSilentLoss, Idle, CycleKnown, KeyOwned, AppendKnown,
                BridgeKnown, WriterKnown, AllSettled
<1>2. DeliveryInv => NoSilentLoss
  BY DEF DeliveryInv
<1> QED
  BY <1>1, <1>2, DeliveryStep, PTL DEF Spec

-----------------------------------------------------------------------------
(* As long as no cycle was started beside another one, a cycle in progress *)
(* is alone and, if it could read the index, holds all its keys in memory. *)
Alone ==
    hist.overlaps = 0 =>
        \A w \in Runners :
            run[w].pc # "idle" =>
                /\ index \subseteq run[w].seen \/ run[w].blind
                /\ \A v \in Runners : run[v].pc # "idle" => v = w

LEMMA AloneStep ==
    ASSUME TypeOK, Alone, [Next]_vars
    PROVE  Alone'
<1>1. ASSUME NEW w \in Runners, Collect(w) PROVE Alone'
  <2>1. PICK got \in SUBSET Records, written \in SUBSET Records, blind \in BOOLEAN :
            run' = [run EXCEPT ![w] = [Idle EXCEPT !.pc = "queue", !.blind = blind,
                        !.seen = Loaded(blind) \cup KeysOf(got),
                        !.written = written, !.todo = written]]
    BY <1>1 DEF Collect
  <2>2. /\ run'[w].seen = Loaded(blind) \cup KeysOf(got) /\ run'[w].blind = blind
        /\ index' = index
        /\ \A v \in Runners : v # w => run'[v] = run[v]
    BY <1>1, <2>1 DEF Collect, TypeOK, Idle
  <2>3. hist'.overlaps = 0 => \A v \in Runners : run[v].pc = "idle"
    BY <1>1 DEF Collect, TypeOK
  <2> QED
    BY <2>2, <2>3 DEF Alone, Loaded
<1>2. ASSUME NEW w \in Runners, run[w].pc # "idle", hist'.overlaps = hist.overlaps,
             index' = index, run'[w].seen = run[w].seen, run'[w].blind = run[w].blind,
             \A v \in Runners : v # w => run'[v] = run[v]
      PROVE  Alone'
  BY <1>2 DEF Alone
<1>3. ASSUME NEW w \in Runners, run[w].pc # "idle", hist'.overlaps = hist.overlaps,
             run'[w] = Idle, \A v \in Runners : v # w => run'[v] = run[v]
      PROVE  Alone'
  BY <1>3 DEF Alone, Idle
<1>4. ASSUME NEW w \in Runners, Append(w) PROVE Alone'
  <2>1. /\ run'[w].seen = run[w].seen /\ run'[w].blind = run[w].blind
        /\ \A v \in Runners : v # w => run'[v] = run[v]
    BY <1>4 DEF Append, TypeOK, Cycle
  <2> QED
    BY <1>2, <1>4, <2>1 DEF Append
<1>5. ASSUME NEW w \in Runners, Bridge(w) PROVE Alone'
  <2>1. \E r \in run[w].todo : \E f \in {{}, {r}}, h \in {{}, {HashOf[r]}} : Done(w, r, f, h)
    BY <1>5 DEF Bridge, NoCall, PostFails, Posted
  <2>2. run \in [Runners -> Cycle]
    BY DEF TypeOK
  <2>3. /\ run'[w].seen = run[w].seen /\ run'[w].blind = run[w].blind
        /\ \A v \in Runners : v # w => run'[v] = run[v]
    BY <2>1, <2>2 DEF Done, Cycle
  <2> QED
    BY <1>2, <1>5, <2>3 DEF Bridge
<1>6. ASSUME NEW w \in Runners, Report(w) PROVE Alone'
  <2>1. /\ run'[w].seen = run[w].seen /\ run'[w].blind = run[w].blind
        /\ \A v \in Runners : v # w => run'[v] = run[v]
    BY <1>6 DEF Report, TypeOK, Cycle
  <2> QED
    BY <1>2, <1>6, <2>1 DEF Report
<1>7. ASSUME NEW w \in Runners, SaveIndex(w) \/ Crash(w) PROVE Alone'
  <2>1. /\ run[w].pc # "idle" /\ hist'.overlaps = hist.overlaps
        /\ run' = [run EXCEPT ![w] = Idle]
    BY <1>7 DEF SaveIndex, Crash, TypeOK
  <2> QED
    BY <1>3, <2>1 DEF TypeOK
<1>8. ASSUME UNCHANGED vars PROVE Alone'
  BY <1>8 DEF vars, Alone
<1> QED
  BY <1>1, <1>4, <1>5, <1>6, <1>7, <1>8 DEF Next

(* The dedup index loses a key only to a cycle that was started beside     *)
(* another one, or that could not read the index and saves over it         *)
(* (DedupIndex.__init__, save): however cycles fail or die, no other does. *)
THEOREM IndexOnlyGrows == Spec => IndexGrows
<1>1. Init => Alone
  BY DEF Init, Alone, Idle
<1> DEFINE Kept == \/ index \subseteq index'
                   \/ \E w \in Runners : run[w].pc = "index" /\ run[w].blind
<1>2. ASSUME Alone, hist.overlaps = 0, [Next]_vars PROVE Kept
  <2>1. ASSUME NEW w \in Runners, SaveIndex(w) PROVE Kept
    BY <1>2, <2>1 DEF SaveIndex, Alone
  <2>2. ASSUME NEW w \in Runners,
               Collect(w) \/ Append(w) \/ Bridge(w) \/ Report(w) \/ Crash(w)
        PROVE  index' = index
    BY <2>2 DEF Collect, Append, Bridge, Report, Crash
  <2>3. CASE UNCHANGED vars
    BY <2>3 DEF vars
  <2> QED
    BY <1>2, <2>1, <2>2, <2>3 DEF Next
<1>3. Alone /\ [Next]_vars => [hist.overlaps = 0 => Kept]_vars
  BY <1>2
<1> QED
  BY <1>1, <1>3, AloneStep, DeliveryTypes, PTL DEF Spec, IndexGrows

-----------------------------------------------------------------------------
(* Sums over finite sets.  FoldSet is a recursive function; that it exists  *)
(* and that two sums differ as their summands do is shown by well-founded   *)
(* induction, on Nat and on the finite subsets.                             *)

SumOf(q, S) == FoldSet(LAMBDA r, n : q[r] + n, 0, S)

First(s) == CHOOSE x \in s : TRUE

Sums(g, q, S) == g = [s \in SUBSET S |-> IF s = {} THEN 0 ELSE q[First(s)] + g[s \ {First(s)}]]

LEMMA NatSetInduction ==
    ASSUME NEW K, 0 \in K, \A n \in Nat : n \in K => n + 1 \in K
    PROVE  Nat \subseteq K
<1> SUFFICES ASSUME Nat \ K # {} PROVE FALSE
  OBVIOUS
<1>1. PICK n \in Nat \ K : \A m \in Nat \ K : <<m, n>> \notin OpToRel(<, Nat)
  BY NatLessThanWellFounded, WFMin, Nat \ K \subseteq Nat
<1>2. n \in Nat /\ n # 0
  BY <1>1
<1>3. PICK m \in Nat : n = m + 1
  BY <1>2, \A i \in Nat : i # 0 => i - 1 \in Nat /\ i = (i - 1) + 1
<1>4. <<m, n>> \in OpToRel(<, Nat)
  BY <1>2, <1>3 DEF OpToRel
<1>5. m \in K
  BY <1>1, <1>4
<1> QED
  BY <1>1, <1>3, <1>5

LEMMA FirstIsMember == \A s : s # {} => First(s) \in s
  BY DEF First

LEMMA SumExists ==
    ASSUME NEW S, IsFiniteSet(S), NEW q, \A r \in S : q[r] \in Nat
    PROVE  \E g : Sums(g, q, S)
<1> DEFINE Upto(n) == {s \in SUBSET S : Cardinality(s) <= n}
           Good(g, n) == \A s \in Upto(n) :
                            g[s] = IF s = {} THEN 0 ELSE q[First(s)] + g[s \ {First(s)}]
           K == {n \in Nat : \E g \in [SUBSET S -> Nat] : Good(g, n)}
<1>1. \A s \in SUBSET S : IsFiniteSet(s) /\ Cardinality(s) \in Nat
  BY FS_Subset, FS_CardinalityType
<1>2. 0 \in K
  <2>1. \A s \in Upto(0) : s = {}
    BY <1>1, FS_EmptySet
  <2>2. Good([s \in SUBSET S |-> 0], 0)
    BY <2>1
  <2>3. [s \in SUBSET S |-> 0] \in [SUBSET S -> Nat]
    OBVIOUS
  <2> HIDE DEF Good
  <2> QED
    BY <2>2, <2>3
<1>3. ASSUME NEW n \in Nat, n \in K PROVE n + 1 \in K
  <2>1. PICK g \in [SUBSET S -> Nat] : Good(g, n)
    BY <1>3
  <2>2. PICK h : h = [s \in SUBSET S |-> IF s = {} THEN 0
                                         ELSE q[First(s)] + g[s \ {First(s)}]]
    OBVIOUS
  <2>3. h \in [SUBSET S -> Nat]
    <3>1. ASSUME NEW s \in SUBSET S, s # {}
          PROVE  q[First(s)] + g[s \ {First(s)}] \in Nat
      <4>1. q[First(s)] \in Nat /\ s \ {First(s)} \in SUBSET S
        BY <3>1, FirstIsMember
      <4> QED
        BY <4>1
    <3> QED
      BY <2>2, <3>1
  <2>4. ASSUME NEW s \in Upto(n + 1), s # {}
        PROVE  h[s \ {First(s)}] = g[s \ {First(s)}]
    <3>1. PICK u : u = s \ {First(s)}
      OBVIOUS
    <3>2. Cardinality(u) = Cardinality(s) - 1
      BY <1>1, <2>4, <3>1, FirstIsMember, FS_RemoveElement
    <3>3. u \in Upto(n)
      BY <1>1, <3>1, <3>2
    <3>4. g[u] = IF u = {} THEN 0 ELSE q[First(u)] + g[u \ {First(u)}]
      BY <2>1, <3>3
    <3> QED
      BY <2>2, <3>1, <3>3, <3>4
  <2>5. Good(h, n + 1)
    BY <2>2, <2>4
  <2> HIDE DEF Good
  <2> QED
    BY <2>3, <2>5
<1> HIDE DEF K
<1>4. Cardinality(S) \in K
  BY <1>1, <1>2, <1>3, NatSetInduction
<1>5. PICK g \in [SUBSET S -> Nat] : Good(g, Cardinality(S))
  BY <1>4 DEF K
<1>6. \A s \in SUBSET S : s \in Upto(Cardinality(S))
  BY FS_Subset
<1>7. g = [s \in SUBSET S |-> IF s = {} THEN 0 ELSE q[First(s)] + g[s \ {First(s)}]]
  BY <1>5, <1>6
<1> QED
  BY <1>7 DEF Sums

LEMMA SumIsFold ==
    ASSUME NEW S, IsFiniteSet(S), NEW q, \A r \in S : q[r] \in Nat
    PROVE  \E g : Sums(g, q, S) /\ SumOf(q, S) = g[S]
<1>1. SumOf(q, S) = (CHOOSE g : Sums(g, q, S))[S]
  BY DEF SumOf, FoldSet, MapThenFoldSet, Sums, First
<1>2. Sums(CHOOSE g : Sums(g, q, S), q, S)
  BY SumExists
<1> QED
  BY <1>1, <1>2

LEMMA SmallestSubset ==
    ASSUME NEW S, IsFiniteSet(S), NEW B \in SUBSET SUBSET S, B # {}
    PROVE  \E s \in B : \A u \in SUBSET s : u # s => u \notin B
<1>1. IsWellFoundedOn(StrictSubsetOrdering(S), SUBSET S)
  BY FS_StrictSubsetOrderingWellFounded, FS_FiniteSubsetsOfFinite
<1>2. PICK s \in B : \A u \in B : <<u, s>> \notin StrictSubsetOrdering(S)
  BY <1>1, WFMin
<1> QED
  BY <1>2 DEF StrictSubsetOrdering

LEMMA SumOfZeros ==
    ASSUME NEW S, IsFiniteSet(S), NEW q, \A r \in S : q[r] = 0
    PROVE  SumOf(q, S) = 0
<1>1. PICK g : Sums(g, q, S) /\ SumOf(q, S) = g[S]
  BY SumIsFold
<1> DEFINE B == {s \in SUBSET S : g[s] # 0}
<1>2. B = {}
  <2> SUFFICES ASSUME B # {} PROVE FALSE
    OBVIOUS
  <2>1. B \in SUBSET SUBSET S
    OBVIOUS
  <2>2. PICK s \in B : \A u \in SUBSET s : u # s => u \notin B
    <3> HIDE DEF B
    <3> QED
      BY <2>1, SmallestSubset
  <2>3. s # {} /\ s \in SUBSET S
    BY <1>1, <2>2 DEF Sums
  <2>4. First(s) \in s /\ g[s \ {First(s)}] = 0
    BY <2>2, <2>3, FirstIsMember
  <2>5. g[s] = q[First(s)] + g[s \ {First(s)}]
    BY <1>1, <2>3 DEF Sums
  <2> QED
    BY <2>2, <2>3, <2>4, <2>5
<1> QED
  BY <1>1, <1>2

(* Raising one summand by d raises the sum by no more than d. *)
LEMMA SumGrowsBy ==
    ASSUME NEW S, IsFiniteSet(S), NEW q, NEW p, NEW x, NEW d \in Nat,
           \A r \in S : q[r] \in Nat /\ p[r] \in Nat /\ p[r] <= q[r] + (IF r = x THEN d ELSE 0)
    PROVE  /\ SumOf(q, S) \in Nat /\ SumOf(p, S) \in Nat
           /\ SumOf(p, S) <= SumOf(q, S) + d
<1>1. PICK g : Sums(g, q, S) /\ SumOf(q, S) = g[S]
  BY SumIsFold
<1>2. PICK h : Sums(h, p, S) /\ SumOf(p, S) = h[S]
  BY SumIsFold
<1> DEFINE Fits(s) == /\ g[s] \in Nat /\ h[s] \in Nat
                      /\ h[s] <= g[s] + (IF x \in s THEN d ELSE 0)
           Bad == {s \in SUBSET S : ~Fits(s)}
<1>3. Bad = {}
  <2> SUFFICES ASSUME Bad # {} PROVE FALSE
    OBVIOUS
  <2>1. Bad \subseteq SUBSET S
    OBVIOUS
  <2>2. PICK s \in Bad : \A u \in SUBSET s : u # s => u \notin Bad
    <3> HIDE DEF Bad
    <3> QED
      BY <2>1, SmallestSubset
  <2>3. s # {}
    BY <1>1, <1>2, <2>2 DEF Sums
  <2>4. PICK y, u : y = First(s) /\ u = s \ {y}
    OBVIOUS
  <2>5. y \in s /\ u \in SUBSET S /\ u \subseteq s /\ u # s
    BY <2>3, <2>4, FirstIsMember
  <2>6. Fits(u)
    BY <2>2, <2>5
  <2>7. g[s] = q[y] + g[u] /\ h[s] = p[y] + h[u]
    BY <1>1, <1>2, <2>2, <2>3, <2>4 DEF Sums
  <2>8. q[y] \in Nat /\ p[y] \in Nat /\ p[y] <= q[y] + (IF y = x THEN d ELSE 0)
    BY <2>2, <2>5
  <2>9. (x \in s <=> x \in u \/ x = y) /\ y \notin u
    BY <2>4, <2>5
  <2>10. Fits(s)
    BY <2>6, <2>7, <2>8, <2>9
  <2> QED
    BY <2>2, <2>10
<1>4. Fits(S)
  BY <1>3
<1> QED
  BY <1>1, <1>2, <1>4
-----------------------------------------------------------------------------
(* A key may get one line more than its accidents account for, and          *)
(* then it is barred: every cycle under way has seen it, and so has the     *)
(* index once none is.  A cycle about to append counts as its line.         *)

OfKey(k) == {r \in Records : KeyOf[r] = k}

Pending(k) == {w \in Runners : run[w].pc = "queue" /\ k \in KeysOf(run[w].written)}

Carried(k) == SumOf(queue, OfKey(k)) + Cardinality(Pending(k))

Excused == 1 + hist.crashes + hist.overlaps + hist.unread

Barred(k) ==
    /\ \A w \in Runners : run[w].pc # "idle" => k \in run[w].seen
    /\ k \in index \/ \E w \in Runners : run[w].pc # "idle"

OnePerKey(w) ==
    \A x, y \in run[w].written : KeyOf[x] = KeyOf[y] => x = y \/ KeyOf[x] = NoKey

Accounted(k) ==
    /\ IsFiniteSet(Pending(k))
    /\ Carried(k) <= Excused
    /\ Carried(k) = Excused => Barred(k)

RepeatInv == (\A k \in Keys : Accounted(k)) /\ \A w \in Runners : OnePerKey(w)


LEMMA LinesGrowBy ==
    ASSUME TypeOK, TypeOK', NEW k \in Keys, NEW x, NEW d \in Nat,
           \A r \in OfKey(k) : queue'[r] <= queue[r] + (IF r = x THEN d ELSE 0)
    PROVE  /\ SumOf(queue, OfKey(k)) \in Nat /\ SumOf(queue', OfKey(k)) \in Nat
           /\ SumOf(queue', OfKey(k)) <= SumOf(queue, OfKey(k)) + d
<1>1. IsFiniteSet(OfKey(k)) /\ OfKey(k) \subseteq Records
  BY FS_Subset, DeliveryAssumption DEF OfKey
<1>2. \A r \in OfKey(k) : queue[r] \in Nat /\ queue'[r] \in Nat
  BY <1>1 DEF TypeOK
<1> QED
  BY <1>1, <1>2, SumGrowsBy

LEMMA LinesStay ==
    ASSUME TypeOK, TypeOK', NEW k \in Keys, \A r \in OfKey(k) : queue'[r] = queue[r]
    PROVE  /\ SumOf(queue, OfKey(k)) \in Nat /\ SumOf(queue', OfKey(k)) \in Nat
           /\ SumOf(queue', OfKey(k)) <= SumOf(queue, OfKey(k))
<1>1. OfKey(k) \subseteq Records
  BY DEF OfKey
<1>2. \A r \in OfKey(k) : queue'[r] <= queue[r] + (IF r = k THEN 0 ELSE 0)
  BY <1>1 DEF TypeOK
<1>3. PICK m, n : m = SumOf(queue, OfKey(k)) /\ n = SumOf(queue', OfKey(k))
  OBVIOUS
<1>4. m \in Nat /\ n \in Nat /\ n <= m + 0
  BY <1>2, <1>3, LinesGrowBy
<1> QED
  BY <1>3, <1>4

Crashed == /\ hist'.crashes = hist.crashes + 1
           /\ hist'.overlaps = hist.overlaps /\ hist'.unread = hist.unread

(* A step that carries no more of a key than before, and either crashes or  *)
(* keeps the key barred.                                                    *)
LEMMA AccountKept ==
    ASSUME TypeOK, TypeOK', NEW k \in Keys, Accounted(k), NEW m \in Nat, NEW n \in Nat,
           m = SumOf(queue, OfKey(k)), n = SumOf(queue', OfKey(k)),
           NEW P, IsFiniteSet(P), P = Pending(k)', n + Cardinality(P) <= Carried(k),
           \/ Crashed
           \/ hist' = hist /\ (Barred(k) => Barred(k)')
    PROVE  Accounted(k)'
<1>1. hist.crashes \in Nat /\ hist.overlaps \in Nat /\ hist.unread \in Nat
  BY DEF TypeOK
<1>2. Cardinality(Pending(k)) \in Nat /\ Cardinality(P) \in Nat
  BY FS_CardinalityType DEF Accounted
<1>3. PICK a, b \in Nat : a = Carried(k) /\ b = n + Cardinality(P)
  BY <1>2 DEF Carried
<1>4. Carried(k)' = b
  BY <1>3 DEF Carried
<1>5. PICK e \in Nat : e = Excused
  BY <1>1 DEF Excused
<1>6. a <= e /\ (a = e => Barred(k)) /\ b <= a
  BY <1>3, <1>5 DEF Accounted
<1>7. CASE Crashed
  <2>1. Excused' = e + 1
    BY <1>1, <1>5, <1>7 DEF Excused, Crashed
  <2>2. b <= e + 1 /\ b # e + 1
    BY <1>6
  <2> QED
    BY <1>4, <2>1, <2>2 DEF Accounted
<1>8. CASE hist' = hist /\ (Barred(k) => Barred(k)')
  <2>1. Excused' = e
    BY <1>5, <1>8 DEF Excused
  <2>2. b <= e /\ (b = e => a = e)
    BY <1>6
  <2> QED
    BY <1>4, <1>6, <1>8, <2>1, <2>2 DEF Accounted
<1> QED
  BY <1>7, <1>8

LEMMA CollectAccounted ==
    ASSUME TypeOK, TypeOK', RepeatInv, NEW w \in Runners, Collect(w)
    PROVE  RepeatInv'
<1>1. PICK got \in SUBSET Records, written \in SUBSET Records, blind \in BOOLEAN :
          /\ Passes(got, Loaded(blind), written)
          /\ run' = [run EXCEPT ![w] = [Idle EXCEPT !.pc = "queue", !.blind = blind,
                        !.seen = Loaded(blind) \cup KeysOf(got),
                        !.written = written, !.todo = written]]
          /\ hist'.unread = IF blind THEN hist.unread + 1 ELSE hist.unread
  BY DEF Collect, TypeOK
<1>2. /\ run'[w].pc = "queue" /\ run'[w].seen = Loaded(blind) \cup KeysOf(got)
      /\ run'[w].written = written /\ \A v \in Runners \ {w} : run'[v] = run[v]
  BY <1>1 DEF TypeOK, Idle
<1>3. /\ run[w].pc = "idle" /\ queue' = queue /\ index' = index
      /\ hist'.crashes = hist.crashes /\ hist.crashes \in Nat /\ hist.overlaps \in Nat
      /\ hist.unread \in Nat
      /\ IF \E v \in Runners : run[v].pc # "idle" THEN hist'.overlaps = hist.overlaps + 1
                                                  ELSE hist'.overlaps = hist.overlaps
  BY DEF Collect, TypeOK
<1>4. ASSUME NEW k \in Keys PROVE Accounted(k)'
  <2>1. PICK P, Q : P = Pending(k) /\ Q = Pending(k)'
    OBVIOUS
  <2>2. IsFiniteSet(P) /\ w \notin P
    BY <1>3, <1>4, <2>1 DEF RepeatInv, Accounted, Pending
  <2>3. Q = IF k \in KeysOf(written) THEN P \cup {w} ELSE P
    BY <1>2, <1>3, <2>1 DEF Pending
  <2>4. IsFiniteSet(Q) /\ Cardinality(P) \in Nat
        /\ Cardinality(Q) = IF k \in KeysOf(written) THEN Cardinality(P) + 1 ELSE Cardinality(P)
    BY <2>2, <2>3, FS_AddElement, FS_CardinalityType
  <2>5. PICK m \in Nat : m = SumOf(queue, OfKey(k)) /\ m = SumOf(queue', OfKey(k))
    BY <1>3, LinesStay
  <2>6. PICK a \in Nat : a = Carried(k) /\ a = m + Cardinality(P)
    BY <2>1, <2>4, <2>5 DEF Carried
  <2>7. Carried(k)' = IF k \in KeysOf(written) THEN a + 1 ELSE a
    <3>1. Carried(k)' = m + Cardinality(Q)
      BY <2>1, <2>5 DEF Carried
    <3> QED
      BY <2>4, <2>6, <3>1
  <2>8. PICK e \in Nat : e = Excused
    BY <1>3 DEF Excused
  <2>9. PICK o, u \in {0, 1} :
            /\ Excused' = e + o + u
            /\ o = 0 <=> \A v \in Runners : run[v].pc = "idle"
            /\ u = 0 <=> ~blind
    <3>1. PICK o \in {0, 1} : /\ hist'.overlaps = hist.overlaps + o
                              /\ o = 0 <=> \A v \in Runners : run[v].pc = "idle"
      <4>1. CASE \A v \in Runners : run[v].pc = "idle"
        BY <1>3, <4>1
      <4>2. CASE ~ \A v \in Runners : run[v].pc = "idle"
        BY <1>3, <4>2
      <4> QED
        BY <4>1, <4>2
    <3>2. PICK u \in {0, 1} : hist'.unread = hist.unread + u /\ (u = 0 <=> ~blind)
      BY <1>1, <1>3
    <3>3. Excused' = e + o + u
      BY <1>3, <2>8, <3>1, <3>2 DEF Excused
    <3> QED
      BY <3>1, <3>2, <3>3
  <2>10. a <= e /\ (a = e => Barred(k))
    BY <2>6, <2>8 DEF RepeatInv, Accounted
  <2>11. k \in KeysOf(written) => k \notin Loaded(blind) /\ k \in run'[w].seen
    BY <1>1, <1>2 DEF Passes
  <2>12. Loaded(blind) \subseteq run'[w].seen
    BY <1>2
  <2>13. CASE k \in KeysOf(written)
    <3>1. a = e => o = 1 \/ u = 1
      BY <2>9, <2>10, <2>11, <2>13 DEF Barred, Loaded
    <3>2. Carried(k)' <= Excused'
      BY <2>7, <2>9, <2>10, <2>13, <3>1
    <3>3. Carried(k)' = Excused' => a = e \/ (o = 0 /\ u = 0)
      BY <2>7, <2>9, <2>10, <2>13
    <3>4. Carried(k)' = Excused' =>
             \A v \in Runners \ {w} : run[v].pc # "idle" => k \in run[v].seen
      BY <2>9, <2>10, <3>3 DEF Barred
    <3>5. k \in run'[w].seen /\ run'[w].pc = "queue"
      BY <1>2, <2>11, <2>13
    <3>6. Carried(k)' = Excused' => Barred(k)'
      <4> SUFFICES ASSUME Carried(k)' = Excused' PROVE Barred(k)'
        OBVIOUS
      <4>1. \A v \in Runners : run'[v].pc # "idle" => k \in run'[v].seen
        BY <1>2, <3>4, <3>5
      <4>2. \E v \in Runners : run'[v].pc # "idle"
        BY <3>5
      <4> QED
        BY <4>1, <4>2 DEF Barred
    <3> QED
      BY <2>1, <2>4, <3>2, <3>6 DEF Accounted
  <2>14. CASE k \notin KeysOf(written)
    <3>1. Carried(k)' <= Excused'
      BY <2>7, <2>9, <2>10, <2>14
    <3>2. Carried(k)' = Excused' => a = e /\ o = 0 /\ u = 0
      BY <2>7, <2>9, <2>10, <2>14
    <3>3. a = e /\ o = 0 /\ u = 0 => Barred(k)'
      <4>1. a = e /\ o = 0 /\ u = 0 => k \in Loaded(blind)
        BY <2>9, <2>10 DEF Barred, Loaded
      <4>2. o = 0 /\ k \in Loaded(blind) => Barred(k)'
        BY <1>2, <1>3, <2>9, <2>12 DEF Barred
      <4> QED
        BY <4>1, <4>2
    <3> QED
      BY <2>1, <2>4, <3>1, <3>2, <3>3 DEF Accounted
  <2> QED
    BY <2>13, <2>14
<1>5. ASSUME NEW v \in Runners PROVE OnePerKey(v)'
  BY <1>1, <1>2 DEF OnePerKey, Passes, RepeatInv
<1> QED
  BY <1>4, <1>5 DEF RepeatInv

LEMMA AppendAccounted ==
    ASSUME TypeOK, TypeOK', RepeatInv, NEW w \in Runners, Append(w)
    PROVE  RepeatInv'
<1>1. PICK lines \in SUBSET run[w].written, failed \in BOOLEAN :
          /\ queue' = [r \in Records |-> IF r \in lines THEN queue[r] + 1 ELSE queue[r]]
          /\ run' = [run EXCEPT ![w] = [run[w] EXCEPT !.pc = "bridge", !.queueFailed = failed]]
  BY DEF Append
<1>2. /\ run'[w].pc = "bridge" /\ run'[w].seen = run[w].seen
      /\ run'[w].written = run[w].written /\ \A v \in Runners \ {w} : run'[v] = run[v]
  BY <1>1 DEF TypeOK, Cycle
<1>3. run[w].pc = "queue" /\ index' = index /\ hist' = hist
  BY DEF Append
<1>4. ASSUME NEW k \in Keys PROVE Accounted(k)'
  <2>1. PICK P, Q : P = Pending(k) /\ Q = Pending(k)'
    OBVIOUS
  <2>2. Accounted(k) /\ IsFiniteSet(P)
    BY <2>1 DEF RepeatInv, Accounted
  <2>3. Q = P \ {w}
    BY <1>2, <2>1 DEF Pending
  <2>4. /\ IsFiniteSet(Q) /\ Cardinality(P) \in Nat /\ Cardinality(Q) \in Nat
        /\ Cardinality(Q) = IF w \in P THEN Cardinality(P) - 1 ELSE Cardinality(P)
    BY <2>2, <2>3, FS_RemoveElement, FS_CardinalityType
  <2>5. Barred(k) => Barred(k)'
    BY <1>2, <1>3 DEF Barred
  <2>6. CASE w \in P
    <3>1. PICK x : \A r \in lines : KeyOf[r] = k => r = x
      <4>1. CASE \E x \in lines : KeyOf[x] = k
        BY <1>1, <4>1, DeliveryAssumption DEF RepeatInv, OnePerKey
      <4> QED
        BY <4>1
    <3>2. \A r \in OfKey(k) : queue'[r] <= queue[r] + (IF r = x THEN 1 ELSE 0)
      BY <1>1, <3>1 DEF OfKey, TypeOK
    <3>3. PICK m, n : m = SumOf(queue, OfKey(k)) /\ n = SumOf(queue', OfKey(k))
      OBVIOUS
    <3>4. m \in Nat /\ n \in Nat /\ n <= m + 1
      BY <3>2, <3>3, LinesGrowBy
    <3>5. n + Cardinality(Q) <= m + Cardinality(P)
      BY <2>4, <2>6, <3>4
    <3>6. n + Cardinality(Q) <= Carried(k)
      BY <2>1, <3>3, <3>5 DEF Carried
    <3> QED
      BY <1>3, <2>1, <2>2, <2>4, <2>5, <3>3, <3>4, <3>6, AccountKept
  <2>7. CASE w \notin P
    <3>1. \A r \in OfKey(k) : queue'[r] = queue[r]
      <4>1. k \notin KeysOf(run[w].written)
        BY <1>3, <2>1, <2>7 DEF Pending
      <4>2. \A r \in OfKey(k) : r \in Records /\ r \notin lines
        BY <1>1, <1>4, <4>1, DeliveryAssumption DEF OfKey, KeysOf
      <4> QED
        BY <1>1, <4>2
    <3>2. PICK m, n : m = SumOf(queue, OfKey(k)) /\ n = SumOf(queue', OfKey(k))
      OBVIOUS
    <3>3. m \in Nat /\ n \in Nat /\ n <= m
      BY <3>1, <3>2, LinesStay
    <3>4. n + Cardinality(Q) <= m + Cardinality(P)
      BY <2>4, <2>7, <3>3
    <3>5. n + Cardinality(Q) <= Carried(k)
      BY <2>1, <3>2, <3>4 DEF Carried
    <3> QED
      BY <1>3, <2>1, <2>2, <2>4, <2>5, <3>2, <3>3, <3>5, AccountKept
  <2> QED
    BY <2>6, <2>7
<1>5. ASSUME NEW v \in Runners PROVE OnePerKey(v)'
  BY <1>2 DEF OnePerKey, RepeatInv
<1> QED
  BY <1>4, <1>5 DEF RepeatInv

(* A step that leaves the queue alone and puts no cycle before its append. *)
LEMMA RestAccounted ==
    ASSUME TypeOK, TypeOK', RepeatInv, NEW w \in Runners, run[w].pc # "idle",
           run'[w].pc # "queue", run'[w].written \in {run[w].written, {}}, queue' = queue,
           \A v \in Runners \ {w} : run'[v] = run[v],
           \/ Crashed
           \/ hist' = hist /\ \A k \in Keys : Barred(k) => Barred(k)'
    PROVE  RepeatInv'
<1>1. ASSUME NEW k \in Keys PROVE Accounted(k)'
  <2>1. PICK P, Q : P = Pending(k) /\ Q = Pending(k)'
    OBVIOUS
  <2>2. Accounted(k) /\ IsFiniteSet(P) /\ Q \subseteq P
    BY <2>1 DEF RepeatInv, Accounted, Pending
  <2>3. /\ IsFiniteSet(Q) /\ Cardinality(P) \in Nat /\ Cardinality(Q) \in Nat
        /\ Cardinality(Q) <= Cardinality(P)
    BY <2>2, FS_Subset, FS_CardinalityType
  <2>4. PICK m \in Nat : m = SumOf(queue, OfKey(k)) /\ m = SumOf(queue', OfKey(k))
    BY LinesStay
  <2>5. m + Cardinality(Q) <= Carried(k)
    BY <2>1, <2>3, <2>4 DEF Carried
  <2> QED
    BY <2>1, <2>2, <2>3, <2>4, <2>5, AccountKept
<1>2. ASSUME NEW v \in Runners PROVE OnePerKey(v)'
  BY DEF OnePerKey, RepeatInv
<1> QED
  BY <1>1, <1>2 DEF RepeatInv

LEMMA RepeatStep == TypeOK /\ TypeOK' /\ RepeatInv /\ [Next]_vars => RepeatInv'
<1> SUFFICES ASSUME TypeOK, TypeOK', RepeatInv, [Next]_vars PROVE RepeatInv'
  OBVIOUS
<1>1. ASSUME NEW w \in Runners, Bridge(w) \/ Report(w) PROVE RepeatInv'
  <2>1. \/ \E r \in run[w].todo : \E f \in {{}, {r}}, h \in {{}, {HashOf[r]}} : Done(w, r, f, h)
        \/ run' = [run EXCEPT ![w].pc = "index"]
    BY <1>1 DEF Bridge, NoCall, PostFails, Posted, Report
  <2>2. run \in [Runners -> Cycle]
    BY DEF TypeOK
  <2>3. /\ run[w].pc = "bridge" /\ run'[w].pc \in {"bridge", "index"}
        /\ run'[w].seen = run[w].seen /\ run'[w].written = run[w].written
        /\ \A v \in Runners \ {w} : run'[v] = run[v]
    <3>1. run[w].pc = "bridge"
      BY <1>1 DEF Bridge, Report
    <3>2. CASE run' = [run EXCEPT ![w].pc = "index"]
      BY <2>2, <3>1, <3>2 DEF Cycle
    <3>3. CASE \E r \in run[w].todo :
                  \E f \in {{}, {r}}, h \in {{}, {HashOf[r]}} : Done(w, r, f, h)
      <4>1. PICK t, f, h : run' = [run EXCEPT ![w] = [run[w] EXCEPT !.todo = t,
                                                          !.rawFailed = f, !.hashes = h]]
        BY <3>3 DEF Done
      <4> QED
        BY <2>2, <3>1, <4>1 DEF Cycle
    <3> QED
      BY <2>1, <3>2, <3>3
  <2>4. queue' = queue /\ index' = index /\ hist' = hist
    BY <1>1 DEF Bridge, Report
  <2>5. \A k \in Keys : Barred(k) => Barred(k)'
    BY <2>3, <2>4 DEF Barred
  <2> QED
    BY <2>3, <2>4, <2>5, RestAccounted
<1>2. ASSUME NEW w \in Runners, SaveIndex(w) \/ Crash(w) PROVE RepeatInv'
  <2>1. /\ run[w].pc # "idle" /\ queue' = queue /\ run' = [run EXCEPT ![w] = Idle]
    BY <1>2 DEF SaveIndex, Crash
  <2>2. /\ run'[w].pc = "idle" /\ run'[w].written = {}
        /\ \A v \in Runners \ {w} : run'[v] = run[v]
    BY <2>1 DEF TypeOK, Idle
  <2>3. CASE SaveIndex(w)
    <3>1. hist' = hist /\ index' = run[w].seen
      BY <2>3 DEF SaveIndex
    <3>2. \A k \in Keys : Barred(k) => Barred(k)'
      BY <2>1, <2>2, <3>1 DEF Barred
    <3> QED
      BY <2>1, <2>2, <3>1, <3>2, RestAccounted
  <2>4. CASE Crash(w)
    <3>1. Crashed
      BY <2>4 DEF Crash, Crashed, TypeOK
    <3> QED
      BY <2>1, <2>2, <3>1, RestAccounted
  <2> QED
    BY <1>2, <2>3, <2>4
<1>3. CASE UNCHANGED vars
  <2>1. \A k \in Keys : Pending(k)' = Pending(k) /\ Carried(k)' = Carried(k)
                        /\ Excused' = Excused /\ (Barred(k) => Barred(k)')
    BY <1>3 DEF vars, Pending, Carried, Excused, Barred
  <2> QED
    BY <1>3, <2>1 DEF vars, RepeatInv, Accounted, OnePerKey
<1> QED
  BY <1>1, <1>2, <1>3, CollectAccounted, AppendAccounted DEF Next

LEMMA InitRepeat == Init => RepeatInv
<1> SUFFICES ASSUME Init PROVE RepeatInv
  OBVIOUS
<1>1. ASSUME NEW k \in Keys PROVE Accounted(k)
  <2>1. Pending(k) = {}
    BY DEF Init, Idle, Pending
  <2>2. IsFiniteSet(OfKey(k)) /\ OfKey(k) \subseteq Records
    BY FS_Subset, DeliveryAssumption DEF OfKey
  <2>3. SumOf(queue, OfKey(k)) = 0
    BY <2>2, SumOfZeros DEF Init
  <2>4. IsFiniteSet(Pending(k)) /\ Cardinality(Pending(k)) = 0
    BY <2>1, FS_EmptySet
  <2>5. Carried(k) = 0 /\ Excused = 1
    BY <2>3, <2>4 DEF Carried, Excused, Init
  <2> QED
    BY <2>4, <2>5 DEF Accounted
<1>2. \A w \in Runners : OnePerKey(w)
  BY DEF Init, Idle, OnePerKey
<1> QED
  BY <1>1, <1>2 DEF RepeatInv

(* The bound of write_event_queue's repeats for every number of cycles: the *)
(* lines of one key are at most one more than the cycles that died, were    *)
(* started beside another or could not read the index.                      *)
THEOREM RepeatsExplained == Spec => []RepeatsAreExplained
<1>1. TypeOK /\ RepeatInv => RepeatsAreExplained
  <2> SUFFICES ASSUME TypeOK, RepeatInv, NEW k \in Keys
               PROVE  Lines(k) <= 1 + hist.crashes + hist.overlaps + hist.unread
    BY DEF RepeatsAreExplained
  <2>1. PICK m \in Nat : m = SumOf(queue, OfKey(k)) /\ m = Lines(k)
    <3>1. Lines(k) = SumOf(queue, OfKey(k))
      BY DEF Lines, SumOf, OfKey
    <3>2. OfKey(k) \subseteq Records /\ IsFiniteSet(OfKey(k))
      BY FS_Subset, DeliveryAssumption DEF OfKey
    <3>3. \A r \in OfKey(k) : queue[r] \in Nat
      BY <3>2 DEF TypeOK
    <3>4. \A r \in OfKey(k) : queue[r] <= queue[r] + (IF r = k THEN 0 ELSE 0)
      BY <3>3
    <3>5. SumOf(queue, OfKey(k)) \in Nat
      BY <3>2, <3>3, <3>4, SumGrowsBy
    <3> QED
      BY <3>1, <3>5
  <2>2. PICK c \in Nat : c = Cardinality(Pending(k))
    BY FS_CardinalityType DEF RepeatInv, Accounted
  <2>3. m + c <= 1 + hist.crashes + hist.overlaps + hist.unread
    BY <2>1, <2>2 DEF RepeatInv, Accounted, Carried, Excused
  <2>4. hist.crashes \in Nat /\ hist.overlaps \in Nat /\ hist.unread \in Nat
    BY DEF TypeOK
  <2> QED
    BY <2>1, <2>2, <2>3, <2>4
<1> QED
  BY <1>1, InitRepeat, RepeatStep, DeliveryTypes, PTL DEF Spec
=============================================================================
