-------------------------- MODULE AdjudicationProofs --------------------------
(***************************************************************************)
(* No event is called likely the same as two others, for any number of     *)
(* links, judges and updates.  The argument: a run counts the targets of a *)
(* candidate after it has listed the candidate's link, so that it sees     *)
(* every link that is older than the one it judges; of two links to        *)
(* different events the younger is never called likely the same.           *)
(***************************************************************************)
EXTENDS Adjudication, FiniteSetTheorems, TLAPS

(* What a link that is called likely the same has behind it. *)
AloneSoFar(l) == \A k \in Links : (made[k] > 0 /\ made[k] < made[l] /\ k.from = l.from) => k.to = l.to
Sourced(e) == event[e].types \cap Publishable # {}
Earned(l) == l \in Made /\ AloneSoFar(l) /\ Sourced(l.from) /\ Sourced(l.to)

Aged == /\ \A l \in Links : made[l] <= Cardinality(Made)
        /\ \A l, k \in Made : made[l] = made[k] => l = k
Seen == \A j \in Judges : \A e \in Events :
            job[j].views[e] # None => job[j].views[e].types \subseteq event[e].types
Counted == \A j \in Judges : \A l \in job[j].page :
            /\ l \in Made
            /\ job[j].pc = "judge" /\ l.from \notin job[j].multiple => AloneSoFar(l)
Written == \A j \in Judges : \A l \in Links :
            /\ job[j].tx[l] # None => l \in Made
            /\ job[j].tx[l] = "likely_same_event" => Earned(l)
Kept == \A l \in Links : verdict[l] = "likely_same_event" => Earned(l)
AInv == TypeOK /\ Aged /\ Seen /\ Counted /\ Written /\ Kept

USE AdjudicationAssumption DEF Idle, NoVerdicts

-----------------------------------------------------------------------------
(* Type correctness. *)

LEMMA MadeIsFinite == IsFiniteSet(Made) /\ Cardinality(Made) \in Nat
BY FS_Subset, FS_CardinalityType DEF Made

LEMMA PageOfPending == ASSUME NEW j \in Judges
                       PROVE  Page(j) \subseteq Links /\ \A l \in Page(j) : l \in Made
BY DEF Page, Pending, Made

LEMMA ClassifiedType == ASSUME NEW t, NEW m, NEW a, NEW b PROVE Classified(t, m, a, b) \in Statuses
BY DEF Classified, Statuses

LEMMA TypeInit == Init => TypeOK
BY DEF Init, TypeOK, Job, Statuses, Made, View

LEMMA TypeHold == ASSUME TypeOK, NEW l \in Links, HoldLink(l) PROVE TypeOK'
<1>1. made' \in [Links -> Nat]
  BY MadeIsFinite DEF TypeOK, HoldLink
<1>. QED  BY <1>1 DEF TypeOK, HoldLink

LEMMA TypeAppend ==
    ASSUME TypeOK, NEW e \in Events, NEW type \in Types, NEW day \in Days, AppendUpdate(e, type, day)
    PROVE  TypeOK'
<1>. DEFINE v == [types |-> event[e].types \cup {type},
                  seen |-> IF day < event[e].seen THEN day ELSE event[e].seen]
<1>1. v \in View
  <2>1. event[e] \in View
    BY DEF TypeOK
  <2>2. event[e].types \cup {type} \in (SUBSET Types) \ {{}}
    BY <2>1 DEF View
  <2>3. (IF day < event[e].seen THEN day ELSE event[e].seen) \in Days
    BY <2>1 DEF View
  <2>. QED  BY <2>2, <2>3 DEF View
<1>2. event' = [event EXCEPT ![e] = v]
  BY DEF AppendUpdate
<1>3. event' \in [Events -> View]
  BY <1>1, <1>2 DEF TypeOK
<1>4. appends' \in 0..MaxAppends
  BY DEF TypeOK, AppendUpdate
<1>. QED  BY <1>3, <1>4 DEF TypeOK, AppendUpdate

(* The step of one judge: its new record fits. *)
LEMMA JobStep ==
    ASSUME TypeOK, NEW j \in Judges, NEW r \in Job, job' = [job EXCEPT ![j] = r],
           r.pc # "judge" => r.tx = NoVerdicts
    PROVE  job' \in [Judges -> Job] /\ \A k \in Judges : job'[k].pc # "judge" => job'[k].tx = NoVerdicts
BY DEF TypeOK

LEMMA TypeJudge == ASSUME TypeOK, NEW j \in Judges, Step(j) \/ Fail(j) PROVE TypeOK'
<1>0. Idle \in Job /\ Idle.tx = NoVerdicts
  BY DEF Job
<1>j. job[j] \in Job
  BY DEF TypeOK
<1>1. CASE List(j)
  <2>. DEFINE r == [job[j] EXCEPT !.pc = "count", !.page = Page(j)]
  <2>1. r \in Job
    BY <1>j, PageOfPending DEF Job
  <2>2. job' = [job EXCEPT ![j] = r] /\ r.tx = NoVerdicts
    BY <1>1, <1>j DEF List, TypeOK, Job
  <2>. HIDE DEF r
  <2>. QED  BY <1>1, <2>1, <2>2, JobStep DEF TypeOK, List
<1>2. CASE Count(j)
  <2>. DEFINE m == {l.from : l \in {k \in job[j].page : Cardinality(Targets(j, k.from)) > 1}}
              r == [job[j] EXCEPT !.pc = "judge", !.multiple = m]
  <2>1. m \subseteq Events
    BY <1>j DEF Job
  <2>2. job' = [job EXCEPT ![j] = r]
    BY <1>2 DEF Count, TypeOK
  <2>. HIDE DEF m
  <2>3. r \in Job /\ r.pc = "judge"
    BY <1>j, <2>1 DEF Job
  <2>. HIDE DEF r
  <2>. QED  BY <1>2, <2>2, <2>3, JobStep DEF TypeOK, Count
<1>3. CASE Commit(j)
  <2>1. job' = [job EXCEPT ![j] = Idle]
    BY <1>3 DEF Commit, Ended
  <2>2. \A l \in Links : job[j].tx[l] \in Statuses \cup {None}
    BY <1>j DEF Job
  <2>3. verdict' \in [Links -> Statuses \cup {None}]
    BY <1>3, <2>2 DEF TypeOK, Commit
  <2>. QED  BY <1>0, <1>3, <2>1, <2>3, JobStep DEF TypeOK, Commit
<1>4. CASE DeadlockAbort(j)
  BY <1>0, <1>4, JobStep DEF TypeOK, DeadlockAbort
<1>5. ASSUME NEW e \in Events, LoadView(j, e) PROVE TypeOK'
  <2>. DEFINE r == [job[j] EXCEPT !.views[e] = event[e]]
  <2>1. event[e] \in View
    BY DEF TypeOK
  <2>2. r \in Job /\ r.pc = "judge"
    BY <1>j, <1>5, <2>1 DEF LoadView, Job
  <2>3. job' = [job EXCEPT ![j] = r]
    BY <1>5 DEF LoadView, TypeOK
  <2>. HIDE DEF r
  <2>. QED  BY <1>5, <2>2, <2>3, JobStep DEF TypeOK, LoadView
<1>6. ASSUME NEW l \in Links, Upsert(j, l) PROVE TypeOK'
  <2>. DEFINE s == Classified(l.title, l.from \in job[j].multiple, job[j].views[l.from], job[j].views[l.to])
              r == [job[j] EXCEPT !.page = job[j].page \ {l}, !.tx[l] = s]
  <2>1. s \in Statuses
    BY ClassifiedType
  <2>2. job' = [job EXCEPT ![j] = r]
    <3>1. job \in [Judges -> Job]
      BY DEF TypeOK
    <3>2. job' = [job EXCEPT ![j].page = job[j].page \ {l}, ![j].tx[l] = s]
      BY <1>6 DEF Upsert
    <3>. HIDE DEF s
    <3>. QED  BY <3>1, <3>2
  <2>. HIDE DEF s
  <2>3. r \in Job /\ r.pc = "judge"
    BY <1>j, <1>6, <2>1 DEF Upsert, Job
  <2>. HIDE DEF r
  <2>. QED  BY <1>6, <2>2, <2>3, JobStep DEF TypeOK, Upsert
<1>7. CASE Fail(j)
  BY <1>0, <1>7, JobStep DEF TypeOK, Fail
<1>. QED  BY <1>1, <1>2, <1>3, <1>4, <1>5, <1>6, <1>7 DEF Step

(* The tables and the runs keep their shape, and a run that does not judge *)
(* holds no row.                                                            *)
THEOREM AdjudicationTypes == Spec => []TypeOK
<1>1. TypeOK /\ [Next]_vars => TypeOK'
  <2>. SUFFICES ASSUME TypeOK, [Next]_vars PROVE TypeOK'
    OBVIOUS
  <2>1. CASE UNCHANGED vars
    BY <2>1 DEF vars, TypeOK
  <2>. QED  BY <2>1, TypeHold, TypeAppend, TypeJudge DEF Next
<1>. QED  BY <1>1, TypeInit, PTL DEF Spec

-----------------------------------------------------------------------------
(* Links only grow older, evidence only grows: what is earned stays so. *)

LEMMA NewestLink == ASSUME TypeOK, Aged, NEW l \in Links, HoldLink(l)
    PROVE  /\ Aged' /\ Made \subseteq Made' /\ \A k \in Made : made'[k] = made[k] /\ made'[k] < made'[l]
           /\ \A k \in Links \ {l} : made'[k] = made[k]
<1>1. /\ Made' = Made \cup {l} /\ l \notin Made
      /\ made'[l] = Cardinality(Made) + 1 /\ \A k \in Links \ {l} : made'[k] = made[k]
  <2>1. made' = [made EXCEPT ![l] = Cardinality(Made) + 1] /\ made[l] = 0
    BY DEF HoldLink
  <2>2. made'[l] = Cardinality(Made) + 1 /\ \A k \in Links \ {l} : made'[k] = made[k]
    BY <2>1 DEF TypeOK
  <2>3. made'[l] > 0
    BY <2>2, MadeIsFinite
  <2>4. Made' = {k \in Links : made'[k] > 0}
    BY DEF Made
  <2>. QED  BY <2>1, <2>2, <2>3, <2>4 DEF Made
<1>2. Cardinality(Made') = Cardinality(Made) + 1
  BY <1>1, MadeIsFinite, FS_AddElement
<1>3. \A k \in Links : made[k] \in Nat
  BY DEF TypeOK
<1>4. Made \subseteq Links
  BY DEF Made
<1>. QED  BY <1>1, <1>2, <1>3, <1>4, MadeIsFinite DEF Aged

LEMMA AloneStays == ASSUME TypeOK, Aged, NEW l \in Links, HoldLink(l), NEW k \in Made, AloneSoFar(k)
                    PROVE  AloneSoFar(k)'
<1>1. \A x \in Links : made'[x] > 0 /\ made'[x] < made'[k] => made'[x] = made[x] /\ x # l
  <2>1. made'[k] < made'[l] /\ made'[k] \in Nat /\ made'[l] \in Nat
    BY NewestLink, TypeHold DEF TypeOK, Made
  <2>. QED  BY <2>1, NewestLink
<1>2. made'[k] = made[k]
  BY NewestLink
<1>. QED  BY <1>1, <1>2 DEF AloneSoFar

(* A step that touches neither links nor evidence changes nothing of it. *)
LEMMA EarnedStays == ASSUME UNCHANGED <<made, event>>, NEW l \in Links
                     PROVE  Earned(l)' = Earned(l) /\ AloneSoFar(l)' = AloneSoFar(l) /\ Made' = Made
BY DEF Earned, AloneSoFar, Sourced, Made

LEMMA InvInit == Init => AInv
<1>. SUFFICES ASSUME Init PROVE AInv
  OBVIOUS
<1>1. Made = {} /\ Cardinality(Made) \in Nat
  BY MadeIsFinite DEF Init, Made
<1>2. Aged
  BY <1>1 DEF Init, Aged
<1>3. \A j \in Judges : job[j] = Idle
  BY DEF Init
<1>4. Seen /\ Counted
  BY <1>3 DEF Seen, Counted
<1>5. Written /\ Kept
  BY <1>3 DEF Init, Written, Kept, Statuses
<1>. QED  BY <1>2, <1>4, <1>5, TypeInit DEF AInv

LEMMA InvHold == ASSUME AInv, NEW l \in Links, HoldLink(l) PROVE AInv'
<1>1. TypeOK /\ Aged /\ TypeOK' /\ Aged' /\ Made \subseteq Made'
  BY NewestLink, TypeHold DEF AInv
<1>2. UNCHANGED <<event, job, verdict>>
  BY DEF HoldLink
<1>3. \A k \in Made : AloneSoFar(k) => AloneSoFar(k)'
  BY <1>1, AloneStays
<1>4. \A k \in Links : Earned(k) => Earned(k)'
  BY <1>1, <1>2, <1>3 DEF Earned, Sourced
<1>5. Seen'
  BY <1>2 DEF AInv, Seen
<1>6. Counted'
  BY <1>1, <1>2, <1>3 DEF AInv, Counted
<1>7. Written' /\ Kept'
  BY <1>1, <1>2, <1>4 DEF AInv, Written, Kept
<1>. QED  BY <1>1, <1>5, <1>6, <1>7 DEF AInv

LEMMA InvAppend ==
    ASSUME AInv, NEW e \in Events, NEW type \in Types, NEW day \in Days, AppendUpdate(e, type, day)
    PROVE  AInv'
<1>1. TypeOK /\ TypeOK' /\ UNCHANGED <<made, job, verdict>>
  BY TypeAppend DEF AInv, AppendUpdate
<1>2. \A x \in Events : event[x].types \subseteq event'[x].types
  BY <1>1 DEF AppendUpdate, TypeOK
<1>3. \A k \in Links : k.from \in Events /\ k.to \in Events
  OBVIOUS
<1>4. \A k \in Links : (AloneSoFar(k) => AloneSoFar(k)') /\ (Earned(k) => Earned(k)')
  BY <1>1, <1>2, <1>3 DEF Earned, AloneSoFar, Sourced, Made
<1>5. Aged'
  BY <1>1 DEF AInv, Aged, Made
<1>6. Seen'
  BY <1>1, <1>2 DEF AInv, Seen
<1>7. Counted'
  <2>1. \A j \in Judges : job[j].page \subseteq Links
    BY <1>1 DEF TypeOK, Job
  <2>. QED  BY <1>1, <1>4, <2>1 DEF AInv, Counted, Made
<1>8. Written' /\ Kept'
  BY <1>1, <1>4 DEF AInv, Written, Kept, Made
<1>. QED  BY <1>1, <1>5, <1>6, <1>7, <1>8 DEF AInv

-----------------------------------------------------------------------------
(* The steps of a judge. *)

(* Two targets are more than one. *)
LEMMA TwoAreMore == ASSUME NEW S, IsFiniteSet(S), NEW a \in S, NEW b \in S, a # b PROVE Cardinality(S) > 1
<1>1. IsFiniteSet({b}) /\ Cardinality({b}) = 1
  BY FS_Singleton
<1>2. Cardinality({b} \cup {a}) = 1 + 1
  BY <1>1, FS_AddElement
<1>3. Cardinality({b} \cup {a}) <= Cardinality(S)
  BY FS_Subset
<1>4. Cardinality(S) \in Nat
  BY FS_CardinalityType
<1>. DEFINE n == Cardinality(S)
<1>5. n \in Nat /\ 1 + 1 <= n
  BY <1>2, <1>3, <1>4
<1>. HIDE DEF n
<1>6. n > 1
  BY <1>5
<1>. QED  BY <1>6 DEF n

LEMMA NotMultiple == ASSUME TypeOK, NEW j \in Judges, NEW l \in Made, Cardinality(Targets(j, l.from)) <= 1
                     PROVE  AloneSoFar(l)
<1>. SUFFICES ASSUME NEW k \in Links, made[k] > 0, k.from = l.from, k.to # l.to PROVE FALSE
  BY DEF AloneSoFar
<1>1. IsFiniteSet(Targets(j, l.from))
  BY FS_Subset DEF Targets
<1>2. k.to \in Targets(j, l.from) /\ l.to \in Targets(j, l.from)
  BY DEF Targets, Made
<1>3. Cardinality(Targets(j, l.from)) > 1
  BY <1>1, <1>2, TwoAreMore
<1>. QED  BY <1>1, <1>3, FS_CardinalityType

LEMMA LikelySame ==
    ASSUME NEW t, NEW m \in BOOLEAN, NEW a, NEW b, Classified(t, m, a, b) = "likely_same_event"
    PROVE  ~m /\ a.types \cap Publishable # {} /\ b.types \cap Publishable # {}
BY DEF Classified, Unfit

(* A job that is ended, or starts, has nothing to answer for. *)
LEMMA InvEnded ==
    ASSUME AInv, NEW j \in Judges, job' = [job EXCEPT ![j] = Idle], UNCHANGED <<event, made>>
    PROVE  Aged' /\ Seen' /\ Counted' /\ Written'
<1>1. \A k \in Judges : job'[k] = IF k = j THEN Idle ELSE job[k]
  BY DEF AInv, TypeOK
<1>2. \A l \in Links : /\ Earned(l)' = Earned(l) /\ AloneSoFar(l)' = AloneSoFar(l)
  BY EarnedStays
<1>3. Made' = Made /\ Aged'
  BY DEF AInv, Aged, Made
<1>4. Seen'
  BY <1>1 DEF AInv, Seen
<1>5. Counted'
  <2>1. \A k \in Judges : job[k].page \subseteq Links
    BY DEF AInv, TypeOK, Job
  <2>. QED  BY <1>1, <1>2, <1>3, <2>1 DEF AInv, Counted
<1>6. Written'
  BY <1>1, <1>2, <1>3 DEF AInv, Written, Statuses
<1>. QED  BY <1>3, <1>4, <1>5, <1>6

LEMMA InvJudge == ASSUME AInv, NEW j \in Judges, Step(j) \/ Fail(j) PROVE AInv'
<1>0. TypeOK /\ TypeOK'
  BY TypeJudge DEF AInv
<1>e. UNCHANGED <<made, event>>
  BY DEF Step, List, Count, LoadView, Upsert, Commit, DeadlockAbort, Fail
<1>k. \A l \in Links : Earned(l)' = Earned(l) /\ AloneSoFar(l)' = AloneSoFar(l)
  BY <1>e, EarnedStays
<1>m. Made' = Made /\ Aged' /\ Made \subseteq Links
  BY <1>e DEF AInv, Aged, Made
<1>p. \A k \in Judges : job[k].page \subseteq Links /\ job'[k].page \subseteq Links
  BY <1>0 DEF TypeOK, Job
<1>x. \A k \in Judges \ {j} : job'[k] = job[k]
  BY <1>0 DEF Step, List, Count, LoadView, Upsert, Commit, DeadlockAbort, Fail, TypeOK
<1>1. CASE List(j)
  <2>1. job'[j] = [job[j] EXCEPT !.pc = "count", !.page = Page(j)]
    BY <1>0, <1>1 DEF List, TypeOK
  <2>2. job'[j].page \subseteq Made /\ job'[j].pc = "count"
    BY <2>1, PageOfPending, <1>0 DEF TypeOK, Job
  <2>3. job'[j].views = job[j].views /\ job'[j].tx = job[j].tx
    BY <2>1, <1>0 DEF TypeOK, Job
  <2>4. Counted'
    BY <1>k, <1>m, <1>p, <1>x, <2>2 DEF AInv, Counted
  <2>5. Seen'
    BY <1>e, <1>x, <2>3 DEF AInv, Seen
  <2>7. Kept'
    BY <1>1, <1>k DEF AInv, Kept, List
  <2>6. Written' /\ Kept'
    BY <1>k, <1>m, <1>x, <2>3, <2>7 DEF AInv, Written
  <2>. QED  BY <1>0, <1>m, <2>4, <2>5, <2>6 DEF AInv
<1>2. CASE Count(j)
  <2>. DEFINE m == {l.from : l \in {k \in job[j].page : Cardinality(Targets(j, k.from)) > 1}}
  <2>1. job'[j] = [job[j] EXCEPT !.pc = "judge", !.multiple = m]
    BY <1>0, <1>2 DEF Count, TypeOK
  <2>2. /\ job'[j].page = job[j].page /\ job'[j].multiple = m
        /\ job'[j].views = job[j].views /\ job'[j].tx = job[j].tx
    BY <2>1, <1>0 DEF TypeOK, Job
  <2>3. \A l \in job[j].page : l.from \notin m => AloneSoFar(l)
    <3>. SUFFICES ASSUME NEW l \in job[j].page, l.from \notin m PROVE AloneSoFar(l)
      OBVIOUS
    <3>1. l \in Made
      BY DEF AInv, Counted
    <3>2. IsFiniteSet(Targets(j, l.from))
      BY FS_Subset DEF Targets
    <3>3. ~(Cardinality(Targets(j, l.from)) > 1)
      OBVIOUS
    <3>. QED  BY <1>0, <3>1, <3>2, <3>3, NotMultiple, FS_CardinalityType
  <2>. HIDE DEF m
  <2>4. Counted'
    BY <1>k, <1>m, <1>p, <1>x, <2>2, <2>3 DEF AInv, Counted
  <2>5. Seen'
    BY <1>e, <1>x, <2>2 DEF AInv, Seen
  <2>7. Kept'
    BY <1>2, <1>k DEF AInv, Kept, Count
  <2>6. Written' /\ Kept'
    BY <1>k, <1>m, <1>x, <2>2, <2>7 DEF AInv, Written
  <2>. QED  BY <1>0, <1>m, <2>4, <2>5, <2>6 DEF AInv
<1>3. ASSUME NEW e \in Events, LoadView(j, e) PROVE AInv'
  <2>1. job'[j] = [job[j] EXCEPT !.views[e] = event[e]]
    BY <1>0, <1>3 DEF LoadView, TypeOK
  <2>2. /\ job'[j].page = job[j].page /\ job'[j].multiple = job[j].multiple
        /\ job'[j].pc = job[j].pc /\ job'[j].tx = job[j].tx
        /\ job'[j].views = [job[j].views EXCEPT ![e] = event[e]]
    BY <2>1, <1>0 DEF TypeOK, Job
  <2>3. \A x \in Events : job'[j].views[x] = IF x = e THEN event[e] ELSE job[j].views[x]
    BY <2>2, <1>0 DEF TypeOK, Job
  <2>4. Seen'
    BY <1>e, <1>x, <2>3 DEF AInv, Seen
  <2>5. Counted'
    BY <1>k, <1>m, <1>p, <1>x, <2>2 DEF AInv, Counted
  <2>6. Written' /\ Kept'
    BY <1>3, <1>k, <1>m, <1>x, <2>2 DEF AInv, Written, Kept, LoadView
  <2>. QED  BY <1>0, <1>m, <2>4, <2>5, <2>6 DEF AInv
<1>4. ASSUME NEW l \in Links, Upsert(j, l) PROVE AInv'
  <2>. DEFINE s == Classified(l.title, l.from \in job[j].multiple, job[j].views[l.from], job[j].views[l.to])
  <2>1. job'[j] = [job[j] EXCEPT !.page = job[j].page \ {l}, !.tx[l] = s]
    BY <1>0, <1>4 DEF Upsert, TypeOK
  <2>2. l \in job[j].page /\ l \in Made /\ job[j].pc = "judge" /\ Loaded(j, l)
    BY <1>4 DEF Upsert, Foremost, AInv, Counted
  <2>3. s = "likely_same_event" => Earned(l)
    <3>. SUFFICES ASSUME s = "likely_same_event" PROVE Earned(l)
      OBVIOUS
    <3>0. /\ Classified(l.title, l.from \in job[j].multiple, job[j].views[l.from], job[j].views[l.to])
                = "likely_same_event"
          /\ (l.from \in job[j].multiple) \in BOOLEAN
      OBVIOUS
    <3>1. /\ ~(l.from \in job[j].multiple)
          /\ job[j].views[l.from].types \cap Publishable # {}
          /\ job[j].views[l.to].types \cap Publishable # {}
      BY <3>0 DEF Classified, Unfit
    <3>2. AloneSoFar(l)
      BY <2>2, <3>1 DEF AInv, Counted
    <3>3. l.from \in Events /\ l.to \in Events
      OBVIOUS
    <3>4. Sourced(l.from) /\ Sourced(l.to)
      BY <2>2, <3>1, <3>3 DEF AInv, Seen, Loaded, Sourced
    <3>. QED  BY <2>2, <3>2, <3>4 DEF Earned
  <2>. HIDE DEF s
  <2>4. /\ job'[j].page = job[j].page \ {l} /\ job'[j].multiple = job[j].multiple
        /\ job'[j].pc = job[j].pc /\ job'[j].views = job[j].views
        /\ job'[j].tx = [job[j].tx EXCEPT ![l] = s]
    BY <2>1, <1>0 DEF TypeOK, Job
  <2>5. \A k \in Links : job'[j].tx[k] = IF k = l THEN s ELSE job[j].tx[k]
    BY <2>4, <1>0 DEF TypeOK, Job
  <2>6. Seen'
    BY <1>e, <1>x, <2>4 DEF AInv, Seen
  <2>7. Counted'
    BY <1>k, <1>m, <1>p, <1>x, <2>4 DEF AInv, Counted
  <2>8. \A k \in Links : /\ job'[j].tx[k] # None => k \in Made
                         /\ job'[j].tx[k] = "likely_same_event" => Earned(k)
    <3>. SUFFICES ASSUME NEW k \in Links
                  PROVE  /\ job'[j].tx[k] # None => k \in Made
                         /\ job'[j].tx[k] = "likely_same_event" => Earned(k)
      OBVIOUS
    <3>1. CASE k = l
      BY <2>2, <2>3, <2>5, <3>1
    <3>2. CASE k # l
      BY <2>5, <3>2 DEF AInv, Written
    <3>. QED  BY <3>1, <3>2
  <2>9. Written'
    BY <1>k, <1>m, <1>x, <2>8 DEF AInv, Written
  <2>10. Kept'
    BY <1>4, <1>k DEF AInv, Kept, Upsert
  <2>. QED  BY <1>0, <1>m, <2>6, <2>7, <2>9, <2>10 DEF AInv
<1>5. CASE Commit(j)
  <2>1. job' = [job EXCEPT ![j] = Idle]
    BY <1>5 DEF Commit, Ended
  <2>2. \A l \in Links : verdict'[l] = "likely_same_event" => Earned(l)
    BY <1>5 DEF AInv, Written, Kept, Commit
  <2>3. Kept'
    BY <1>k, <2>2 DEF Kept
  <2>. QED  BY <1>0, <1>e, <2>1, <2>3, InvEnded DEF AInv
<1>6. CASE DeadlockAbort(j) \/ Fail(j)
  <2>1. job' = [job EXCEPT ![j] = Idle] /\ verdict' = verdict
    BY <1>6 DEF DeadlockAbort, Fail
  <2>2. Kept'
    BY <1>k, <2>1 DEF AInv, Kept
  <2>. QED  BY <1>0, <1>e, <2>1, <2>2, InvEnded DEF AInv
<1>. QED  BY <1>1, <1>2, <1>3, <1>4, <1>5, <1>6 DEF Step

LEMMA InvariantHolds == Spec => []AInv
<1>1. AInv /\ [Next]_vars => AInv'
  <2>. SUFFICES ASSUME AInv, [Next]_vars PROVE AInv'
    OBVIOUS
  <2>1. CASE UNCHANGED vars
    BY <2>1 DEF vars, AInv, TypeOK, Aged, Seen, Counted, Written, Kept, Earned, AloneSoFar, Sourced, Made
  <2>. QED  BY <2>1, InvHold, InvAppend, InvJudge DEF Next
<1>. QED  BY <1>1, InvInit, PTL DEF Spec

(* A likely_same_event verdict rests on publishable evidence of both        *)
(* events, and an event is called likely the same as one other at most,     *)
(* for any number of links, pages and judging processes.                    *)
THEOREM SameOnlyOnce == Spec => []SameIsEarned
<1>1. AInv => SameIsEarned
  <2>. SUFFICES ASSUME AInv PROVE SameIsEarned
    OBVIOUS
  <2>1. \A l \in Same : l \in Links /\ Earned(l)
    BY DEF Same, AInv, Kept
  <2>2. \A l \in Same : Sourced(l.from) /\ Sourced(l.to)
    BY <2>1 DEF Earned
  <2>3. ASSUME NEW l \in Same, NEW k \in Same, l.from = k.from PROVE l.to = k.to
    <3>1. l \in Made /\ k \in Made /\ AloneSoFar(l) /\ AloneSoFar(k) /\ l \in Links /\ k \in Links
      BY <2>1 DEF Earned
    <3>2. made[l] \in Nat /\ made[k] \in Nat /\ made[l] > 0 /\ made[k] > 0
      BY <3>1 DEF AInv, TypeOK, Made
    <3>3. made[l] = made[k] => l = k
      BY <3>1 DEF AInv, Aged
    <3>. QED  BY <2>3, <3>1, <3>2, <3>3 DEF AloneSoFar
  <2>. QED  BY <2>2, <2>3 DEF SameIsEarned, Sourced
<1>. QED  BY <1>1, InvariantHolds, PTL
=============================================================================
