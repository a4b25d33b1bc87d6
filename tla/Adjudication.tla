----------------------------- MODULE Adjudication -----------------------------
(***************************************************************************)
(* The verdicts on links between events that may be the same.  The event   *)
(* pipeline writes the links and goes on adding updates to both events;    *)
(* stage 3 of the ingestion cycle and the backfill scheduler list the      *)
(* links without a verdict and judge them, each run in one READ COMMITTED  *)
(* transaction.  Stage 3 lists all of them by id, which is random; the     *)
(* scheduler as many as its limit by age.  Neither takes a lock before it  *)
(* writes.  An event that a link names cannot be deleted (RESTRICT).       *)
(***************************************************************************)
EXTENDS Naturals, FiniteSets

CONSTANTS
    Links,       \* [id, from, to, title]: rank of the id, candidate, existing, title match
    Events,
    Types,       \* source types of evidence
    Publishable, \* official, article
    Known,       \* those the adjudicator knows; the fall-back "rss" is none
    Days,        \* first_seen_at, in days
    Newborn,     \* what events are created with
    Near, Far,   \* _DATE_NEAR_DAYS, _DATE_FAR_DAYS
    Judges,      \* processes that judge
    Scheduler,   \* the one that lists by age, with a limit
    Limit,
    None,
    MaxAppends,  \* bound: updates that are added
    MaxFaults    \* bound: database errors and dying processes

Titles == {"none", "generic", "some", "high"}
Statuses == {"likely_same_event", "ambiguous", "likely_different_event", "insufficient_features"}
View == [types : (SUBSET Types) \ {{}}, seen : Days]

ASSUME AdjudicationAssumption ==
    /\ Links \subseteq [id : Nat, from : Events, to : Events, title : Titles]
    /\ IsFiniteSet(Links) /\ IsFiniteSet(Events) /\ \A l, k \in Links : l.id = k.id => l = k
    /\ Publishable \subseteq Known /\ Known \subseteq Types
    /\ Newborn \subseteq View /\ Days \subseteq Nat
    /\ Near \in Nat /\ Far \in Nat /\ Limit \in Nat \ {0}
    /\ None \notin Statuses /\ None \notin View
    /\ MaxAppends \in Nat /\ MaxFaults \in Nat

VARIABLES
    event,   \* of each event: source types of its evidence, and first_seen_at
    made,    \* created_at of each link, 0 of one not written yet
    verdict, \* event_identity_adjudication
    job,     \* the run of each judge, with its open transaction
    appends, faults

vars == <<event, made, verdict, job, appends, faults>>

NoVerdicts == [l \in Links |-> None]
Idle == [pc |-> "idle", page |-> {}, multiple |-> {}, views |-> [e \in Events |-> None],
         tx |-> NoVerdicts]

Init ==
    /\ event \in [Events -> Newborn]
    /\ made = [l \in Links |-> 0]
    /\ verdict = NoVerdicts
    /\ job = [j \in Judges |-> Idle]
    /\ appends = 0 /\ faults = 0

Made == {l \in Links : made[l] > 0}

-----------------------------------------------------------------------------
(* The event pipeline. *)

HoldLink(l) ==
    /\ made[l] = 0
    /\ made' = [made EXCEPT ![l] = Cardinality(Made) + 1]
    /\ UNCHANGED <<event, verdict, job, appends, faults>>

(* append_update: first_seen_at moves to the past only. *)
AppendUpdate(e, type, day) ==
    /\ appends < MaxAppends
    /\ event' = [event EXCEPT ![e] = [types |-> @.types \cup {type},
                                      seen |-> IF day < @.seen THEN day ELSE @.seen]]
    /\ appends' = appends + 1
    /\ UNCHANGED <<made, verdict, job, faults>>

-----------------------------------------------------------------------------
(* classify_identity_candidate, in its order. *)

Apart(a, b) == IF a.seen < b.seen THEN b.seen - a.seen ELSE a.seen - b.seen

Unfit(a, b) ==
    \/ ~(a.types \cup b.types \subseteq Known)
    \/ a.types \cap Publishable = {} \/ b.types \cap Publishable = {}

Classified(title, multiple, a, b) ==
    IF Unfit(a, b) THEN "insufficient_features"
    ELSE IF multiple THEN "ambiguous"
    ELSE IF title \in {"none", "generic"} THEN "insufficient_features"
    ELSE IF Apart(a, b) > Far THEN "likely_different_event"
    ELSE IF title = "high" /\ Apart(a, b) <= Near THEN "likely_same_event" ELSE "ambiguous"

(* _semantic_links: the links without a verdict, by age or by id. *)
Pending == {l \in Made : verdict[l] = None}
Older(l) == {k \in Pending : made[k] < made[l]}
Page(j) == {l \in Pending : j = Scheduler => Cardinality(Older(l)) < Limit}
Before(j, k, l) == IF j = Scheduler THEN made[k] < made[l] ELSE k.id < l.id
Foremost(j, l) == l \in job[j].page /\ \A k \in job[j].page : ~Before(j, k, l)

List(j) ==
    /\ job[j].pc = "idle" /\ Pending # {}
    /\ job' = [job EXCEPT ![j].pc = "count", ![j].page = Page(j)]
    /\ UNCHANGED <<event, made, verdict, appends, faults>>

(* Mutant: only the links of the page are counted. *)
TargetsOnPage(j, e) == {x \in Events : \E l \in job[j].page : l.from = e /\ l.to = x}

(* _candidate_target_counts: all links of the candidate, judged or not.     *)
Targets(j, e) == {x \in Events : \E l \in Made : l.from = e /\ l.to = x}

Count(j) ==
    /\ job[j].pc = "count"
    /\ job' = [job EXCEPT ![j].pc = "judge",
                          ![j].multiple = {l.from : l \in {k \in job[j].page :
                                              Cardinality(Targets(j, k.from)) > 1}}]
    /\ UNCHANGED <<event, made, verdict, appends, faults>>

(* _load_event_view, once in a run for each event. *)
LoadView(j, e) ==
    /\ job[j].pc = "judge" /\ job[j].views[e] = None
    /\ \E l \in Links : Foremost(j, l) /\ e = (IF job[j].views[l.from] = None THEN l.from ELSE l.to)
    /\ job' = [job EXCEPT ![j].views[e] = event[e]]
    /\ UNCHANGED <<event, made, verdict, appends, faults>>

Loaded(j, l) == job[j].views[l.from] # None /\ job[j].views[l.to] # None
RowFree(j, l) == \A k \in Judges \ {j} : job[k].tx[l] = None

(* adjudicate and the upsert, which waits for another run that has written  *)
(* the row and not committed, and then overwrites what it wrote.            *)
Upsert(j, l) ==
    /\ job[j].pc = "judge" /\ Foremost(j, l) /\ Loaded(j, l) /\ RowFree(j, l)
    /\ job' = [job EXCEPT ![j].page = @ \ {l},
                          ![j].tx[l] = Classified(l.title, l.from \in job[j].multiple,
                                                  job[j].views[l.from], job[j].views[l.to])]
    /\ UNCHANGED <<event, made, verdict, appends, faults>>

(* Mutant: the transaction is left open. *)
LeftOpen(j) == [Idle EXCEPT !.tx = job[j].tx]
Ended(j) == Idle

Commit(j) ==
    /\ job[j].pc = "judge" /\ job[j].page = {}
    /\ verdict' = [l \in Links |-> IF job[j].tx[l] = None THEN verdict[l] ELSE job[j].tx[l]]
    /\ job' = [job EXCEPT ![j] = Ended(j)]
    /\ UNCHANGED <<event, made, appends, faults>>

(* An error or the end of the process: nothing of the run is kept. *)
Fail(j) ==
    /\ job[j].pc # "idle" /\ faults < MaxFaults
    /\ job' = [job EXCEPT ![j] = Idle]
    /\ faults' = faults + 1
    /\ UNCHANGED <<event, made, verdict, appends>>

WaitsFor(j, k) ==
    /\ job[j].pc = "judge"
    /\ \E l \in Links : Foremost(j, l) /\ Loaded(j, l) /\ job[k].tx[l] # None

(* Mutant: nothing breaks a cycle of waits. *)
NoVictim(j) == FALSE /\ UNCHANGED vars

(* By id and by age are two orders: PostgreSQL ends one of two runs that    *)
(* wait for each other.                                                     *)
DeadlockAbort(j) ==
    /\ \E k \in Judges \ {j} : WaitsFor(j, k) /\ WaitsFor(k, j)
    /\ job' = [job EXCEPT ![j] = Idle]
    /\ UNCHANGED <<event, made, verdict, appends, faults>>

Step(j) ==
    \/ List(j) \/ Count(j) \/ Commit(j) \/ DeadlockAbort(j)
    \/ \E e \in Events : LoadView(j, e)
    \/ \E l \in Links : Upsert(j, l)

Next ==
    \/ \E l \in Links : HoldLink(l)
    \/ \E e \in Events, type \in Types, day \in Days : AppendUpdate(e, type, day)
    \/ \E j \in Judges : Step(j) \/ Fail(j)

Spec == Init /\ [][Next]_vars

(* Stage 3 runs in each cycle and the scheduler ticks for ever.  A run that *)
(* waits for a row is the first to get it when its holder ends.             *)
Fairness == \A j \in Judges : WF_vars(Step(j)) /\ \A l \in Links : SF_vars(Upsert(j, l))

-----------------------------------------------------------------------------
Job == [pc : {"idle", "count", "judge"}, page : SUBSET Links, multiple : SUBSET Events,
        views : [Events -> View \cup {None}], tx : [Links -> Statuses \cup {None}]]

(* The type invariant.  A run that has not begun to judge, or has ended,    *)
(* holds no row, so that nobody waits for it.                               *)
TypeOK ==
    /\ event \in [Events -> View]
    /\ made \in [Links -> Nat]
    /\ verdict \in [Links -> Statuses \cup {None}]
    /\ job \in [Judges -> Job]
    /\ appends \in 0..MaxAppends /\ faults \in 0..MaxFaults
    /\ \A j \in Judges : job[j].pc # "judge" => job[j].tx = NoVerdicts

(* A link is called likely_same_event only if both events have publishable  *)
(* evidence, and no event is called likely the same as two others, however  *)
(* its links are spread over pages, runs and processes (multiple_candidates *)
(* before the title, counted over all links of the candidate: ADR#49).      *)
Same == {l \in Links : verdict[l] = "likely_same_event"}
SameIsEarned ==
    /\ \A l \in Same : /\ event[l.from].types \cap Publishable # {}
                       /\ event[l.to].types \cap Publishable # {}
    /\ \A l, k \in Same : l.from = k.from => l.to = k.to

(* Each link gets a verdict, whatever order the runs write in: that the     *)
(* listed links have none is what drives the backfill, not its cursor.      *)
EveryLinkJudged == \A l \in Links : l \in Made ~> verdict[l] # None
=============================================================================
