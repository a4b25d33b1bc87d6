------------------------ MODULE SourceScheduleProofs ------------------------
(***************************************************************************)
(* Proofs about SourceSchedule, for all runners, sources, profiles,        *)
(* intervals, lengths of cycle and numbers of accidents: the types with    *)
(* the cap on a plan, the pace a source is called at, and the quarantine   *)
(* that the health file keeps.                                             *)
(*                                                                         *)
(* The pace rests on a governor file and as many governors in memory as    *)
(* there are cycles, which never agree exactly.  For a source whose last   *)
(* call no accident has touched (not hist.loose), each of them is ahead of *)
(* what really happened by at most the length of a cycle (Ahead), except   *)
(* that the file does not tell of the call of a cycle in progress, and     *)
(* then that cycle is alone.  A source still to be probed was allowed at   *)
(* the start of the cycle, and time only makes that truer.                 *)
(***************************************************************************)
EXTENDS SourceSchedule, FiniteSetTheorems, WellFoundedInduction, TLAPS

Run ==
    [pc : {"probe", "asked", "judged", "loaded", "save"}, lag : 0..MaxLag, due : SUBSET Sources,
     gov : [Sources -> GovernorEntry], states : [Sources -> StateEntry],
     outcome : [Sources -> AllOutcomes \cup {None}],
     at : Sources \cup {None}, base : HealthEntry, new : HealthEntry,
     copy : [Sources -> HealthEntry] \cup {<<>>}]

(* What the cycle is about to write of the source it is at. *)
Judged(c) ==
    /\ c.outcome[c.at] # None
    /\ \E retry \in {0, Cooldown} : c.new = HealthAfter(c.base, c.outcome[c.at], retry)

(* A cycle in progress, with a plan no longer than the cap. *)
Whole(c) ==
    /\ c \in Run
    /\ IsFiniteSet(c.due) /\ Cardinality(c.due) <= MaxSources
    /\ IF c.pc \in {"asked", "judged", "loaded"} THEN c.at \in Sources ELSE c.at = None
    /\ IF c.pc = "loaded" THEN c.copy \in [Sources -> HealthEntry] ELSE c.copy = <<>>
    /\ c.pc \in {"judged", "loaded"} => Judged(c)

History ==
    [accidents : 0..MaxAccidents, age : [Sources -> 0..MinInterval],
     penalty : [Sources -> 0..Cooldown], loose : [Sources -> BOOLEAN],
     streak : [Sources -> 0..Threshold], rest : [Sources -> 0..QuarantineFor]]

FilesOK ==
    /\ gov \in [Sources -> GovernorEntry]
    /\ states \in [Sources -> StateEntry]
    /\ health \in [Sources -> HealthEntry]
    /\ resume \in 0..ResumeIn

RunOK ==
    /\ run \in [Runners -> Run \cup {Idle}]
    /\ \A w \in Runners : run[w] = Idle \/ Whole(run[w])

ScheduleShape == FilesOK /\ RunOK /\ hist \in History

(* What a governor says of s is ahead of the history by at most MaxLag. *)
Ahead(entry, s) ==
    /\ entry.age <= hist.age[s] + MaxLag
    /\ hist.penalty[s] <= entry.cool + MaxLag

Callable(s) == hist.age[s] + MaxLag >= MinInterval /\ hist.penalty[s] <= MaxLag
Asked(w, s) == run[w].pc = "asked" /\ run[w].at = s

Governed(s) ==
    \/ hist.loose[s]
    \/ /\ \A w \in Runners : Running(w) => Ahead(run[w].gov[s], s)
       /\ Ahead(gov[s], s) \/ \E w \in Runners : Called(w, s) /\ ~Beside(w)
       /\ \A w \in Runners : Running(w) /\ s \in run[w].due /\ ~Asked(w, s) => Callable(s)
       /\ \A w \in Runners : Asked(w, s) => ~Beside(w)

(* The health file counts at least the failures in a row that no accident   *)
(* has lost, and its deadline does not end before the quarantine does.      *)
Resting(s) ==
    /\ health[s].fails >= hist.streak[s]
    /\ hist.rest[s] > 0 =>
          health[s].state = "QUARANTINED_RETRYABLE" /\ health[s].retry >= hist.rest[s]

-----------------------------------------------------------------------------
(* The plan: at most MaxSources of the profiles' sources. *)

Listed == {Profiles[i] : i \in DOMAIN Profiles}

(* A non-empty set of numbers has a least one. *)
Below == OpToRel(<, Nat)

LEMMA LeastExists ==
    ASSUME NEW B \in SUBSET Nat, B # {}
    PROVE  \E i \in B : \A j \in B : i <= j
<1>1. PICK i \in B : \A j \in B : <<j, i>> \notin Below
  BY NatLessThanWellFounded, WFMin DEF Below
<1>2. Below = {p \in Nat \X Nat : p[1] < p[2]}
  BY Zenon DEF Below, OpToRel
<1>3. ASSUME NEW j \in B PROVE i <= j
  <2>1. <<j, i>> \notin {p \in Nat \X Nat : p[1] < p[2]}
    BY <1>1, <1>2
  <2> HIDE DEF Below
  <2>2. ~(j < i)
    BY <2>1
  <2> QED
    BY <2>2
<1> QED
  BY <1>3

LEMMA ListedParts == Listed \subseteq Sources /\ IsFiniteSet(Listed)
<1>1. Profiles \in [1..Len(Profiles) -> Sources] /\ Len(Profiles) \in Nat
  BY ScheduleAssumption
<1>2. Listed \subseteq Sources
  BY <1>1 DEF Listed
<1>3. Profiles \in Surjection(1..Len(Profiles), Listed)
  BY <1>1 DEF Listed, Surjection
<1>4. IsFiniteSet(1..Len(Profiles))
  BY <1>1, FS_Interval
<1> QED
  BY <1>2, <1>3, <1>4, FS_Surjection

(* Some member of a set of listed sources comes after all others. *)
LEMMA LastExists ==
    ASSUME NEW S, S \subseteq Listed, S # {}
    PROVE  \E s \in S : \A q \in S : q # s => Before(q, s)
<1> DEFINE n == Len(Profiles)
           B == {i \in 1..n : Profiles[i] \in S}
           C == {n - i : i \in B}
<1>1. n \in Nat /\ DOMAIN Profiles = 1..n
  BY ScheduleAssumption
<1>2. C \in SUBSET Nat
  BY <1>1
<1>3. C # {}
  <2>1. PICK i \in 1..n : Profiles[i] \in S
    BY <1>1 DEF Listed
  <2>2. i \in B
    BY <2>1
  <2> QED
    BY <2>2
<1>4. PICK m \in C : \A k \in C : m <= k
  BY <1>2, <1>3, LeastExists
<1>5. PICK i \in B : m = n - i
  BY <1>4
<1>6. ASSUME NEW q \in S, q # Profiles[i] PROVE Before(q, Profiles[i])
  <2>1. PICK j \in 1..n : Profiles[j] = q
    BY <1>1 DEF Listed
  <2>2. j \in B
    BY <2>1, <1>6
  <2>3. n - j \in C
    BY <2>2
  <2>4. n - i <= n - j
    BY <1>4, <1>5, <2>3
  <2>5. j <= i /\ j # i
    BY <1>1, <1>5, <2>1, <2>4, <1>6
  <2> QED
    BY <1>1, <1>5, <2>1, <2>5 DEF Before
<1> QED
  BY <1>5, <1>6

LEMMA PlanIsCapped ==
    ASSUME NEW g, NEW st, NEW mode
    PROVE  /\ Plan(g, st, mode) \subseteq Sources
           /\ IsFiniteSet(Plan(g, st, mode))
           /\ Cardinality(Plan(g, st, mode)) <= MaxSources
<1> DEFINE due == {s \in Listed : Due(s, g, st, mode)}
           Early(s) == {q \in due : Before(q, s)}
           plan == {s \in due : Cardinality(Early(s)) < MaxSources}
<1>0. Plan(g, st, mode) = plan
  BY DEF Plan, Listed
<1>1. due \subseteq Listed /\ plan \subseteq due
  OBVIOUS
<1>2. IsFiniteSet(due)
  BY <1>1, ListedParts, FS_Subset
<1>3. IsFiniteSet(plan)
  BY <1>1, <1>2, FS_Subset
<1>4. MaxSources \in Nat /\ Cardinality(plan) \in Nat
  BY <1>3, ScheduleAssumption, FS_CardinalityType
<1>5. CASE plan = {}
  <2>1. Cardinality(plan) = 0
    BY <1>5, FS_EmptySet
  <2> QED
    BY <1>0, <1>1, <1>3, <1>4, <2>1, ListedParts
<1>6. CASE plan # {}
  <2> HIDE DEF plan
  <2>1. plan \subseteq Listed
    BY <1>1
  <2>2. PICK s \in plan : \A q \in plan : q # s => Before(q, s)
    BY <1>6, <2>1, LastExists
  <2>3. plan \ {s} \subseteq Early(s)
    BY <1>1, <2>2
  <2>4. Early(s) \subseteq due
    OBVIOUS
  <2>5. IsFiniteSet(Early(s))
    BY <1>2, <2>4, FS_Subset
  <2>6. Cardinality(Early(s)) \in Nat
    BY <2>5, FS_CardinalityType
  <2>7. Cardinality(plan \ {s}) <= Cardinality(Early(s))
    <3> HIDE DEF Early
    <3> QED
      BY <2>3, <2>5, FS_Subset
  <2>8. Cardinality(plan \ {s}) = Cardinality(plan) - 1
    BY <1>3, <2>2, FS_RemoveElement
  <2>9. Cardinality(Early(s)) < MaxSources
    BY <2>2 DEF plan
  <2>10. Cardinality(plan) <= MaxSources
    <3> HIDE DEF Early
    <3> QED
      BY <1>4, <2>6, <2>7, <2>8, <2>9
  <2> QED
    BY <1>0, <1>1, <1>3, <2>10, ListedParts
<1> QED
  BY <1>5, <1>6

-----------------------------------------------------------------------------
(* The operators of the time and of the three files stay in their ranges.  *)

LEMMA Constants ==
    /\ MaxLag \in Nat /\ MinInterval \in Nat /\ Cooldown \in Nat /\ QuarantineFor \in Nat
    /\ Threshold \in Nat /\ MaxAccidents \in Nat /\ ResumeIn \in Nat /\ MaxSources \in Nat
  BY ScheduleAssumption

LEMMA OlderIs ==
    ASSUME NEW a \in 0..MinInterval
    PROVE  Older(a) \in 0..MinInterval /\ a <= Older(a) /\ Older(a) <= a + 1
  BY Constants DEF Older

LEMMA SoonerIs ==
    ASSUME NEW n \in Nat, NEW left \in 0..n
    PROVE  Sooner(left) \in 0..n /\ Sooner(left) <= left /\ left <= Sooner(left) + 1
  BY DEF Sooner

LEMMA UpToIs ==
    ASSUME NEW n \in 0..Threshold
    PROVE  UpTo(n) \in 0..Threshold
  BY Constants DEF UpTo

LEMMA LagIs ==
    ASSUME NEW lag \in 0..MaxLag
    PROVE  /\ SinceStart(lag) \in 0..MinInterval /\ SinceStart(lag) <= MaxLag
           /\ \A n \in Nat : Earlier(lag, n) \in 0..n /\ n <= Earlier(lag, n) + MaxLag
  BY Constants DEF SinceStart, Earlier

LEMMA RecordedIs ==
    ASSUME NEW lag \in 0..MaxLag, NEW entry \in GovernorEntry
    PROVE  /\ Recorded(entry, lag) \in GovernorEntry
           /\ Recorded(entry, lag).age <= MaxLag
           /\ Recorded(entry, lag).cool = entry.cool
<1>1. SinceStart(lag) \in 0..MinInterval /\ SinceStart(lag) <= MaxLag
  BY LagIs
<1> QED
  BY <1>1 DEF Recorded, GovernorEntry

LEMMA LimitedIs ==
    ASSUME NEW lag \in 0..MaxLag
    PROVE  /\ Limited(lag) \in GovernorEntry
           /\ Limited(lag).age <= MaxLag
           /\ Cooldown <= Limited(lag).cool + MaxLag
<1>1. SinceStart(lag) \in 0..MinInterval /\ SinceStart(lag) <= MaxLag
  BY LagIs
<1>2. Earlier(lag, Cooldown) \in 0..Cooldown /\ Cooldown <= Earlier(lag, Cooldown) + MaxLag
  BY LagIs, Constants
<1> QED
  BY <1>1, <1>2 DEF Limited, GovernorEntry

LEMMA HealthAfterIs ==
    ASSUME NEW h \in HealthEntry, NEW o \in AllOutcomes, NEW retry \in {0, Cooldown}
    PROVE  HealthAfter(h, o, retry) \in HealthEntry
<1> DEFINE m == IF Cooldown > QuarantineFor THEN Cooldown ELSE QuarantineFor
<1>1. /\ 0 \in 0..m /\ retry \in 0..m /\ QuarantineFor \in 0..m
      /\ 0 \in 0..Threshold /\ Threshold \in 0..Threshold
  BY Constants
<1>2. h.fails \in 0..Threshold /\ UpTo(h.fails) \in 0..Threshold
  BY UpToIs DEF HealthEntry
<1>3. ~(h.fails + 1 >= Threshold) => h.fails + 1 \in 0..Threshold
  BY Constants, <1>2
<1> HIDE DEF m
<1>4. HealthEntry = [state : {"HEALTHY", "DEGRADED", "RATE_LIMITED_COOLDOWN",
                              "QUARANTINED_RETRYABLE", "BLOCKED_TERMINAL"},
                     fails : 0..Threshold, retry : 0..m]
  BY DEF HealthEntry, m
<1>5. CASE o = "success"
  BY <1>1, <1>4, <1>5 DEF HealthAfter, Healthy
<1>6. CASE o = "blocked"
  BY <1>1, <1>2, <1>4, <1>6 DEF HealthAfter
<1>7. CASE o = "rate_limited"
  BY <1>1, <1>2, <1>4, <1>7 DEF HealthAfter
<1>8. CASE o \in HealthTransient
  BY <1>1, <1>2, <1>3, <1>4, <1>8 DEF HealthAfter, HealthTransient
<1>9. CASE o \in {"api_error", "other", "exception"}
  BY <1>1, <1>2, <1>4, <1>9 DEF HealthAfter, HealthTransient
<1> QED
  BY <1>5, <1>6, <1>7, <1>8, <1>9
     DEF AllOutcomes, Failures, HealthTransient, PlanRetryable

(* The counter a judgement writes keeps up with a streak that was behind it. *)
LEMMA HealthCounts ==
    ASSUME NEW h \in HealthEntry, NEW o \in AllOutcomes, NEW retry \in {0, Cooldown},
           NEW known \in 0..Threshold, known <= h.fails,
           NEW g, g = HealthAfter(h, o, retry)
    PROVE  /\ o = "success" => g.fails = 0
           /\ o = "rate_limited" => g.fails = h.fails
           /\ o \notin {"success", "rate_limited"} => g.fails >= UpTo(known)
           /\ o \in HealthTransient /\ UpTo(known) = Threshold =>
                 g.state = "QUARANTINED_RETRYABLE" /\ g.retry = QuarantineFor
<1>1. h.fails \in 0..Threshold /\ Threshold \in Nat
  BY Constants DEF HealthEntry
<1>2. UpTo(h.fails) >= UpTo(known)
  BY <1>1 DEF UpTo
<1>3. CASE o \in HealthTransient
  <2>1. g = IF h.fails + 1 >= Threshold
            THEN [state |-> "QUARANTINED_RETRYABLE", fails |-> Threshold, retry |-> QuarantineFor]
            ELSE [state |-> "DEGRADED", fails |-> h.fails + 1, retry |-> 0]
    BY <1>3 DEF HealthAfter, HealthTransient
  <2>2. UpTo(known) = Threshold => h.fails + 1 >= Threshold
    BY <1>1 DEF UpTo
  <2>3. Threshold >= UpTo(known) /\ h.fails + 1 >= UpTo(known)
    BY <1>1 DEF UpTo
  <2>4. g.fails = IF h.fails + 1 >= Threshold THEN Threshold ELSE h.fails + 1
    BY <2>1
  <2>5. g.fails >= UpTo(known)
    BY <2>3, <2>4
  <2>6. h.fails + 1 >= Threshold => g.state = "QUARANTINED_RETRYABLE" /\ g.retry = QuarantineFor
    BY <2>1
  <2> QED
    BY <1>3, <2>2, <2>5, <2>6 DEF HealthTransient
<1>4. CASE o \notin HealthTransient
  BY <1>2, <1>4 DEF HealthAfter, Healthy
<1> QED
  BY <1>3, <1>4

LEMMA PatchedIs ==
    ASSUME NEW c \in Run, NEW s \in Sources
    PROVE  Patched(c, s) \in StateEntry
<1> DEFINE st == c.states[s]
           o == c.outcome[s]
<1>1. /\ st \in StateEntry /\ o \in AllOutcomes \cup {None} /\ c.lag \in 0..MaxLag
  BY DEF Run
<1>2. /\ SinceStart(c.lag) \in 0..MinInterval
      /\ Earlier(c.lag, QuarantineFor) \in 0..QuarantineFor
  BY <1>1, LagIs, Constants
<1>3. 0 \in 0..Threshold /\ 0 \in 0..QuarantineFor
  BY Constants
<1>4. UpTo(st.fails) \in 0..Threshold
  BY <1>1, UpToIs DEF StateEntry
<1> HIDE DEF st, o
<1>5. CASE o = "success"
  <2>1. Patched(c, s) = [st EXCEPT !.fails = 0, !.success = SinceStart(c.lag)]
    BY <1>5 DEF Patched, st, o, Failures, HealthTransient, PlanRetryable
  <2> QED
    BY <1>1, <1>2, <1>3, <2>1 DEF StateEntry
<1>6. CASE o # "success" /\ o \in Failures \cup {"exception"}
  <2>1. PICK q \in 0..QuarantineFor :
            Patched(c, s) = [st EXCEPT !.fails = UpTo(@), !.quar = q]
    <3> DEFINE quar == IF Quarantined(c, s) THEN Earlier(c.lag, QuarantineFor) ELSE 0
    <3>1. quar \in 0..QuarantineFor
      BY <1>2, <1>3
    <3>2. Patched(c, s) = [st EXCEPT !.fails = UpTo(@), !.quar = quar]
      BY <1>6 DEF Patched, st, o
    <3> HIDE DEF quar
    <3> QED
      BY <3>1, <3>2
  <2> QED
    BY <1>1, <1>4, <2>1 DEF StateEntry
<1>7. CASE o # "success" /\ o \notin Failures \cup {"exception"}
  BY <1>1, <1>7 DEF Patched, st, o
<1> QED
  BY <1>5, <1>6, <1>7

-----------------------------------------------------------------------------
(* Steps of one runner. *)

OthersStay(w) == \A v \in Runners \ {w} : run'[v] = run[v]

(* The step leaves what the pace of s rests on no worse than it was. *)
Quiet(w, s) ==
    /\ gov'[s] = gov[s] /\ hist'.age[s] = hist.age[s] /\ hist'.penalty[s] = hist.penalty[s]
    /\ hist'.loose[s] = hist.loose[s]
    /\ Running(w) /\ Running(w)'
    /\ Ahead(run[w].gov[s], s) => Ahead(run'[w].gov[s], s)
    /\ run'[w].due \subseteq run[w].due
    /\ Asked(w, s)' => Asked(w, s)
    /\ Asked(w, s) /\ ~Asked(w, s)' => s \notin run'[w].due
    /\ Called(w, s) => Called(w, s)'

(* It tells the health file nothing, and the history no more of it. *)
Calm == health' = health /\ hist'.streak = hist.streak /\ hist'.rest = hist.rest

LEMMA BusyIs ==
    ASSUME RunOK, NEW w \in Runners, Running(w)
    PROVE  Whole(run[w])
  BY DEF RunOK, Running, Idle

LEMMA WholeRuns ==
    ASSUME NEW c, Whole(c)
    PROVE  c.pc # "idle" /\ c # Idle
  BY DEF Whole, Run, Idle

LEMMA StepOf ==
    ASSUME RunOK, NEW w \in Runners, NEW c, c = Idle \/ Whole(c), run' = [run EXCEPT ![w] = c]
    PROVE  RunOK' /\ run'[w] = c /\ OthersStay(w)
<1>1. c \in Run \cup {Idle}
  BY DEF Whole
<1>2. run' \in [Runners -> Run \cup {Idle}] /\ run'[w] = c
  BY <1>1 DEF RunOK
<1>3. OthersStay(w)
  BY DEF OthersStay, RunOK
<1>4. ASSUME NEW v \in Runners PROVE run'[v] = Idle \/ Whole(run'[v])
  BY <1>2, <1>3 DEF OthersStay, RunOK
<1> QED
  BY <1>2, <1>3, <1>4 DEF RunOK

LEMMA SmallerPlan ==
    ASSUME NEW c, Whole(c), NEW s
    PROVE  IsFiniteSet(c.due \ {s}) /\ Cardinality(c.due \ {s}) <= MaxSources
<1>1. IsFiniteSet(c.due) /\ Cardinality(c.due) <= MaxSources
  BY DEF Whole
<1>2. IsFiniteSet(c.due \ {s}) /\ Cardinality(c.due \ {s}) <= Cardinality(c.due)
  BY <1>1, FS_Subset
<1>3. Cardinality(c.due \ {s}) \in Nat /\ Cardinality(c.due) \in Nat
  BY <1>1, <1>2, FS_CardinalityType
<1> QED
  BY <1>1, <1>2, <1>3, Constants

(* A cycle that notes a result drops the source from its plan, fills in the  *)
(* outcome and puts into its governor what is no younger than the cycle.     *)
NotedIn(d, c, s, o) ==
    /\ Whole(d) /\ d.pc = "probe" /\ d.at = None /\ d.due = c.due \ {s}
    /\ d.outcome = [c.outcome EXCEPT ![s] = o]
    /\ \A q \in Sources \ {s} : d.gov[q] = c.gov[q]
    /\ d.gov[s] \in GovernorEntry /\ d.gov[s].age <= MaxLag
    /\ o # "rate_limited" => d.gov[s].cool = c.gov[s].cool
    /\ o = "rate_limited" => Cooldown <= d.gov[s].cool + MaxLag

LEMMA NotedIs ==
    ASSUME NEW c, Whole(c), c.pc \in {"probe", "asked"}, NEW s \in Sources, NEW o \in AllOutcomes
    PROVE  NotedIn(Noted(c, s, o), c, s, o)
<1>1. PICK entry : entry = IF o = "rate_limited" THEN Limited(c.lag) ELSE Recorded(c.gov[s], c.lag)
  OBVIOUS
<1>2. c \in Run /\ c.lag \in 0..MaxLag /\ c.gov[s] \in GovernorEntry
  BY DEF Whole, Run
<1>3. /\ entry \in GovernorEntry /\ entry.age <= MaxLag
      /\ o # "rate_limited" => entry.cool = c.gov[s].cool
      /\ o = "rate_limited" => Cooldown <= entry.cool + MaxLag
  BY <1>1, <1>2, RecordedIs, LimitedIs
<1>4. PICK d : d = Noted(c, s, o)
  OBVIOUS
<1>5. d = [c EXCEPT !.pc = "probe", !.at = None, !.due = @ \ {s}, !.outcome[s] = o,
                    !.gov[s] = entry]
  BY <1>1, <1>4 DEF Noted
<1>6. PICK outcomes, g : outcomes = [c.outcome EXCEPT ![s] = o] /\ g = [c.gov EXCEPT ![s] = entry]
  OBVIOUS
<1>7. /\ outcomes \in [Sources -> AllOutcomes \cup {None}] /\ g \in [Sources -> GovernorEntry]
      /\ g[s] = entry /\ \A q \in Sources \ {s} : g[q] = c.gov[q]
  BY <1>2, <1>3, <1>6 DEF Run
<1>8. d = [c EXCEPT !.pc = "probe", !.at = None, !.due = c.due \ {s}, !.outcome = outcomes,
                    !.gov = g]
  BY <1>2, <1>5, <1>6 DEF Run
<1>9. /\ d \in Run /\ d.pc = "probe" /\ d.at = None /\ d.due = c.due \ {s}
      /\ d.outcome = outcomes /\ d.gov = g /\ d.copy = c.copy
  BY <1>2, <1>7, <1>8 DEF Run
<1>10. c.copy = <<>>
  BY DEF Whole
<1>11. IsFiniteSet(c.due \ {s}) /\ Cardinality(c.due \ {s}) <= MaxSources
  BY SmallerPlan
<1>12. Whole(d)
  BY <1>9, <1>10, <1>11 DEF Whole
<1> QED
  BY <1>3, <1>4, <1>6, <1>7, <1>9, <1>12 DEF NotedIn

-----------------------------------------------------------------------------
(* The shape of the state, and what else each action leaves alone. *)

LEMMA InitShape == Init => ScheduleShape
<1> SUFFICES ASSUME Init PROVE ScheduleShape
  OBVIOUS
<1>1. /\ 0 \in 0..MinInterval /\ MinInterval \in 0..MinInterval /\ 0 \in 0..Cooldown
      /\ 0 \in 0..Threshold /\ 0 \in 0..QuarantineFor /\ 0 \in 0..MaxAccidents
      /\ ResumeIn \in 0..ResumeIn
  BY Constants
<1>2. gov \in [Sources -> GovernorEntry] /\ states \in [Sources -> StateEntry]
  BY <1>1 DEF Init, NoGovernor, NoStates, GovernorEntry, StateEntry, NeverCalled, Unknown
<1>3. 0 \in 0..(IF Cooldown > QuarantineFor THEN Cooldown ELSE QuarantineFor)
  BY Constants
<1>4. health \in [Sources -> HealthEntry]
  BY <1>1, <1>3 DEF Init, NoHealth, HealthEntry, Healthy
<1>5. hist \in History
  BY <1>1 DEF Init, History
<1>6. RunOK
  BY DEF Init, RunOK
<1> QED
  BY <1>1, <1>2, <1>4, <1>5, <1>6 DEF Init, ScheduleShape, FilesOK

(* What an unreadable file is read as has the type of the file. *)
LEMMA EmptyFiles ==
    /\ NoGovernor \in [Sources -> GovernorEntry]
    /\ NoStates \in [Sources -> StateEntry]
    /\ Healthy \in HealthEntry /\ NoHealth \in [Sources -> HealthEntry]
<1>1. /\ 0 \in 0..MinInterval /\ MinInterval \in 0..MinInterval /\ 0 \in 0..Cooldown
      /\ 0 \in 0..Threshold /\ 0 \in 0..QuarantineFor
  BY Constants
<1>2. 0 \in 0..(IF Cooldown > QuarantineFor THEN Cooldown ELSE QuarantineFor)
  BY Constants
<1> QED
  BY <1>1, <1>2 DEF NoGovernor, NoStates, NoHealth, NeverCalled, Unknown, Healthy,
                    GovernorEntry, StateEntry, HealthEntry

(* An accident that is counted keeps the count in its range. *)
LEMMA CountedAccident ==
    ASSUME hist \in History, NEW n \in Nat, Accidents(n)
    PROVE  hist.accidents + n \in 0..MaxAccidents
  BY Constants DEF Accidents, History

LEMMA OneIfIs == \A b \in BOOLEAN : OneIf(b) \in Nat
  BY DEF OneIf

LEMMA StartMoves ==
    ASSUME ScheduleShape, NEW w \in Runners, Start(w)
    PROVE  /\ ScheduleShape' /\ OthersStay(w) /\ Calm /\ run'[w].at = None
           /\ run'[w].pc = "probe" /\ gov' = gov
           /\ hist'.age = hist.age /\ hist'.penalty = hist.penalty
           /\ \A s \in Sources :
                 ~hist'.loose[s] =>
                    /\ ~hist.loose[s] /\ run'[w].gov[s] = gov[s]
                    /\ \A v \in Runners : ~Called(v, s)
                    /\ s \in run'[w].due => GovernorAllows(s, gov)
<1>1. PICK mode \in Modes, noGov \in BOOLEAN, noStates \in BOOLEAN :
        LET g == Read(gov, NoGovernor, noGov)
            st == Derived(Read(states, NoStates, noStates))
            n == OneIf(noGov) + OneIf(noStates) + OneIf(Beside(w))
        IN  /\ Accidents(n)
            /\ run' = [run EXCEPT ![w] = [Idle EXCEPT
                          !.pc = "probe", !.due = Plan(g, st, mode), !.gov = g, !.states = st,
                          !.outcome = [s \in Sources |-> None]]]
            /\ hist' = [hist EXCEPT
                  !.accidents = @ + n,
                  !.loose = [s \in Sources |->
                               hist.loose[s] \/ noGov \/ \E v \in Runners : Called(v, s)]]
  BY DEF Start
<1>2. PICK g, st, n : /\ g = Read(gov, NoGovernor, noGov)
                      /\ st = Derived(Read(states, NoStates, noStates))
                      /\ n = OneIf(noGov) + OneIf(noStates) + OneIf(Beside(w))
  OBVIOUS
<1>3. PICK due, outcome, loose :
        /\ due = Plan(g, st, mode)
        /\ outcome = [s \in Sources |-> None]
        /\ loose = [s \in Sources |->
                      hist.loose[s] \/ noGov \/ \E v \in Runners : Called(v, s)]
  OBVIOUS
<1>4. PICK c : c = [Idle EXCEPT !.pc = "probe", !.due = due, !.gov = g, !.states = st,
                                !.outcome = outcome]
  OBVIOUS
<1>5. /\ Accidents(n) /\ run' = [run EXCEPT ![w] = c]
      /\ hist' = [hist EXCEPT !.accidents = @ + n, !.loose = loose]
  BY <1>1, <1>2, <1>3, <1>4
<1>6. c = [pc |-> "probe", lag |-> 0, due |-> due, gov |-> g, states |-> st,
           outcome |-> outcome, at |-> None, base |-> Healthy, new |-> Healthy, copy |-> <<>>]
  BY <1>4 DEF Idle
<1>7. FilesOK /\ RunOK /\ hist \in History
  BY DEF ScheduleShape
<1>8. g \in [Sources -> GovernorEntry]
  BY <1>2, <1>7, EmptyFiles DEF Read, FilesOK
<1>9. st \in [Sources -> StateEntry]
  <2>1. PICK file : file = Read(states, NoStates, noStates)
    OBVIOUS
  <2>2. file \in [Sources -> StateEntry]
    BY <1>7, <2>1, EmptyFiles DEF Read, FilesOK
  <2>3. st = [s \in Sources |-> [file[s] EXCEPT !.quar = 0]]
    BY <1>2, <2>1 DEF Derived
  <2>4. 0 \in 0..QuarantineFor
    BY Constants
  <2>5. \A s \in Sources : [file[s] EXCEPT !.quar = 0] \in StateEntry
    BY <2>2, <2>4 DEF StateEntry
  <2> QED
    BY <2>3, <2>5
<1>10. due \subseteq Sources /\ IsFiniteSet(due) /\ Cardinality(due) <= MaxSources
  BY <1>3, PlanIsCapped
<1>11. Whole(c)
  <2>1. 0 \in 0..MaxLag
    BY Constants
  <2>2. c \in Run
    BY <1>3, <1>6, <1>8, <1>9, <1>10, <2>1, EmptyFiles DEF Run
  <2> QED
    BY <1>6, <1>10, <2>2 DEF Whole
<1>12. RunOK' /\ run'[w] = c /\ OthersStay(w)
  BY <1>5, <1>7, <1>11, StepOf
<1>13. n \in Nat
  BY <1>2, OneIfIs DEF OneIf
<1>14. /\ hist' \in History /\ hist'.age = hist.age /\ hist'.penalty = hist.penalty
       /\ hist'.streak = hist.streak /\ hist'.rest = hist.rest /\ hist'.loose = loose
  <2>1. hist.accidents + n \in 0..MaxAccidents
    BY <1>5, <1>7, <1>13, CountedAccident
  <2>2. loose \in [Sources -> BOOLEAN]
    <3>1. \A s \in Sources : hist.loose[s] \in BOOLEAN
      BY <1>7 DEF History
    <3> QED
      BY <1>3, <3>1, Zenon
  <2> QED
    BY <1>5, <1>7, <2>1, <2>2 DEF History
<1>15. FilesOK' /\ gov' = gov /\ health' = health
  BY <1>7 DEF Start, FilesOK
<1>16. ASSUME NEW s \in Sources, ~hist'.loose[s]
       PROVE  /\ ~hist.loose[s] /\ run'[w].gov[s] = gov[s]
              /\ \A v \in Runners : ~Called(v, s)
              /\ s \in run'[w].due => GovernorAllows(s, gov)
  <2>1. ~(hist.loose[s] \/ noGov \/ \E v \in Runners : Called(v, s))
    BY <1>3, <1>14, <1>16, Zenon
  <2>2. g = gov
    BY <1>2, <2>1 DEF Read
  <2>3. run'[w].gov = gov /\ run'[w].due = due
    BY <1>6, <1>12, <2>2
  <2>4. s \in due => GovernorAllows(s, gov)
    BY <1>3, <2>2 DEF Plan, Due
  <2> QED
    BY <2>1, <2>3, <2>4
<1> QED
  BY <1>6, <1>12, <1>14, <1>15, <1>16 DEF ScheduleShape, Calm

(* Noting a result is quiet, but for what the history notes of it. *)
LEMMA NotedIsQuiet ==
    ASSUME ScheduleShape, NEW w \in Runners, NEW s \in Sources, NEW o \in AllOutcomes,
           run[w].pc \in {"probe", "asked"}, run[w].at \in {None, s},
           run'[w].pc \in {"probe", "judged"},
           run'[w].due = Noted(run[w], s, o).due, run'[w].gov = Noted(run[w], s, o).gov,
           run'[w].outcome = Noted(run[w], s, o).outcome,
           gov' = gov, hist'.age = hist.age, hist'.loose = hist.loose
    PROVE  \A q \in Sources : hist'.penalty[q] = hist.penalty[q] => Quiet(w, q)
<1> SUFFICES ASSUME NEW q \in Sources, hist'.penalty[q] = hist.penalty[q] PROVE Quiet(w, q)
  OBVIOUS
<1>1. Running(w) /\ Running(w)'
  BY DEF Running
<1>2. Whole(run[w])
  BY <1>1, BusyIs DEF ScheduleShape
<1>3. /\ run'[w].due = run[w].due \ {s}
      /\ run'[w].outcome = [run[w].outcome EXCEPT ![s] = o]
      /\ \A p \in Sources \ {s} : run'[w].gov[p] = run[w].gov[p]
      /\ run'[w].gov[s] \in GovernorEntry /\ run'[w].gov[s].age <= MaxLag
      /\ o # "rate_limited" => run'[w].gov[s].cool = run[w].gov[s].cool
      /\ o = "rate_limited" => Cooldown <= run'[w].gov[s].cool + MaxLag
  <2>1. NotedIn(Noted(run[w], s, o), run[w], s, o)
    BY <1>2, NotedIs
  <2> QED
    BY <2>1 DEF NotedIn
<1>4. o # None /\ q # None
  BY ScheduleAssumption DEF AllOutcomes, Failures, HealthTransient, PlanRetryable, None
<1>5. run[w].outcome \in [Sources -> AllOutcomes \cup {None}]
  BY <1>2 DEF Whole, Run
<1>6. Ahead(run[w].gov[q], q) => Ahead(run'[w].gov[q], q)
  <2>1. CASE q # s
    BY <1>3, <2>1
  <2>2. CASE q = s
    <3>1. /\ hist.age[s] \in 0..MinInterval /\ hist.penalty[s] \in 0..Cooldown
          /\ run'[w].gov[s].cool \in 0..Cooldown /\ run'[w].gov[s].age \in 0..MinInterval
      BY <1>3 DEF ScheduleShape, History, GovernorEntry
    <3>2. run'[w].gov[s].age <= hist.age[s] + MaxLag
      BY <1>3, <3>1, Constants
    <3>3. o = "rate_limited" => hist.penalty[s] <= run'[w].gov[s].cool + MaxLag
      BY <1>3, <3>1, Constants
    <3> QED
      BY <1>3, <2>2, <3>2, <3>3 DEF Ahead
  <2> QED
    BY <2>1, <2>2
<1>7. ~Asked(w, q)' /\ (Asked(w, q) => q \notin run'[w].due)
  BY <1>3, <1>4 DEF Asked
<1>8. Called(w, q) => Called(w, q)'
  BY <1>1, <1>3, <1>4, <1>5 DEF Called
<1> QED
  BY <1>1, <1>3, <1>6, <1>7, <1>8 DEF Quiet

LEMMA ProbeSkippedMoves ==
    ASSUME ScheduleShape, NEW w \in Runners, NEW s \in Sources, ProbeSkipped(w, s)
    PROVE  /\ ScheduleShape' /\ OthersStay(w) /\ Calm /\ run'[w].at = None
           /\ \A q \in Sources : Quiet(w, q)
<1>1. run[w].pc = "probe" /\ FilesOK /\ RunOK /\ hist \in History
  BY DEF ProbeSkipped, NextDue, ScheduleShape
<1>2. Whole(run[w])
  BY <1>1, BusyIs DEF Running
<1>3. PICK o \in AllOutcomes : run' = [run EXCEPT ![w] = Noted(@, s, o)]
  BY DEF ProbeSkipped, AllOutcomes, Failures
<1>4. PICK d : d = Noted(run[w], s, o)
  OBVIOUS
<1>5. Whole(d) /\ d.pc = "probe" /\ d.at = None
  <2>1. run[w].pc \in {"probe", "asked"}
    BY <1>1
  <2>2. NotedIn(Noted(run[w], s, o), run[w], s, o)
    BY <1>2, <2>1, NotedIs
  <2> QED
    BY <1>4, <2>2 DEF NotedIn
<1>6. run' = [run EXCEPT ![w] = d]
  BY <1>3, <1>4
<1>7. RunOK' /\ run'[w] = d /\ OthersStay(w)
  BY <1>1, <1>5, <1>6, StepOf
<1>8. FilesOK' /\ hist' = hist /\ gov' = gov /\ health' = health
  BY <1>1 DEF ProbeSkipped, FilesOK
<1>9. run[w].at = None
  BY <1>1, <1>2 DEF Whole
<1>10. \A q \in Sources : Quiet(w, q)
  <2>1. \A q \in Sources : hist'.penalty[q] = hist.penalty[q] => Quiet(w, q)
    BY <1>1, <1>4, <1>5, <1>7, <1>8, <1>9, NotedIsQuiet
  <2> QED
    BY <1>8, <2>1
<1> QED
  BY <1>1, <1>5, <1>7, <1>8, <1>10 DEF ScheduleShape, Calm

LEMMA CallMoves ==
    ASSUME ScheduleShape, NEW w \in Runners, NEW s \in Sources, Call(w, s)
    PROVE  /\ ScheduleShape' /\ OthersStay(w) /\ Calm
           /\ run[w].pc = "probe" /\ s \in run[w].due /\ gov' = gov
           /\ run'[w].pc = "asked" /\ run'[w].at = s /\ run'[w].due = run[w].due
           /\ run'[w].gov[s].age <= MaxLag
           /\ hist'.age[s] = 0 /\ hist'.penalty[s] = 0 /\ hist'.loose[s] = Beside(w)
           /\ \A q \in Sources \ {s} : Quiet(w, q)
           /\ hist'.accidents = hist.accidents => ~Skipped(health[s])
<1>1. /\ run[w].pc = "probe" /\ s \in run[w].due /\ FilesOK /\ RunOK /\ hist \in History
  BY DEF Call, NextDue, ScheduleShape
<1>2. Whole(run[w]) /\ run[w].at = None
  BY <1>1, BusyIs DEF Running, Whole
<1>3. PICK g : g = [run[w].gov EXCEPT ![s] = Recorded(@, run[w].lag)]
  OBVIOUS
<1>4. run[w] \in Run
  BY <1>2 DEF Whole
<1>5. run[w].lag \in 0..MaxLag /\ run[w].gov \in [Sources -> GovernorEntry]
  BY <1>4 DEF Run
<1>6. /\ g \in [Sources -> GovernorEntry] /\ g[s].age <= MaxLag
      /\ \A q \in Sources \ {s} : g[q] = run[w].gov[q]
  <2>1. Recorded(run[w].gov[s], run[w].lag) \in GovernorEntry
        /\ Recorded(run[w].gov[s], run[w].lag).age <= MaxLag
    BY <1>5, RecordedIs
  <2> QED
    BY <1>3, <1>5, <2>1
<1>7. PICK c : c = [run[w] EXCEPT !.pc = "asked", !.at = s, !.gov = g]
  OBVIOUS
<1>8. /\ c \in Run /\ c.pc = "asked" /\ c.at = s /\ c.gov = g /\ c.due = run[w].due
      /\ c.outcome = run[w].outcome /\ c.copy = run[w].copy
  BY <1>4, <1>6, <1>7 DEF Run
<1>9. Whole(c)
  BY <1>1, <1>2, <1>8 DEF Whole
<1>10. run' = [run EXCEPT ![w] = c]
  <2>1. run' = [run EXCEPT ![w].pc = "asked", ![w].at = s,
                           ![w].gov[s] = Recorded(@, run[w].lag)]
    BY DEF Call
  <2> QED
    BY <1>1, <1>3, <1>4, <1>7, <2>1 DEF RunOK, Run
<1>11. RunOK' /\ run'[w] = c /\ OthersStay(w)
  BY <1>1, <1>9, <1>10, StepOf
<1>12. FilesOK' /\ gov' = gov /\ health' = health
  BY <1>1 DEF Call, FilesOK
<1>13. PICK n, age, penalty, loose :
          /\ n = OneIf(Skipped(health[s]))
          /\ age = [hist.age EXCEPT ![s] = 0] /\ penalty = [hist.penalty EXCEPT ![s] = 0]
          /\ loose = [hist.loose EXCEPT ![s] = Beside(w)]
  OBVIOUS
<1>14. hist' = [hist EXCEPT !.accidents = @ + n, !.age = age, !.penalty = penalty,
                            !.loose = loose]
  BY <1>1, <1>13 DEF Call, History
<1>15. hist.accidents + n \in 0..MaxAccidents
  <2>1. n \in Nat /\ Accidents(n)
    BY <1>13 DEF Call, OneIf
  <2> QED
    BY <1>1, <2>1, CountedAccident
<1>16. /\ age \in [Sources -> 0..MinInterval] /\ age[s] = 0
       /\ penalty \in [Sources -> 0..Cooldown] /\ penalty[s] = 0
       /\ \A q \in Sources \ {s} : /\ age[q] = hist.age[q] /\ penalty[q] = hist.penalty[q]
                                   /\ loose[q] = hist.loose[q]
  <2>1. 0 \in 0..MinInterval /\ 0 \in 0..Cooldown
    BY Constants
  <2> QED
    BY <1>1, <1>13, <2>1 DEF History
<1>17. loose \in [Sources -> BOOLEAN] /\ loose[s] = Beside(w)
  <2>1. Beside(w) \in BOOLEAN
    BY DEF Beside
  <2>2. hist.loose \in [Sources -> BOOLEAN]
    BY <1>1 DEF History
  <2> QED
    BY <1>13, <2>1, <2>2, Zenon
<1>18. /\ hist' \in History /\ hist'.accidents = hist.accidents + n /\ hist'.age = age
       /\ hist'.penalty = penalty /\ hist'.loose = loose
       /\ hist'.streak = hist.streak /\ hist'.rest = hist.rest
  BY <1>1, <1>14, <1>15, <1>16, <1>17 DEF History
<1>19. hist'.accidents = hist.accidents => ~Skipped(health[s])
  <2>1. hist.accidents \in Nat
    BY <1>1 DEF History
  <2>2. Skipped(health[s]) => n = 1
    BY <1>13 DEF OneIf
  <2> QED
    BY <1>18, <2>1, <2>2
<1>20. ASSUME NEW q \in Sources \ {s} PROVE Quiet(w, q)
  <2>1. Running(w) /\ Running(w)' /\ ~Asked(w, q)' /\ ~Asked(w, q)
    BY <1>1, <1>8, <1>11, <1>20 DEF Running, Asked
  <2>2. Called(w, q) => Called(w, q)'
    BY <1>2, <1>8, <1>11, <2>1, ScheduleAssumption DEF Called
  <2> QED
    BY <1>6, <1>8, <1>11, <1>12, <1>16, <1>18, <2>1, <2>2 DEF Quiet
<1> QED
  BY <1>1, <1>6, <1>8, <1>11, <1>12, <1>16, <1>17, <1>18, <1>19, <1>20
     DEF ScheduleShape, Calm

LEMMA RaisedMoves ==
    ASSUME ScheduleShape, NEW w \in Runners, Raised(w)
    PROVE  /\ ScheduleShape' /\ OthersStay(w) /\ Calm /\ run'[w].at = None
           /\ \A q \in Sources : Quiet(w, q)
<1>1. run[w].pc = "asked" /\ FilesOK /\ RunOK /\ hist \in History
  BY DEF Raised, ScheduleShape
<1>2. Whole(run[w])
  BY <1>1, BusyIs DEF Running
<1>3. PICK s \in Sources : s = run[w].at
  BY <1>1, <1>2 DEF Whole
<1>4. "exception" \in AllOutcomes
  BY DEF AllOutcomes
<1>5. PICK d : d = Noted(run[w], s, "exception")
  OBVIOUS
<1>6. Whole(d) /\ d.pc = "probe" /\ d.at = None
  <2>1. run[w].pc \in {"probe", "asked"}
    BY <1>1
  <2>2. NotedIn(Noted(run[w], s, "exception"), run[w], s, "exception")
    BY <1>2, <1>4, <2>1, NotedIs
  <2> QED
    BY <1>5, <2>2 DEF NotedIn
<1>7. run' = [run EXCEPT ![w] = d]
  BY <1>3, <1>5 DEF Raised
<1>8. RunOK' /\ run'[w] = d /\ OthersStay(w)
  BY <1>1, <1>6, <1>7, StepOf
<1>9. FilesOK' /\ hist' = hist /\ gov' = gov /\ health' = health
  BY <1>1 DEF Raised, FilesOK
<1>10. \A q \in Sources : Quiet(w, q)
  <2>1. \A q \in Sources : hist'.penalty[q] = hist.penalty[q] => Quiet(w, q)
    BY <1>1, <1>3, <1>4, <1>5, <1>6, <1>8, <1>9, NotedIsQuiet
  <2> QED
    BY <1>9, <2>1
<1> QED
  BY <1>1, <1>6, <1>8, <1>9, <1>10 DEF ScheduleShape, Calm

(* Health's answer is read and judged; what a rate limit does to the source  *)
(* is what its call allowed for.                                             *)
LEMMA AnsweredMoves ==
    ASSUME ScheduleShape, NEW w \in Runners, Answered(w)
    PROVE  /\ ScheduleShape' /\ OthersStay(w) /\ Calm /\ run'[w].at = run[w].at
           /\ \A q \in Sources :
                 \/ Quiet(w, q)
                 \/ /\ Asked(w, q) /\ ~Asked(w, q)' /\ Called(w, q)' /\ q \notin run'[w].due
                    /\ gov' = gov /\ hist'.loose[q] = hist.loose[q] /\ Ahead(run[w].gov[q], q)'
<1>1. run[w].pc = "asked" /\ FilesOK /\ RunOK /\ hist \in History
  BY DEF Answered, ScheduleShape
<1>2. Whole(run[w])
  BY <1>1, BusyIs DEF Running
<1>3. PICK s \in Sources : s = run[w].at
  BY <1>1, <1>2 DEF Whole
<1>4. PICK o \in Outcomes[s] \ {"exception"}, retry \in {0, Cooldown}, unreadable \in BOOLEAN :
        /\ Accidents(OneIf(unreadable))
        /\ LET base == Read(health, NoHealth, unreadable)[s]
           IN  run' = [run EXCEPT ![w] =
                  [Noted(@, s, o) EXCEPT !.pc = "judged", !.at = s, !.base = base,
                                         !.new = HealthAfter(base, o, retry)]]
        /\ hist' = [hist EXCEPT
              !.accidents = @ + OneIf(unreadable),
              !.penalty[s] = IF o = "rate_limited" THEN Cooldown ELSE @]
  BY <1>3, ZenonT(40) DEF Answered
<1>5. o \in AllOutcomes
  BY <1>4, ScheduleAssumption
<1>6. PICK base, new, n : /\ base = Read(health, NoHealth, unreadable)[s]
                          /\ new = HealthAfter(base, o, retry) /\ n = OneIf(unreadable)
  OBVIOUS
<1>7. base \in HealthEntry /\ new \in HealthEntry
  <2>1. base \in HealthEntry
    BY <1>1, <1>6, EmptyFiles DEF Read, FilesOK
  <2> QED
    BY <1>5, <1>6, <2>1, HealthAfterIs
<1>8. PICK d : d = Noted(run[w], s, o)
  OBVIOUS
<1>9. NotedIn(d, run[w], s, o)
  <2>1. run[w].pc \in {"probe", "asked"}
    BY <1>1
  <2>2. NotedIn(Noted(run[w], s, o), run[w], s, o)
    BY <1>2, <1>5, <2>1, NotedIs
  <2> QED
    BY <1>8, <2>2
<1>10. PICK c : c = [d EXCEPT !.pc = "judged", !.at = s, !.base = base, !.new = new]
  OBVIOUS
<1>11. run' = [run EXCEPT ![w] = c]
  BY <1>4, <1>6, <1>8, <1>10
<1>12. Whole(d) /\ d \in Run /\ d.outcome = [run[w].outcome EXCEPT ![s] = o] /\ d.copy = <<>>
  BY <1>9 DEF NotedIn, Whole
<1>13. /\ c \in Run /\ c.pc = "judged" /\ c.at = s /\ c.base = base /\ c.new = new
       /\ c.due = d.due /\ c.gov = d.gov /\ c.outcome = d.outcome /\ c.copy = d.copy
  BY <1>7, <1>10, <1>12 DEF Run
<1>14. c.outcome[s] = o
  <2>1. run[w].outcome \in [Sources -> AllOutcomes \cup {None}]
    BY <1>2 DEF Whole, Run
  <2> QED
    BY <1>12, <1>13, <2>1
<1>15. o # None
  BY <1>5 DEF AllOutcomes, Failures, HealthTransient, PlanRetryable, None
<1>16. Whole(c)
  <2>1. Judged(c)
    BY <1>4, <1>6, <1>13, <1>14, <1>15 DEF Judged
  <2>2. IsFiniteSet(c.due) /\ Cardinality(c.due) <= MaxSources
    BY <1>12, <1>13 DEF Whole
  <2> QED
    BY <1>12, <1>13, <2>1, <2>2 DEF Whole
<1>17. RunOK' /\ run'[w] = c /\ OthersStay(w)
  BY <1>1, <1>11, <1>16, StepOf
<1>18. FilesOK' /\ gov' = gov /\ health' = health
  BY <1>1 DEF Answered, FilesOK
<1>19. PICK penalty :
          penalty = [hist.penalty EXCEPT ![s] = IF o = "rate_limited" THEN Cooldown ELSE @]
  OBVIOUS
<1>20. /\ penalty \in [Sources -> 0..Cooldown]
       /\ \A q \in Sources \ {s} : penalty[q] = hist.penalty[q]
       /\ penalty[s] = IF o = "rate_limited" THEN Cooldown ELSE hist.penalty[s]
  BY <1>1, <1>19, Constants DEF History
<1>21. hist' = [hist EXCEPT !.accidents = @ + n, !.penalty = penalty]
  BY <1>1, <1>4, <1>6, <1>19 DEF History
<1>22. hist.accidents + n \in 0..MaxAccidents
  <2>1. n \in Nat /\ Accidents(n)
    BY <1>4, <1>6 DEF OneIf
  <2> QED
    BY <1>1, <2>1, CountedAccident
<1>23. /\ hist' \in History /\ hist'.age = hist.age /\ hist'.loose = hist.loose
       /\ hist'.penalty = penalty /\ hist'.streak = hist.streak /\ hist'.rest = hist.rest
  BY <1>1, <1>20, <1>21, <1>22 DEF History
<1>24. \A q \in Sources : hist'.penalty[q] = hist.penalty[q] => Quiet(w, q)
  BY <1>1, <1>3, <1>5, <1>8, <1>13, <1>17, <1>18, <1>23, NotedIsQuiet
<1>25. ASSUME o = "rate_limited"
       PROVE  /\ Asked(w, s) /\ ~Asked(w, s)' /\ Called(w, s)' /\ s \notin run'[w].due
              /\ Ahead(run[w].gov[s], s)'
  <2>1. /\ d.due = run[w].due \ {s} /\ d.gov[s] \in GovernorEntry /\ d.gov[s].age <= MaxLag
        /\ Cooldown <= d.gov[s].cool + MaxLag
    BY <1>9, <1>25 DEF NotedIn
  <2>2. hist.age[s] \in 0..MinInterval /\ d.gov[s].age \in 0..MinInterval
    BY <1>1, <2>1 DEF History, GovernorEntry
  <2>3. d.gov[s].age <= hist.age[s] + MaxLag
    BY <2>1, <2>2, Constants
  <2>4. Ahead(run[w].gov[s], s)'
    BY <1>13, <1>17, <1>20, <1>23, <1>25, <2>1, <2>3 DEF Ahead
  <2> QED
    BY <1>1, <1>3, <1>13, <1>17, <2>1, <2>4 DEF Asked, Called, Running
<1>26. ASSUME NEW q \in Sources
       PROVE  \/ Quiet(w, q)
              \/ /\ Asked(w, q) /\ ~Asked(w, q)' /\ Called(w, q)' /\ q \notin run'[w].due
                 /\ gov' = gov /\ hist'.loose[q] = hist.loose[q] /\ Ahead(run[w].gov[q], q)'
  <2>1. CASE q # s \/ o # "rate_limited"
    BY <1>20, <1>23, <1>24, <2>1
  <2>2. CASE q = s /\ o = "rate_limited"
    BY <1>18, <1>23, <1>25, <2>2
  <2> QED
    BY <2>1, <2>2
<1> QED
  BY <1>3, <1>13, <1>17, <1>18, <1>23, <1>26 DEF ScheduleShape, Calm

(* Steps that touch neither plan nor governor nor outcomes are quiet. *)
LEMMA KeptIsQuiet ==
    ASSUME ScheduleShape, NEW w \in Runners,
           run[w].pc \notin {"idle", "asked"}, run'[w].pc \notin {"idle", "asked"},
           run'[w].due = run[w].due, run'[w].gov = run[w].gov,
           run'[w].outcome = run[w].outcome,
           gov' = gov, hist'.age = hist.age, hist'.loose = hist.loose,
           hist'.penalty = hist.penalty
    PROVE  \A q \in Sources : Quiet(w, q)
<1> SUFFICES ASSUME NEW q \in Sources PROVE Quiet(w, q)
  OBVIOUS
<1>1. Running(w) /\ Running(w)' /\ ~Asked(w, q) /\ ~Asked(w, q)'
  BY DEF Running, Asked
<1>2. Whole(run[w])
  BY <1>1, BusyIs DEF ScheduleShape
<1>3. run[w].at = q => run[w].outcome[q] # None
  <2>1. q # None
    BY ScheduleAssumption
  <2> QED
    BY <1>2, <2>1 DEF Whole, Run, Judged
<1>4. Called(w, q) => Called(w, q)'
  BY <1>1, <1>3 DEF Called
<1> QED
  BY <1>1, <1>4 DEF Quiet

LEMMA LoadHealthMoves ==
    ASSUME ScheduleShape, NEW w \in Runners, LoadHealth(w)
    PROVE  /\ ScheduleShape' /\ OthersStay(w) /\ Calm /\ run'[w].at = run[w].at
           /\ \A q \in Sources : Quiet(w, q)
<1>1. run[w].pc = "judged" /\ FilesOK /\ RunOK /\ hist \in History
  BY DEF LoadHealth, ScheduleShape
<1>2. Whole(run[w])
  BY <1>1, BusyIs DEF Running
<1>3. PICK unreadable \in BOOLEAN :
        /\ Accidents(OneIf(unreadable))
        /\ run' = [run EXCEPT ![w] = [@ EXCEPT !.pc = "loaded",
                      !.copy = Read(health, NoHealth, unreadable)]]
        /\ hist' = [hist EXCEPT !.accidents = @ + OneIf(unreadable)]
  BY DEF LoadHealth
<1>4. PICK copy, n : copy = Read(health, NoHealth, unreadable) /\ n = OneIf(unreadable)
  OBVIOUS
<1>5. copy \in [Sources -> HealthEntry]
  BY <1>1, <1>4, EmptyFiles DEF Read, FilesOK
<1>6. PICK c : c = [run[w] EXCEPT !.pc = "loaded", !.copy = copy]
  OBVIOUS
<1>7. run' = [run EXCEPT ![w] = c]
  BY <1>3, <1>4, <1>6
<1>8. /\ c \in Run /\ c.pc = "loaded" /\ c.at = run[w].at /\ c.copy = copy
      /\ c.due = run[w].due /\ c.gov = run[w].gov /\ c.outcome = run[w].outcome
      /\ c.base = run[w].base /\ c.new = run[w].new
  BY <1>2, <1>5, <1>6 DEF Whole, Run
<1>9. Whole(c)
  BY <1>1, <1>2, <1>5, <1>8 DEF Whole, Judged
<1>10. RunOK' /\ run'[w] = c /\ OthersStay(w)
  BY <1>1, <1>7, <1>9, StepOf
<1>11. FilesOK' /\ gov' = gov /\ health' = health
  BY <1>1 DEF LoadHealth, FilesOK
<1>12. hist.accidents + n \in 0..MaxAccidents
  <2>1. n \in Nat /\ Accidents(n)
    BY <1>3, <1>4 DEF OneIf
  <2> QED
    BY <1>1, <2>1, CountedAccident
<1>13. /\ hist' \in History /\ hist'.age = hist.age /\ hist'.loose = hist.loose
       /\ hist'.penalty = hist.penalty /\ hist'.streak = hist.streak /\ hist'.rest = hist.rest
  BY <1>1, <1>3, <1>4, <1>12 DEF History
<1>14. \A q \in Sources : Quiet(w, q)
  BY <1>1, <1>8, <1>10, <1>11, <1>13, KeptIsQuiet
<1> QED
  BY <1>8, <1>10, <1>11, <1>13, <1>14 DEF ScheduleShape, Calm

(* The probe is through, and the file written or not. *)
LEMMA ProbedMoves ==
    ASSUME ScheduleShape, NEW w \in Runners, run[w].pc = "loaded", Probed(w),
           gov' = gov, hist'.age = hist.age, hist'.loose = hist.loose,
           hist'.penalty = hist.penalty
    PROVE  /\ RunOK' /\ OthersStay(w) /\ run'[w].at = None
           /\ \A q \in Sources : Quiet(w, q)
<1>1. Whole(run[w]) /\ RunOK
  BY BusyIs DEF Running, ScheduleShape
<1>2. PICK c : c = [run[w] EXCEPT !.pc = "probe", !.at = None, !.base = Healthy,
                                  !.new = Healthy, !.copy = <<>>]
  OBVIOUS
<1>3. run' = [run EXCEPT ![w] = c]
  BY <1>2 DEF Probed
<1>4. /\ c \in Run /\ c.pc = "probe" /\ c.at = None /\ c.copy = <<>>
      /\ c.due = run[w].due /\ c.gov = run[w].gov /\ c.outcome = run[w].outcome
  BY <1>1, <1>2, EmptyFiles DEF Whole, Run
<1>5. Whole(c)
  BY <1>1, <1>4 DEF Whole
<1>6. RunOK' /\ run'[w] = c /\ OthersStay(w)
  BY <1>1, <1>3, <1>5, StepOf
<1>7. \A q \in Sources : Quiet(w, q)
  BY <1>4, <1>6, KeptIsQuiet
<1> QED
  BY <1>4, <1>6, <1>7

(* The file is written whole: of the source just probed it tells what was    *)
(* judged, of the others what was read, and the history forgets what that    *)
(* overwrites.                                                               *)
LEMMA SaveHealthMoves ==
    ASSUME ScheduleShape, NEW w \in Runners, SaveHealth(w), \A q \in Sources : Resting(q)
    PROVE  /\ ScheduleShape' /\ OthersStay(w) /\ run'[w].at = None
           /\ \A q \in Sources : Quiet(w, q) /\ Resting(q)'
<1>1. run[w].pc = "loaded" /\ FilesOK /\ RunOK /\ hist \in History
  BY DEF SaveHealth, ScheduleShape
<1>2. Whole(run[w])
  BY <1>1, BusyIs DEF Running
<1>3. PICK s \in Sources, o \in AllOutcomes, base \in HealthEntry, new \in HealthEntry,
           retry \in {0, Cooldown}, copy \in [Sources -> HealthEntry] :
        /\ s = run[w].at /\ o = run[w].outcome[s] /\ base = run[w].base /\ new = run[w].new
        /\ new = HealthAfter(base, o, retry) /\ copy = run[w].copy
  <2>1. Judged(run[w]) /\ run[w] \in Run /\ run[w].at \in Sources
        /\ run[w].copy \in [Sources -> HealthEntry]
    BY <1>1, <1>2 DEF Whole
  <2>2. run[w].outcome[run[w].at] \in AllOutcomes
    BY <2>1 DEF Run, Judged
  <2>3. run[w].base \in HealthEntry /\ run[w].new \in HealthEntry
    BY <2>1 DEF Run
  <2> QED
    BY <2>1, <2>2, <2>3 DEF Judged
<1>4. PICK known : known = IF base # health[s] THEN 0 ELSE hist.streak[s]
  OBVIOUS
<1>5. PICK streak : streak = CASE o = "success" -> 0
                               [] o = "rate_limited" -> known
                               [] OTHER -> UpTo(known)
  OBVIOUS
<1>6. PICK rested : rested = IF o \in HealthTransient /\ streak = Threshold
                             THEN QuarantineFor ELSE 0
  OBVIOUS
<1>7. PICK streaks, rests :
        /\ streaks = [q \in Sources |-> IF q = s THEN streak
                                        ELSE IF copy[q] # health[q] THEN 0 ELSE hist.streak[q]]
        /\ rests = [q \in Sources |-> IF q = s THEN rested
                                      ELSE IF copy[q] # health[q] THEN 0 ELSE hist.rest[q]]
  OBVIOUS
<1>8. /\ health' = [copy EXCEPT ![s] = new]
      /\ hist' = [hist EXCEPT !.streak = streaks, !.rest = rests]
  <2>1. health' = [copy EXCEPT ![s] = new]
    BY <1>3 DEF SaveHealth
  <2>2. hist' = [hist EXCEPT
           !.streak = [q \in Sources |->
                         IF q = s THEN streak
                         ELSE IF copy[q] # health[q] THEN 0 ELSE hist.streak[q]],
           !.rest = [q \in Sources |->
                       IF q = s THEN rested
                       ELSE IF copy[q] # health[q] THEN 0 ELSE hist.rest[q]]]
    BY <1>1, <1>3, <1>4, <1>5, <1>6 DEF SaveHealth, History
  <2> QED
    BY <1>7, <2>1, <2>2
<1>9. /\ hist.streak \in [Sources -> 0..Threshold]
      /\ hist.rest \in [Sources -> 0..QuarantineFor]
  BY <1>1 DEF History
<1>10. known \in 0..Threshold /\ known <= base.fails
  <2>1. base.fails \in 0..Threshold
    BY <1>3 DEF HealthEntry
  <2>2. health[s].fails >= hist.streak[s]
    BY DEF Resting
  <2> QED
    BY <1>4, <1>9, <2>1, <2>2, Constants
<1>11. /\ o = "success" => new.fails = 0
       /\ o = "rate_limited" => new.fails = base.fails
       /\ o \notin {"success", "rate_limited"} => new.fails >= UpTo(known)
       /\ o \in HealthTransient /\ UpTo(known) = Threshold =>
             new.state = "QUARANTINED_RETRYABLE" /\ new.retry = QuarantineFor
  BY <1>3, <1>10, HealthCounts
<1>12. streak \in 0..Threshold /\ new.fails >= streak
  <2>1. UpTo(known) \in 0..Threshold /\ 0 \in 0..Threshold
    BY <1>10, UpToIs, Constants
  <2>2. CASE o = "success"
    BY <1>5, <1>11, <2>1, <2>2
  <2>3. CASE o = "rate_limited"
    BY <1>5, <1>10, <1>11, <2>3
  <2>4. CASE o \notin {"success", "rate_limited"}
    BY <1>5, <1>11, <2>1, <2>4
  <2> QED
    BY <2>2, <2>3, <2>4
<1>13. /\ rested \in 0..QuarantineFor
       /\ rested > 0 => new.state = "QUARANTINED_RETRYABLE" /\ new.retry >= rested
  <2>1. CASE o \in HealthTransient /\ streak = Threshold
    <3>1. streak = UpTo(known)
      BY <1>5, <2>1 DEF HealthTransient
    <3> QED
      BY <1>6, <1>11, <2>1, <3>1, Constants
  <2>2. CASE ~(o \in HealthTransient /\ streak = Threshold)
    BY <1>6, <2>2, Constants
  <2> QED
    BY <2>1, <2>2
<1>14. streaks \in [Sources -> 0..Threshold] /\ rests \in [Sources -> 0..QuarantineFor]
  BY <1>7, <1>9, <1>12, <1>13, Constants
<1>15. /\ hist' \in History /\ hist'.age = hist.age /\ hist'.loose = hist.loose
       /\ hist'.penalty = hist.penalty /\ hist'.streak = streaks /\ hist'.rest = rests
  BY <1>1, <1>8, <1>14 DEF History
<1>16. ASSUME NEW q \in Sources PROVE Resting(q)'
  <2>1. CASE q = s
    <3>1. health'[s] = new /\ hist'.streak[s] = streak /\ hist'.rest[s] = rested
      BY <1>7, <1>8, <1>15
    <3> QED
      BY <1>12, <1>13, <2>1, <3>1 DEF Resting
  <2>2. CASE q # s /\ copy[q] # health[q]
    <3>1. health'[q] = copy[q] /\ hist'.streak[q] = 0 /\ hist'.rest[q] = 0
      BY <1>7, <1>8, <1>15, <2>2
    <3>2. copy[q].fails \in 0..Threshold
      BY DEF HealthEntry
    <3> QED
      BY <3>1, <3>2, Constants DEF Resting
  <2>3. CASE q # s /\ copy[q] = health[q]
    <3>1. /\ health'[q] = health[q] /\ hist'.streak[q] = hist.streak[q]
          /\ hist'.rest[q] = hist.rest[q]
      BY <1>7, <1>8, <1>15, <2>3
    <3> QED
      BY <3>1 DEF Resting
  <2> QED
    BY <2>1, <2>2, <2>3
<1>17. FilesOK' /\ gov' = gov
  <2>1. health' \in [Sources -> HealthEntry]
    BY <1>3, <1>8
  <2> QED
    BY <1>1, <2>1 DEF SaveHealth, FilesOK
<1>18. /\ RunOK' /\ OthersStay(w) /\ run'[w].at = None
       /\ \A q \in Sources : Quiet(w, q)
  <2>1. Probed(w)
    BY DEF SaveHealth
  <2> QED
    BY <1>1, <1>15, <1>17, <2>1, ProbedMoves
<1> QED
  BY <1>15, <1>16, <1>17, <1>18 DEF ScheduleShape

LEMMA HealthUnsavedMoves ==
    ASSUME ScheduleShape, NEW w \in Runners, HealthUnsaved(w), \A q \in Sources : Resting(q)
    PROVE  /\ ScheduleShape' /\ OthersStay(w) /\ run'[w].at = None
           /\ \A q \in Sources : Quiet(w, q) /\ Resting(q)'
<1>1. /\ run[w].pc = "loaded" /\ FilesOK /\ RunOK /\ hist \in History
      /\ gov' = gov /\ health' = health
  BY DEF HealthUnsaved, ScheduleShape
<1>2. PICK s \in Sources : s = run[w].at
  <2>1. Whole(run[w])
    BY <1>1, BusyIs DEF Running
  <2> QED
    BY <1>1, <2>1 DEF Whole
<1>3. PICK streaks, rests : /\ streaks = [hist.streak EXCEPT ![s] = 0]
                            /\ rests = [hist.rest EXCEPT ![s] = 0]
  OBVIOUS
<1>4. hist' = [hist EXCEPT !.accidents = @ + 1, !.streak = streaks, !.rest = rests]
  BY <1>1, <1>2, <1>3 DEF HealthUnsaved, History
<1>5. /\ hist.streak \in [Sources -> 0..Threshold]
      /\ hist.rest \in [Sources -> 0..QuarantineFor]
  BY <1>1 DEF History
<1>6. hist.accidents + 1 \in 0..MaxAccidents
  <2>1. Accidents(1)
    BY DEF HealthUnsaved
  <2> QED
    BY <1>1, <2>1, CountedAccident
<1>7. streaks \in [Sources -> 0..Threshold] /\ rests \in [Sources -> 0..QuarantineFor]
  BY <1>3, <1>5, Constants
<1>8. /\ hist' \in History /\ hist'.age = hist.age /\ hist'.loose = hist.loose
      /\ hist'.penalty = hist.penalty /\ hist'.streak = streaks /\ hist'.rest = rests
  BY <1>1, <1>4, <1>6, <1>7 DEF History
<1>9. ASSUME NEW q \in Sources PROVE Resting(q)'
  <2>1. CASE q = s
    <3>1. hist'.streak[q] = 0 /\ hist'.rest[q] = 0
      BY <1>3, <1>5, <1>8, <2>1
    <3>2. health[q].fails \in 0..Threshold
      BY <1>1 DEF FilesOK, HealthEntry
    <3> QED
      BY <1>1, <3>1, <3>2, Constants DEF Resting
  <2>2. CASE q # s
    <3>1. hist'.streak[q] = hist.streak[q] /\ hist'.rest[q] = hist.rest[q]
      BY <1>3, <1>5, <1>8, <2>2
    <3> QED
      BY <1>1, <3>1 DEF Resting
  <2> QED
    BY <2>1, <2>2
<1>10. FilesOK'
  BY <1>1 DEF HealthUnsaved, FilesOK
<1>11. /\ RunOK' /\ OthersStay(w) /\ run'[w].at = None
       /\ \A q \in Sources : Quiet(w, q)
  <2>1. Probed(w)
    BY DEF HealthUnsaved
  <2> QED
    BY <1>1, <1>8, <2>1, ProbedMoves
<1> QED
  BY <1>8, <1>9, <1>10, <1>11 DEF ScheduleShape

-----------------------------------------------------------------------------
(* The end of a cycle. *)

LEMMA SaveStatesMoves ==
    ASSUME ScheduleShape, NEW w \in Runners, SaveStates(w)
    PROVE  /\ ScheduleShape' /\ OthersStay(w) /\ Calm /\ run'[w].at = None
           /\ \A q \in Sources : Quiet(w, q)
<1>1. /\ run[w].pc = "probe" /\ FilesOK /\ RunOK /\ hist \in History
      /\ gov' = gov /\ health' = health /\ hist' = hist
  BY DEF SaveStates, ScheduleShape
<1>2. Whole(run[w])
  BY <1>1, BusyIs DEF Running
<1>3. PICK c : c = [run[w] EXCEPT !.pc = "save"]
  OBVIOUS
<1>4. run' = [run EXCEPT ![w] = c]
  BY <1>1, <1>3 DEF SaveStates, RunOK
<1>5. /\ c \in Run /\ c.pc = "save" /\ c.at = run[w].at /\ c.copy = run[w].copy
      /\ c.due = run[w].due /\ c.gov = run[w].gov /\ c.outcome = run[w].outcome
  BY <1>2, <1>3 DEF Whole, Run
<1>6. Whole(c) /\ c.at = None
  BY <1>1, <1>2, <1>5 DEF Whole
<1>7. RunOK' /\ run'[w] = c /\ OthersStay(w)
  BY <1>1, <1>4, <1>6, StepOf
<1>8. \A q \in Sources : Quiet(w, q)
  BY <1>1, <1>5, <1>7, KeptIsQuiet
<1>9. states' \in [Sources -> StateEntry]
  <2>1. \A s \in Sources : Patched(run[w], s) \in StateEntry
    BY <1>2, PatchedIs DEF Whole
  <2> QED
    BY <2>1 DEF SaveStates
<1>10. FilesOK'
  BY <1>1, <1>9 DEF SaveStates, FilesOK
<1> QED
  BY <1>1, <1>6, <1>7, <1>8, <1>10 DEF ScheduleShape, Calm

LEMMA SaveGovernorMoves ==
    ASSUME ScheduleShape, NEW w \in Runners, SaveGovernor(w)
    PROVE  /\ ScheduleShape' /\ OthersStay(w) /\ Calm
           /\ Running(w) /\ run'[w] = Idle /\ gov' = run[w].gov /\ hist' = hist
<1>1. /\ run[w].pc = "save" /\ FilesOK /\ RunOK /\ hist \in History
      /\ gov' = run[w].gov /\ health' = health /\ hist' = hist
  BY DEF SaveGovernor, ScheduleShape
<1>2. run[w].gov \in [Sources -> GovernorEntry]
  <2>1. Whole(run[w])
    BY <1>1, BusyIs DEF Running
  <2> QED
    BY <2>1 DEF Whole, Run
<1>3. RunOK' /\ run'[w] = Idle /\ OthersStay(w)
  <2>1. run' = [run EXCEPT ![w] = Idle]
    BY DEF SaveGovernor
  <2> QED
    BY <1>1, <2>1, StepOf
<1>4. FilesOK'
  BY <1>1, <1>2 DEF SaveGovernor, FilesOK
<1> QED
  BY <1>1, <1>3, <1>4 DEF ScheduleShape, Calm, Running

LEMMA CrashMoves ==
    ASSUME ScheduleShape, NEW w \in Runners, Crash(w)
    PROVE  /\ ScheduleShape' /\ OthersStay(w) /\ Calm
           /\ Running(w) /\ run'[w] = Idle /\ gov' = gov
           /\ hist'.age = hist.age /\ hist'.penalty = hist.penalty
           /\ \A s \in Sources : ~hist'.loose[s] => ~hist.loose[s] /\ ~Called(w, s)
<1>1. /\ Running(w) /\ FilesOK /\ RunOK /\ hist \in History
      /\ gov' = gov /\ health' = health
  BY DEF Crash, ScheduleShape
<1>2. RunOK' /\ run'[w] = Idle /\ OthersStay(w)
  <2>1. run' = [run EXCEPT ![w] = Idle]
    BY DEF Crash
  <2> QED
    BY <1>1, <2>1, StepOf
<1>3. PICK loose : loose = [s \in Sources |-> hist.loose[s] \/ Called(w, s)]
  OBVIOUS
<1>4. hist' = [hist EXCEPT !.accidents = @ + 1, !.loose = loose]
  BY <1>3 DEF Crash
<1>5. hist.accidents + 1 \in 0..MaxAccidents
  <2>1. Accidents(1)
    BY DEF Crash
  <2> QED
    BY <1>1, <2>1, CountedAccident
<1>6. loose \in [Sources -> BOOLEAN]
  <2>1. \A s \in Sources : hist.loose[s] \in BOOLEAN
    BY <1>1 DEF History
  <2> QED
    BY <1>3, <2>1, Zenon
<1>7. /\ hist' \in History /\ hist'.age = hist.age /\ hist'.loose = loose
      /\ hist'.penalty = hist.penalty /\ hist'.streak = hist.streak /\ hist'.rest = hist.rest
  BY <1>1, <1>4, <1>5, <1>6 DEF History
<1>8. ASSUME NEW s \in Sources, ~hist'.loose[s] PROVE ~hist.loose[s] /\ ~Called(w, s)
  <2>1. ~(hist.loose[s] \/ Called(w, s))
    BY <1>3, <1>7, <1>8, Zenon
  <2> QED
    BY <2>1
<1>9. FilesOK'
  BY <1>1 DEF Crash, FilesOK
<1> QED
  BY <1>1, <1>2, <1>7, <1>8, <1>9 DEF ScheduleShape, Calm

LEMMA TickMoves ==
    ASSUME ScheduleShape, Tick
    PROVE  /\ ScheduleShape'
           /\ \A s \in Sources :
                 /\ gov'[s].age = Older(gov[s].age) /\ gov'[s].cool = Sooner(gov[s].cool)
                 /\ hist'.age[s] = Older(hist.age[s])
                 /\ hist'.penalty[s] = Sooner(hist.penalty[s])
                 /\ hist'.rest[s] = Sooner(hist.rest[s])
                 /\ health'[s].state = health[s].state
                 /\ health'[s].fails = health[s].fails
                 /\ health'[s].retry = Sooner(health[s].retry)
           /\ hist'.streak = hist.streak /\ hist'.loose = hist.loose
           /\ \A w \in Runners :
                 /\ run'[w].pc = run[w].pc /\ run'[w].at = run[w].at
                 /\ run'[w].due = run[w].due /\ run'[w].outcome = run[w].outcome
                 /\ Running(w) => \A s \in Sources :
                       /\ run'[w].gov[s].age = Older(run[w].gov[s].age)
                       /\ run'[w].gov[s].cool = Sooner(run[w].gov[s].cool)
<1> DEFINE Aged(g) == [s \in Sources |-> [age |-> Older(g[s].age), cool |-> Sooner(g[s].cool)]]
           Passed(st) == [s \in Sources |-> [st[s] EXCEPT !.success = Older(@), !.quar = Sooner(@)]]
<1>0. hist \in History /\ FilesOK /\ RunOK
  BY DEF ScheduleShape
<1>1. /\ gov' = Aged(gov) /\ states' = Passed(states)
      /\ run' = [w \in Runners |->
                   IF Running(w)
                   THEN [run[w] EXCEPT !.lag = @ + 1, !.gov = Aged(@), !.states = Passed(@)]
                   ELSE run[w]]
  BY DEF Tick
<1>2. ASSUME NEW g \in [Sources -> GovernorEntry]
      PROVE  Aged(g) \in [Sources -> GovernorEntry]
  <2> SUFFICES ASSUME NEW s \in Sources
               PROVE  [age |-> Older(g[s].age), cool |-> Sooner(g[s].cool)] \in GovernorEntry
    OBVIOUS
  <2>1. g[s].age \in 0..MinInterval /\ g[s].cool \in 0..Cooldown
    BY DEF GovernorEntry
  <2>2. Older(g[s].age) \in 0..MinInterval /\ Sooner(g[s].cool) \in 0..Cooldown
    BY <2>1, OlderIs, SoonerIs, Constants
  <2> QED
    BY <2>2 DEF GovernorEntry
<1>3. ASSUME NEW st \in [Sources -> StateEntry]
      PROVE  Passed(st) \in [Sources -> StateEntry]
  <2> SUFFICES ASSUME NEW s \in Sources
               PROVE  [st[s] EXCEPT !.success = Older(@), !.quar = Sooner(@)] \in StateEntry
    OBVIOUS
  <2>1. /\ st[s] \in StateEntry
        /\ st[s].success \in 0..MinInterval /\ st[s].quar \in 0..QuarantineFor
    BY DEF StateEntry
  <2>2. Older(st[s].success) \in 0..MinInterval /\ Sooner(st[s].quar) \in 0..QuarantineFor
    BY <2>1, OlderIs, SoonerIs, Constants
  <2> QED
    BY <2>1, <2>2 DEF StateEntry
<1>4. /\ health' \in [Sources -> HealthEntry]
      /\ \A s \in Sources : /\ health'[s].state = health[s].state
                            /\ health'[s].fails = health[s].fails
                            /\ health'[s].retry = Sooner(health[s].retry)
  <2>1. ASSUME NEW s \in Sources
        PROVE  [health[s] EXCEPT !.retry = Sooner(@)] \in HealthEntry
    <3> DEFINE m == IF Cooldown > QuarantineFor THEN Cooldown ELSE QuarantineFor
    <3>1. m \in Nat
      BY Constants
    <3> HIDE DEF m
    <3>2. HealthEntry = [state : {"HEALTHY", "DEGRADED", "RATE_LIMITED_COOLDOWN",
                                  "QUARANTINED_RETRYABLE", "BLOCKED_TERMINAL"},
                         fails : 0..Threshold, retry : 0..m]
      BY DEF HealthEntry, m
    <3>3. health[s] \in HealthEntry /\ health[s].retry \in 0..m
      BY <1>0, <3>2 DEF FilesOK
    <3>4. Sooner(health[s].retry) \in 0..m
      BY <3>1, <3>3, SoonerIs
    <3> QED
      BY <3>2, <3>3, <3>4
  <2>2. health' = [s \in Sources |-> [health[s] EXCEPT !.retry = Sooner(@)]]
    BY DEF Tick
  <2>3. \A s \in Sources : health[s] \in HealthEntry
    BY <1>0 DEF FilesOK
  <2> QED
    BY <2>1, <2>2, <2>3 DEF HealthEntry
<1>5. resume' \in 0..ResumeIn
  BY <1>0, SoonerIs, Constants DEF Tick, FilesOK
<1>6. FilesOK'
  BY <1>0, <1>1, <1>2, <1>3, <1>4, <1>5 DEF FilesOK
<1>7. /\ hist' \in History
      /\ \A s \in Sources : /\ hist'.age[s] = Older(hist.age[s])
                            /\ hist'.penalty[s] = Sooner(hist.penalty[s])
                            /\ hist'.rest[s] = Sooner(hist.rest[s])
      /\ hist'.streak = hist.streak /\ hist'.loose = hist.loose
  <2> DEFINE ages == [s \in Sources |-> Older(hist.age[s])]
             penalties == [s \in Sources |-> Sooner(hist.penalty[s])]
             rests == [s \in Sources |-> Sooner(hist.rest[s])]
  <2>1. \A s \in Sources : /\ hist.age[s] \in 0..MinInterval
                           /\ hist.penalty[s] \in 0..Cooldown
                           /\ hist.rest[s] \in 0..QuarantineFor
    BY <1>0 DEF History
  <2>2. \A s \in Sources : /\ Older(hist.age[s]) \in 0..MinInterval
                           /\ Sooner(hist.penalty[s]) \in 0..Cooldown
                           /\ Sooner(hist.rest[s]) \in 0..QuarantineFor
    BY <2>1, OlderIs, SoonerIs, Constants
  <2>3. /\ ages \in [Sources -> 0..MinInterval] /\ penalties \in [Sources -> 0..Cooldown]
        /\ rests \in [Sources -> 0..QuarantineFor]
    BY <2>2
  <2>4. hist' = [hist EXCEPT !.age = ages, !.penalty = penalties, !.rest = rests]
    BY DEF Tick
  <2> HIDE DEF ages, penalties, rests
  <2>5. /\ hist' \in History
        /\ hist'.age = ages /\ hist'.penalty = penalties /\ hist'.rest = rests
        /\ hist'.streak = hist.streak /\ hist'.loose = hist.loose
    BY <1>0, <2>3, <2>4 DEF History
  <2> QED
    BY <2>5 DEF ages, penalties, rests
<1>8. ASSUME NEW w \in Runners
      PROVE  /\ run'[w] = Idle \/ Whole(run'[w])
             /\ run'[w] \in Run \cup {Idle}
             /\ run'[w].pc = run[w].pc /\ run'[w].at = run[w].at
             /\ run'[w].due = run[w].due /\ run'[w].outcome = run[w].outcome
             /\ Running(w) => \A s \in Sources :
                   /\ run'[w].gov[s].age = Older(run[w].gov[s].age)
                   /\ run'[w].gov[s].cool = Sooner(run[w].gov[s].cool)
  <2>1. CASE ~Running(w)
    <3>1. run'[w] = run[w]
      BY <1>1, <2>1
    <3> QED
      BY <1>0, <2>1, <3>1 DEF RunOK
  <2>2. CASE Running(w)
    <3>1. Whole(run[w]) /\ run[w] \in Run
      BY <1>0, <2>2, BusyIs DEF Whole
    <3>2. run[w].lag + 1 \in 0..MaxLag
      <4>1. run[w].lag < MaxLag
        BY <2>2 DEF Tick
      <4>2. run[w].lag \in 0..MaxLag
        BY <3>1 DEF Run
      <4> QED
        BY <4>1, <4>2, Constants
    <3>3. PICK g, st : g = Aged(run[w].gov) /\ st = Passed(run[w].states)
      OBVIOUS
    <3>4. g \in [Sources -> GovernorEntry] /\ st \in [Sources -> StateEntry]
      <4>1. /\ run[w].gov \in [Sources -> GovernorEntry]
            /\ run[w].states \in [Sources -> StateEntry]
        BY <3>1 DEF Run
      <4>2. Aged(run[w].gov) \in [Sources -> GovernorEntry]
        BY <1>2, <4>1
      <4>3. Passed(run[w].states) \in [Sources -> StateEntry]
        BY <1>3, <4>1
      <4> QED
        BY <3>3, <4>2, <4>3
    <3>5. run'[w] = [run[w] EXCEPT !.lag = @ + 1, !.gov = g, !.states = st]
      BY <1>1, <2>2, <3>3
    <3>6. PICK c : c = run'[w]
      OBVIOUS
    <3>7. /\ c \in Run /\ c.pc = run[w].pc /\ c.at = run[w].at /\ c.due = run[w].due
          /\ c.outcome = run[w].outcome /\ c.gov = g /\ c.copy = run[w].copy
          /\ c.base = run[w].base /\ c.new = run[w].new
      BY <3>1, <3>2, <3>4, <3>5, <3>6 DEF Run
    <3>8. Whole(c)
      BY <3>1, <3>7 DEF Whole, Judged
    <3>9. \A s \in Sources : /\ g[s].age = Older(run[w].gov[s].age)
                             /\ g[s].cool = Sooner(run[w].gov[s].cool)
      <4>1. PICK r : r = run[w].gov
        OBVIOUS
      <4>2. g = [s \in Sources |-> [age |-> Older(r[s].age), cool |-> Sooner(r[s].cool)]]
        BY <3>3, <4>1
      <4> QED
        BY <4>1, <4>2
    <3> QED
      BY <3>6, <3>7, <3>8, <3>9
  <2> QED
    BY <2>1, <2>2
<1>9. RunOK'
  <2>1. run' \in [Runners -> Run \cup {Idle}]
    <3>1. PICK f : f = run'
      OBVIOUS
    <3>2. DOMAIN f = Runners /\ f = [w \in Runners |-> f[w]]
      BY <1>1, <3>1
    <3>3. \A w \in Runners : f[w] \in Run \cup {Idle}
      BY <1>8, <3>1
    <3> HIDE DEF Aged, Passed
    <3>4. f \in [Runners -> Run \cup {Idle}]
      BY <3>2, <3>3
    <3> QED
      BY <3>1, <3>4
  <2> QED
    BY <1>8, <2>1 DEF RunOK
<1>10. \A s \in Sources : gov'[s].age = Older(gov[s].age) /\ gov'[s].cool = Sooner(gov[s].cool)
  BY <1>1
<1> HIDE DEF Aged, Passed
<1> QED
  BY <1>4, <1>6, <1>7, <1>8, <1>9, <1>10 DEF ScheduleShape

-----------------------------------------------------------------------------
(* The pace. *)

LEMMA GovernedInit == Init => \A s \in Sources : Governed(s)
<1> SUFFICES ASSUME Init, NEW s \in Sources PROVE Governed(s)
  OBVIOUS
<1>1. /\ gov[s] = NeverCalled /\ hist.age[s] = MinInterval /\ hist.penalty[s] = 0
  BY DEF Init, NoGovernor
<1>2. Ahead(gov[s], s)
  BY <1>1, Constants DEF Ahead, NeverCalled
<1>3. \A w \in Runners : ~Running(w) /\ ~Asked(w, s)
  BY DEF Init, Running, Asked, Idle
<1> QED
  BY <1>2, <1>3 DEF Governed

(* Who runs beside w is the same while w and the others stay as they are. *)
LEMMA BesideStays ==
    ASSUME NEW w \in Runners, OthersStay(w), Running(w)' <=> Running(w)
    PROVE  \A v \in Runners : Beside(v)' <=> Beside(v)
<1>1. \A v \in Runners : Running(v)' <=> Running(v)
  BY DEF OthersStay, Running
<1> QED
  BY <1>1 DEF Beside

LEMMA GovernedQuiet ==
    ASSUME NEW s \in Sources, Governed(s), NEW w \in Runners, OthersStay(w), Quiet(w, s)
    PROVE  Governed(s)'
<1> SUFFICES ASSUME ~hist.loose[s] PROVE Governed(s)'
  BY DEF Governed, Quiet
<1>1. \A entry : Ahead(entry, s) => (entry.age <= hist'.age[s] + MaxLag
                                    /\ hist'.penalty[s] <= entry.cool + MaxLag)
  BY DEF Quiet, Ahead
<1>2. \A v \in Runners : Beside(v)' <=> Beside(v)
  BY BesideStays DEF Quiet
<1>3. \A v \in Runners : Running(v)' => Ahead(run[v].gov[s], s)'
  <2>1. Ahead(run'[w].gov[s], s)
    BY DEF Governed, Quiet
  <2>2. Ahead(run[w].gov[s], s)'
    BY <1>1, <2>1 DEF Ahead
  <2>3. ASSUME NEW v \in Runners \ {w}, Running(v)' PROVE Ahead(run[v].gov[s], s)'
    <3>1. run'[v] = run[v] /\ Running(v)
      BY <2>3 DEF OthersStay, Running
    <3>2. Ahead(run[v].gov[s], s)
      BY <3>1 DEF Governed
    <3> QED
      BY <1>1, <3>1, <3>2 DEF Ahead
  <2> QED
    BY <2>2, <2>3
<1>4. Ahead(gov[s], s)' \/ \E v \in Runners : Called(v, s)' /\ ~Beside(v)'
  <2>1. CASE Ahead(gov[s], s)
    BY <1>1, <2>1 DEF Ahead, Quiet
  <2>2. ASSUME NEW v \in Runners, Called(v, s), ~Beside(v) PROVE Called(v, s)' /\ ~Beside(v)'
    <3>1. CASE v = w
      BY <1>2, <2>2, <3>1 DEF Quiet
    <3>2. CASE v # w
      BY <1>2, <2>2, <3>2 DEF OthersStay, Called, Running
    <3> QED
      BY <3>1, <3>2
  <2> QED
    BY <2>1, <2>2 DEF Governed
<1>5. ASSUME NEW v \in Runners, Running(v)', s \in run'[v].due, ~Asked(v, s)'
      PROVE  Callable(s)'
  <2>1. Running(v) /\ s \in run[v].due /\ ~Asked(v, s)
    <3>1. CASE v = w
      BY <1>5, <3>1 DEF Quiet
    <3>2. CASE v # w
      BY <1>5, <3>2 DEF OthersStay, Running, Asked
    <3> QED
      BY <3>1, <3>2
  <2>2. Callable(s)
    BY <2>1 DEF Governed
  <2> QED
    BY <2>2 DEF Callable, Quiet
<1>6. ASSUME NEW v \in Runners, Asked(v, s)' PROVE ~Beside(v)'
  <2>1. Asked(v, s)
    <3>1. CASE v = w
      BY <1>6, <3>1 DEF Quiet
    <3>2. CASE v # w
      BY <1>6, <3>2 DEF OthersStay, Asked
    <3> QED
      BY <3>1, <3>2
  <2> QED
    BY <1>2, <2>1 DEF Governed
<1> QED
  BY <1>3, <1>4, <1>5, <1>6 DEF Governed

(* A cycle that starts is told by the governor file of every call that is    *)
(* not loose: nobody else has one in memory.                                 *)
LEMMA GovernedStart ==
    ASSUME ScheduleShape, NEW s \in Sources, Governed(s), NEW w \in Runners, Start(w)
    PROVE  Governed(s)'
<1> SUFFICES ASSUME ~hist'.loose[s] PROVE Governed(s)'
  BY DEF Governed
<1>1. /\ OthersStay(w) /\ run'[w].pc = "probe" /\ gov' = gov
      /\ hist'.age = hist.age /\ hist'.penalty = hist.penalty
      /\ ~hist.loose[s] /\ run'[w].gov[s] = gov[s]
      /\ \A v \in Runners : ~Called(v, s)
      /\ s \in run'[w].due => GovernorAllows(s, gov)
  BY StartMoves
<1>2. Ahead(gov[s], s)
  BY <1>1 DEF Governed
<1>3. GovernorAllows(s, gov) => Callable(s)
  <2>1. /\ hist.age[s] \in 0..MinInterval /\ hist.penalty[s] \in 0..Cooldown
        /\ gov[s].age \in 0..MinInterval
    BY DEF ScheduleShape, FilesOK, History, GovernorEntry
  <2> QED
    BY <1>2, <2>1, Constants DEF GovernorAllows, Ahead, Callable
<1>4. \A v \in Runners : ~Asked(v, s)
  <2>1. \A v \in Runners : Asked(v, s) => Called(v, s)
    BY DEF Asked, Called, Running
  <2> QED
    BY <1>1, <2>1
<1>5. \A v \in Runners : ~Asked(v, s)'
  BY <1>1, <1>4 DEF OthersStay, Asked
<1>6. \A v \in Runners : Running(v)' => Ahead(run[v].gov[s], s)'
  BY <1>1, <1>2 DEF OthersStay, Running, Governed, Ahead
<1>7. Ahead(gov[s], s)'
  BY <1>1, <1>2 DEF Ahead
<1>8. ASSUME NEW v \in Runners, Running(v)', s \in run'[v].due PROVE Callable(s)'
  <2>1. CASE v = w
    BY <1>1, <1>3, <1>8, <2>1 DEF Callable
  <2>2. CASE v # w
    BY <1>1, <1>4, <1>8, <2>2 DEF OthersStay, Running, Governed, Callable
  <2> QED
    BY <2>1, <2>2
<1> QED
  BY <1>5, <1>6, <1>7, <1>8 DEF Governed

(* A call made by a cycle that is alone settles what is known of the source. *)
LEMMA GovernedCall ==
    ASSUME ScheduleShape, NEW s \in Sources, NEW w \in Runners, Call(w, s)
    PROVE  Governed(s)'
<1>1. /\ ScheduleShape' /\ OthersStay(w) /\ run'[w].pc = "asked" /\ run'[w].at = s
      /\ run'[w].gov[s].age <= MaxLag
      /\ hist'.age[s] = 0 /\ hist'.penalty[s] = 0 /\ hist'.loose[s] = Beside(w)
  BY CallMoves
<1> SUFFICES ASSUME ~Beside(w) PROVE Governed(s)'
  BY <1>1 DEF Governed
<1>2. \A v \in Runners \ {w} : ~Running(v) /\ ~Running(v)' /\ ~Asked(v, s)'
  BY <1>1 DEF Beside, OthersStay, Running, Asked
<1>3. Running(w)' /\ Asked(w, s)' /\ Called(w, s)' /\ ~Beside(w)'
  BY <1>1, <1>2 DEF Running, Asked, Called, Beside
<1>4. Ahead(run[w].gov[s], s)'
  <2>1. Whole(run[w])'
    BY <1>1, <1>3, BusyIs DEF ScheduleShape, RunOK, Running, Idle
  <2>2. run'[w].gov[s].age \in 0..MinInterval /\ run'[w].gov[s].cool \in 0..Cooldown
    BY <2>1 DEF Whole, Run, GovernorEntry
  <2> QED
    BY <1>1, <2>2, Constants DEF Ahead
<1> QED
  BY <1>2, <1>3, <1>4 DEF Governed

(* A rate limit answers the call of a cycle that is alone, and the source is *)
(* out of its plan.                                                          *)
LEMMA GovernedAnswered ==
    ASSUME ScheduleShape, NEW s \in Sources, Governed(s), NEW w \in Runners, Answered(w)
    PROVE  Governed(s)'
<1>1. /\ OthersStay(w)
      /\ \/ Quiet(w, s)
         \/ /\ Asked(w, s) /\ ~Asked(w, s)' /\ Called(w, s)' /\ s \notin run'[w].due
            /\ gov' = gov /\ hist'.loose[s] = hist.loose[s] /\ Ahead(run[w].gov[s], s)'
  BY AnsweredMoves
<1>2. CASE Quiet(w, s)
  BY <1>1, <1>2, GovernedQuiet
<1>3. CASE ~Quiet(w, s) /\ ~hist.loose[s]
  <2>1. \A v \in Runners \ {w} : ~Running(v)
    BY <1>1, <1>3 DEF Governed, Beside
  <2>2. \A v \in Runners \ {w} : ~Running(v)' /\ ~Asked(v, s)'
    BY <1>1, <2>1 DEF OthersStay, Running, Asked
  <2>3. ~Beside(w)'
    BY <2>2 DEF Beside
  <2> QED
    BY <1>1, <1>3, <2>2, <2>3 DEF Governed
<1>4. CASE ~Quiet(w, s) /\ hist.loose[s]
  BY <1>1, <1>4 DEF Governed
<1> QED
  BY <1>2, <1>3, <1>4

(* What a cycle writes at its end is as good as what it held in memory.      *)
LEMMA GovernedSaveGovernor ==
    ASSUME ScheduleShape, NEW s \in Sources, Governed(s), NEW w \in Runners, SaveGovernor(w)
    PROVE  Governed(s)'
<1>1. /\ OthersStay(w) /\ Running(w) /\ run'[w] = Idle /\ gov' = run[w].gov /\ hist' = hist
  BY SaveGovernorMoves
<1> SUFFICES ASSUME ~hist.loose[s] PROVE Governed(s)'
  BY <1>1 DEF Governed
<1>2. \A v \in Runners : Running(v)' => v # w /\ run'[v] = run[v] /\ Running(v)
  BY <1>1 DEF OthersStay, Running, Idle
<1>3. \A v \in Runners : Asked(v, s)' => v # w /\ run'[v] = run[v] /\ Asked(v, s)
  BY <1>1 DEF OthersStay, Asked, Idle
<1>4. \A v \in Runners : Running(v)' => Ahead(run[v].gov[s], s)'
  BY <1>1, <1>2 DEF Governed, Ahead
<1>5. Ahead(gov[s], s)'
  BY <1>1 DEF Governed, Ahead
<1>6. ASSUME NEW v \in Runners, Running(v)', s \in run'[v].due, ~Asked(v, s)'
      PROVE  Callable(s)'
  <2>1. Running(v) /\ s \in run[v].due /\ ~Asked(v, s)
    BY <1>2, <1>6 DEF Asked
  <2> QED
    BY <1>1, <2>1 DEF Governed, Callable
<1>7. ASSUME NEW v \in Runners, Asked(v, s)' PROVE ~Beside(v)'
  <2>1. ~Beside(v)
    BY <1>3, <1>7 DEF Governed
  <2> QED
    BY <1>2, <2>1 DEF Beside
<1> QED
  BY <1>4, <1>5, <1>6, <1>7 DEF Governed

(* What dies with a cycle is either loose from then on or in the file. *)
LEMMA GovernedCrash ==
    ASSUME ScheduleShape, NEW s \in Sources, Governed(s), NEW w \in Runners, Crash(w)
    PROVE  Governed(s)'
<1>1. /\ OthersStay(w) /\ Running(w) /\ run'[w] = Idle /\ gov' = gov
      /\ hist'.age = hist.age /\ hist'.penalty = hist.penalty
      /\ ~hist'.loose[s] => ~hist.loose[s] /\ ~Called(w, s)
  BY CrashMoves
<1> SUFFICES ASSUME ~hist'.loose[s] PROVE Governed(s)'
  BY DEF Governed
<1>2. \A v \in Runners : Running(v)' => v # w /\ run'[v] = run[v] /\ Running(v)
  BY <1>1 DEF OthersStay, Running, Idle
<1>3. \A v \in Runners : Asked(v, s)' => v # w /\ run'[v] = run[v] /\ Asked(v, s)
  BY <1>1 DEF OthersStay, Asked, Idle
<1>4. \A v \in Runners : Running(v)' => Ahead(run[v].gov[s], s)'
  BY <1>1, <1>2 DEF Governed, Ahead
<1>5. Ahead(gov[s], s)'
  <2>1. \A v \in Runners : Called(v, s) => v # w
    BY <1>1
  <2>2. \A v \in Runners : v # w => Beside(v)
    BY <1>1 DEF Beside
  <2>3. Ahead(gov[s], s)
    BY <1>1, <2>1, <2>2 DEF Governed
  <2> QED
    BY <1>1, <2>3 DEF Ahead
<1>6. ASSUME NEW v \in Runners, Running(v)', s \in run'[v].due, ~Asked(v, s)'
      PROVE  Callable(s)'
  <2>1. Running(v) /\ s \in run[v].due /\ ~Asked(v, s)
    BY <1>2, <1>6 DEF Asked
  <2> QED
    BY <1>1, <2>1 DEF Governed, Callable
<1>7. ASSUME NEW v \in Runners, Asked(v, s)' PROVE ~Beside(v)'
  <2>1. ~Beside(v)
    BY <1>1, <1>3, <1>7 DEF Governed
  <2> QED
    BY <1>2, <2>1 DEF Beside
<1> QED
  BY <1>4, <1>5, <1>6, <1>7 DEF Governed

(* Ageing both sides by one keeps the one from running away from the other. *)
LEMMA AgedTogether ==
    ASSUME NEW a \in 0..MinInterval, NEW b \in 0..MinInterval,
           NEW c \in 0..Cooldown, NEW d \in 0..Cooldown
    PROVE  /\ a <= b + MaxLag => Older(a) <= Older(b) + MaxLag
           /\ d <= c + MaxLag => Sooner(d) <= Sooner(c) + MaxLag
           /\ b + MaxLag >= MinInterval => Older(b) + MaxLag >= MinInterval
           /\ d <= MaxLag => Sooner(d) <= MaxLag
<1>1. /\ MinInterval \in Nat /\ Cooldown \in Nat /\ MaxLag \in Nat
      /\ a \in Nat /\ a <= MinInterval /\ b \in Nat /\ b <= MinInterval
      /\ c \in Nat /\ d \in Nat
  BY Constants
<1>2. a <= b + MaxLag => Older(a) <= Older(b) + MaxLag
  BY <1>1 DEF Older
<1>3. d <= c + MaxLag => Sooner(d) <= Sooner(c) + MaxLag
  BY <1>1 DEF Sooner
<1>4. b + MaxLag >= MinInterval => Older(b) + MaxLag >= MinInterval
  BY <1>1 DEF Older
<1>5. d <= MaxLag => Sooner(d) <= MaxLag
  BY <1>1 DEF Sooner
<1> QED
  BY <1>2, <1>3, <1>4, <1>5

LEMMA GovernedTick ==
    ASSUME ScheduleShape, NEW s \in Sources, Governed(s), Tick
    PROVE  Governed(s)'
<1>1. /\ gov'[s].age = Older(gov[s].age) /\ gov'[s].cool = Sooner(gov[s].cool)
      /\ hist'.age[s] = Older(hist.age[s]) /\ hist'.penalty[s] = Sooner(hist.penalty[s])
      /\ hist'.loose = hist.loose
  BY TickMoves
<1>2. \A w \in Runners :
          /\ run'[w].pc = run[w].pc /\ run'[w].at = run[w].at
          /\ run'[w].due = run[w].due /\ run'[w].outcome = run[w].outcome
          /\ Running(w) => /\ run'[w].gov[s].age = Older(run[w].gov[s].age)
                           /\ run'[w].gov[s].cool = Sooner(run[w].gov[s].cool)
  BY TickMoves
<1> SUFFICES ASSUME ~hist.loose[s] PROVE Governed(s)'
  BY <1>1 DEF Governed
<1>3. /\ hist.age[s] \in 0..MinInterval /\ hist.penalty[s] \in 0..Cooldown
      /\ gov[s].age \in 0..MinInterval /\ gov[s].cool \in 0..Cooldown
  BY DEF ScheduleShape, FilesOK, History, GovernorEntry
<1>4. \A w \in Runners : Running(w) => /\ run[w].gov[s].age \in 0..MinInterval
                                       /\ run[w].gov[s].cool \in 0..Cooldown
  <2>1. \A w \in Runners : Running(w) => Whole(run[w])
    BY BusyIs DEF ScheduleShape
  <2> QED
    BY <2>1 DEF Whole, Run, GovernorEntry
<1>5. Ahead(gov[s], s) => Ahead(gov[s], s)'
  BY <1>1, <1>3, AgedTogether DEF Ahead
<1>6. \A w \in Runners : Running(w) /\ Ahead(run[w].gov[s], s) => Ahead(run[w].gov[s], s)'
  BY <1>1, <1>2, <1>3, <1>4, AgedTogether DEF Ahead
<1>7. Callable(s) => Callable(s)'
  BY <1>1, <1>3, AgedTogether DEF Callable
<1>8. \A w \in Runners : /\ Running(w)' <=> Running(w)
                         /\ Asked(w, s)' <=> Asked(w, s)
                         /\ Called(w, s)' <=> Called(w, s)
  BY <1>2 DEF Running, Asked, Called
<1>9. \A w \in Runners : Beside(w)' <=> Beside(w)
  BY <1>8 DEF Beside
<1> QED
  BY <1>2, <1>5, <1>6, <1>7, <1>8, <1>9 DEF Governed

-----------------------------------------------------------------------------
(* All together. *)

LEMMA RestingInit == Init => \A s \in Sources : Resting(s)
  BY DEF Init, Resting, NoHealth, Healthy

LEMMA RestingCalm == Calm /\ (\A s \in Sources : Resting(s)) => (\A s \in Sources : Resting(s))'
  BY DEF Calm, Resting

LEMMA RestingTick ==
    ASSUME ScheduleShape, NEW s \in Sources, Resting(s), Tick
    PROVE  Resting(s)'
<1>1. /\ hist'.streak = hist.streak /\ hist'.rest[s] = Sooner(hist.rest[s])
      /\ health'[s].state = health[s].state /\ health'[s].fails = health[s].fails
      /\ health'[s].retry = Sooner(health[s].retry)
  BY TickMoves
<1>2. hist.rest[s] \in Nat
  BY Constants DEF ScheduleShape, History
<1>3. health[s].retry \in Nat
  BY Constants DEF ScheduleShape, FilesOK, HealthEntry
<1>4. Sooner(hist.rest[s]) > 0 => hist.rest[s] > 0
  BY <1>2 DEF Sooner
<1>5. health[s].retry >= hist.rest[s] => Sooner(health[s].retry) >= Sooner(hist.rest[s])
  BY <1>2, <1>3 DEF Sooner
<1> QED
  BY <1>1, <1>4, <1>5 DEF Resting

ScheduleInv ==
    ScheduleShape /\ \A s \in Sources : Governed(s) /\ Resting(s)

LEMMA InvStep == ScheduleInv /\ [Next]_vars => ScheduleInv'
<1> SUFFICES ASSUME ScheduleInv, [Next]_vars PROVE ScheduleInv'
  OBVIOUS
<1> USE DEF ScheduleInv
<1>1. ASSUME NEW w \in Runners, Start(w) PROVE ScheduleInv'
  BY <1>1, StartMoves, GovernedStart, RestingCalm
<1>2. ASSUME NEW w \in Runners, NEW q \in Sources, ProbeSkipped(w, q) PROVE ScheduleInv'
  BY <1>2, ProbeSkippedMoves, GovernedQuiet, RestingCalm
<1>3. ASSUME NEW w \in Runners, NEW q \in Sources, Call(w, q) PROVE ScheduleInv'
  <2>1. ScheduleShape' /\ OthersStay(w) /\ Calm /\ \A s \in Sources \ {q} : Quiet(w, s)
    BY <1>3, CallMoves
  <2>2. Governed(q)'
    BY <1>3, GovernedCall
  <2>3. \A s \in Sources \ {q} : Governed(s)'
    BY <2>1, GovernedQuiet
  <2> QED
    BY <2>1, <2>2, <2>3, RestingCalm
<1>4. ASSUME NEW w \in Runners, Raised(w) PROVE ScheduleInv'
  BY <1>4, RaisedMoves, GovernedQuiet, RestingCalm
<1>5. ASSUME NEW w \in Runners, Answered(w) PROVE ScheduleInv'
  BY <1>5, AnsweredMoves, GovernedAnswered, RestingCalm
<1>6. ASSUME NEW w \in Runners, LoadHealth(w) PROVE ScheduleInv'
  BY <1>6, LoadHealthMoves, GovernedQuiet, RestingCalm
<1>7. ASSUME NEW w \in Runners, SaveHealth(w) PROVE ScheduleInv'
  BY <1>7, SaveHealthMoves, GovernedQuiet
<1>8. ASSUME NEW w \in Runners, HealthUnsaved(w) PROVE ScheduleInv'
  BY <1>8, HealthUnsavedMoves, GovernedQuiet
<1>9. ASSUME NEW w \in Runners, SaveStates(w) PROVE ScheduleInv'
  BY <1>9, SaveStatesMoves, GovernedQuiet, RestingCalm
<1>10. ASSUME NEW w \in Runners, SaveGovernor(w) PROVE ScheduleInv'
  BY <1>10, SaveGovernorMoves, GovernedSaveGovernor, RestingCalm
<1>11. ASSUME NEW w \in Runners, Crash(w) PROVE ScheduleInv'
  BY <1>11, CrashMoves, GovernedCrash, RestingCalm
<1>12. CASE Tick
  BY <1>12, TickMoves, GovernedTick, RestingTick
<1>13. CASE UNCHANGED vars
  BY <1>13 DEF vars, ScheduleShape, FilesOK, RunOK, Governed, Resting, Ahead, Callable, Asked,
               Called, Beside, Running
<1> QED
  BY <1>1, <1>2, <1>3, <1>4, <1>5, <1>6, <1>7, <1>8, <1>9, <1>10, <1>11, <1>12, <1>13
     DEF Next, Cycle

LEMMA InvHolds == Spec => []ScheduleInv
<1>1. Init => ScheduleInv
  BY InitShape, GovernedInit, RestingInit DEF ScheduleInv
<1> QED
  BY <1>1, InvStep, PTL DEF Spec

(* A step that calls s passes the gate of the probe, in a plan with s in it. *)
LEMMA OnlyCallCalls ==
    ASSUME ScheduleInv, Next, NEW s \in Sources, Calls(s)
    PROVE  \E w \in Runners : Call(w, s)
<1>1. PICK v \in Runners : run[v].at = None /\ run'[v].at = s
  BY DEF Calls
<1>2. s # None
  BY ScheduleAssumption
<1>3. ScheduleShape /\ \A q \in Sources : Resting(q)
  BY DEF ScheduleInv
<1>4. ASSUME NEW w \in Runners, OthersStay(w), run'[w].at \in {None, run[w].at} PROVE FALSE
  BY <1>1, <1>2, <1>4 DEF OthersStay
<1>5. ASSUME NEW w \in Runners, NEW q \in Sources, Call(w, q) PROVE Call(w, s)
  <2>1. OthersStay(w) /\ run'[w].at = q
    BY <1>3, <1>5, CallMoves
  <2>2. v = w
    BY <1>1, <1>2, <2>1 DEF OthersStay
  <2> QED
    BY <1>1, <1>5, <2>1, <2>2
<1>6. ASSUME NEW w \in Runners, Start(w) PROVE FALSE
  BY <1>3, <1>4, <1>6, StartMoves
<1>7. ASSUME NEW w \in Runners, NEW q \in Sources, ProbeSkipped(w, q) PROVE FALSE
  BY <1>3, <1>4, <1>7, ProbeSkippedMoves
<1>8. ASSUME NEW w \in Runners, Raised(w) PROVE FALSE
  BY <1>3, <1>4, <1>8, RaisedMoves
<1>9. ASSUME NEW w \in Runners, Answered(w) PROVE FALSE
  BY <1>3, <1>4, <1>9, AnsweredMoves
<1>10. ASSUME NEW w \in Runners, LoadHealth(w) PROVE FALSE
  BY <1>3, <1>4, <1>10, LoadHealthMoves
<1>11. ASSUME NEW w \in Runners, SaveHealth(w) PROVE FALSE
  BY <1>3, <1>4, <1>11, SaveHealthMoves
<1>12. ASSUME NEW w \in Runners, HealthUnsaved(w) PROVE FALSE
  BY <1>3, <1>4, <1>12, HealthUnsavedMoves
<1>13. ASSUME NEW w \in Runners, SaveStates(w) PROVE FALSE
  BY <1>3, <1>4, <1>13, SaveStatesMoves
<1>14. ASSUME NEW w \in Runners, SaveGovernor(w) PROVE FALSE
  BY <1>3, <1>4, <1>14, SaveGovernorMoves DEF Idle
<1>15. ASSUME NEW w \in Runners, Crash(w) PROVE FALSE
  BY <1>3, <1>4, <1>15, CrashMoves DEF Idle
<1>16. CASE Tick
  BY <1>1, <1>2, <1>3, <1>16, TickMoves
<1> QED
  BY <1>5, <1>6, <1>7, <1>8, <1>9, <1>10, <1>11, <1>12, <1>13, <1>14, <1>15, <1>16
     DEF Next, Cycle

-----------------------------------------------------------------------------
(* Every variable has its type, and no plan is longer than --max-sources:    *)
(* the due sources that have fewer than MaxSources due ones before them are  *)
(* at most MaxSources, because the last of them comes after all the others.  *)
THEOREM ScheduleTypeCorrect == Spec => []TypeOK
<1>1. ScheduleInv => TypeOK
  <2> SUFFICES ASSUME ScheduleInv PROVE TypeOK
    OBVIOUS
  <2>1. FilesOK /\ \A w \in Runners : run[w] = Idle \/ Whole(run[w])
    BY DEF ScheduleInv, ScheduleShape, RunOK
  <2>2. ASSUME NEW c, Whole(c) PROVE CycleOK(c)
    BY <2>2 DEF Whole, Run, CycleOK
  <2> QED
    BY <2>1, <2>2 DEF FilesOK, TypeOK
<1> QED
  BY <1>1, InvHolds, PTL

(* A source is not called before its interval, nor while the cooldown of its *)
(* last rate limit runs, give or take the length of one cycle: however many  *)
(* cycles run beside each other, die, overwrite the governor file or find it *)
(* unreadable, such an accident excuses the next call of the source only,    *)
(* and a call made with no cycle beside it leaves nothing to excuse.         *)
THEOREM SourcesArePaced == Spec => Paced
<1>1. ScheduleInv /\ [Next]_vars =>
          [\A s \in Sources :
              Calls(s) /\ ~hist.loose[s] =>
                  /\ hist.age[s] + MaxLag >= MinInterval
                  /\ hist.penalty[s] <= MaxLag]_vars
  <2> SUFFICES ASSUME ScheduleInv, Next, NEW s \in Sources, Calls(s), ~hist.loose[s]
               PROVE  Callable(s)
    BY DEF Callable
  <2>1. PICK w \in Runners : Call(w, s)
    BY OnlyCallCalls
  <2>2. run[w].pc = "probe" /\ s \in run[w].due
    BY <2>1, CallMoves DEF ScheduleInv
  <2>3. Running(w) /\ ~Asked(w, s)
    BY <2>2 DEF Running, Asked
  <2> QED
    BY <2>2, <2>3 DEF ScheduleInv, Governed
<1> QED
  BY <1>1, InvHolds, PTL DEF Spec, Paced

(* After Threshold failures in a row that the health file was told of, each  *)
(* further transient one keeps the source uncalled for the whole quarantine, *)
(* whatever cycles die or run beside: only a gate that cannot read the file  *)
(* lets a call pass, and only what another cycle has overwritten, or a file  *)
(* that could not be read or saved has lost, is not counted.                 *)
THEOREM QuarantineHolds == Spec => QuarantineKept
<1>1. ScheduleInv /\ [Next]_vars =>
          [\A s \in Sources :
              Calls(s) /\ hist'.accidents = hist.accidents => hist.rest[s] = 0]_vars
  <2> SUFFICES ASSUME ScheduleInv, Next, NEW s \in Sources, Calls(s),
                      hist'.accidents = hist.accidents
               PROVE  hist.rest[s] = 0
    OBVIOUS
  <2>1. PICK w \in Runners : Call(w, s)
    BY OnlyCallCalls
  <2>2. ~Skipped(health[s])
    BY <2>1, CallMoves DEF ScheduleInv
  <2>3. hist.rest[s] \in Nat
    BY Constants DEF ScheduleInv, ScheduleShape, History
  <2>4. health[s].retry \in Nat
    BY Constants DEF ScheduleInv, ScheduleShape, FilesOK, HealthEntry
  <2>5. hist.rest[s] > 0 => health[s].state = "QUARANTINED_RETRYABLE"
                            /\ health[s].retry >= hist.rest[s]
    BY DEF ScheduleInv, Resting
  <2> QED
    BY <2>2, <2>3, <2>4, <2>5 DEF Skipped
<1> QED
  BY <1>1, InvHolds, PTL DEF Spec, QuarantineKept

=============================================================================
