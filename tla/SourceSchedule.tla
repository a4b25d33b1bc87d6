--------------------------- MODULE SourceSchedule ---------------------------
(***************************************************************************)
(* When the production cycle of the ingestion side may call a source:      *)
(* run_production_orchestration plans a cycle from the governor file, the  *)
(* production state file and the strategy memory, probes what is due, and  *)
(* writes both files back at its end.  The probe has a gate of its own,    *)
(* the health file, read and written as a whole around every call.         *)
(*                                                                         *)
(* Nothing keeps a cycle from being started beside another one, and each   *)
(* file is written over what the other cycle put there.  A file that       *)
(* cannot be read is taken for an empty one, and a failed save of the      *)
(* health file is swallowed.  These, and a cycle that dies, are accidents: *)
(* they are counted, and the history knows what they took.                 *)
(*                                                                         *)
(* Time is relative: an age says how long ago something was, up to the     *)
(* interval that matters, and a deadline how long it has still to run.     *)
(* Tick moves them all.  The cycle takes its `now` once, at its start, so  *)
(* what it records is older than what it did by `lag`.                     *)
(*                                                                         *)
(* The profiles are the keys of a YAML mapping, in the order of the file:  *)
(* no source is there twice, and a plan is a set of them.                  *)
(***************************************************************************)
EXTENDS Naturals, Sequences, FiniteSets

CONSTANTS
    Runners,       \* processes that may run a cycle
    Sources,
    Profiles,      \* the sources in the order of source_profiles.yaml
    Ready,         \* sources the profile and the memory derive as ready
    RateLimited,   \* sources the memory holds as EXTERNAL_RATE_LIMITED
    ResumeIn,      \* time until the resume deadline of that memory
    Outcomes,      \* what calling each source may come to
    Modes,         \* the plan modes cycles are run in: "validation" waives is_due
    MaxSources,    \* the --max-sources cap
    MinInterval,   \* min_interval_seconds
    Cooldown,      \* cooldown of a rate limit
    QuarantineFor, \* _QUARANTINE_RECHECK_SECONDS
    Threshold,     \* quarantine_threshold
    MaxLag,        \* bound: time one cycle takes at most
    MaxAccidents   \* bound: accidents, of all kinds together

None == "none"

(* The categories that count as transient are not the same for the health   *)
(* file (_TRANSIENT_FAILURE_STATUSES) and for the plan (_RETRYABLE_FAILURE): *)
(* "network" is one for the first only, "api_error" for the second only.     *)
HealthTransient == {"transient", "network"}
PlanRetryable == {"transient", "api_error"}
Failures == HealthTransient \cup PlanRetryable \cup {"other", "blocked"}
AllOutcomes == Failures \cup {"success", "rate_limited", "exception"}

ASSUME ScheduleAssumption ==
    /\ None \notin Sources
    /\ Profiles \in Seq(Sources)
    /\ \A i, j \in DOMAIN Profiles : Profiles[i] = Profiles[j] => i = j
    /\ Ready \subseteq Sources /\ RateLimited \subseteq Sources
    /\ Ready \cap RateLimited = {}
    /\ Outcomes \in [Sources -> SUBSET AllOutcomes]
    /\ Modes \subseteq {"production", "validation"}
    /\ {ResumeIn, MaxSources, MinInterval, Cooldown, QuarantineFor, Threshold,
        MaxLag, MaxAccidents} \subseteq Nat

VARIABLES
    gov,     \* rate_limit_governor.json: last call and cooldown of each source
    states,  \* production_source_state.json: failures, last success, quarantine
    health,  \* source_health.json
    resume,  \* time left to the deadline in the strategy memory
    run,     \* the cycle of each runner, in memory
    hist     \* history: what was really called, answered and lost

vars == <<gov, states, health, resume, run, hist>>

NeverCalled == [age |-> MinInterval, cool |-> 0]
Unknown == [fails |-> 0, success |-> MinInterval, quar |-> 0]
Healthy == [state |-> "HEALTHY", fails |-> 0, retry |-> 0]

NoGovernor == [s \in Sources |-> NeverCalled]
NoStates == [s \in Sources |-> Unknown]
NoHealth == [s \in Sources |-> Healthy]

Idle == [pc |-> "idle", lag |-> 0, due |-> {}, gov |-> <<>>, states |-> <<>>, outcome |-> <<>>,
         at |-> None, base |-> Healthy, new |-> Healthy, copy |-> <<>>]

Init ==
    /\ gov = NoGovernor
    /\ states = NoStates
    /\ health = NoHealth
    /\ resume = ResumeIn
    /\ run = [w \in Runners |-> Idle]
    /\ hist = [accidents |-> 0,
               age |-> [s \in Sources |-> MinInterval], penalty |-> [s \in Sources |-> 0],
               loose |-> [s \in Sources |-> FALSE],
               streak |-> [s \in Sources |-> 0], rest |-> [s \in Sources |-> 0]]

(* What a file is read as: what it holds, or, by accident, nothing. *)
Read(file, empty, unreadable) == IF unreadable THEN empty ELSE file

Accidents(n) == hist.accidents + n <= MaxAccidents
OneIf(b) == IF b THEN 1 ELSE 0

Running(w) == run[w].pc # "idle"
Beside(w) == \E v \in Runners \ {w} : Running(v)

-----------------------------------------------------------------------------
(* The plan. *)

Older(age) == IF age < MinInterval THEN age + 1 ELSE age
Sooner(left) == IF left > 0 THEN left - 1 ELSE 0
SinceStart(lag) == IF lag < MinInterval THEN lag ELSE MinInterval
Earlier(lag, left) == IF left > lag THEN left - lag ELSE 0

(* The states a cycle starts from: derived afresh from profile and memory,  *)
(* with the failure counts and the last success of the file and no more.    *)
Derived(file) == [s \in Sources |-> [file[s] EXCEPT !.quar = 0]]

(* RateLimitGovernor.decide *)
GovernorAllows(s, g) == g[s].cool = 0 /\ g[s].age >= MinInterval

Due(s, g, st, mode) ==
    /\ s \in Ready \/ (s \in RateLimited /\ resume = 0)
    /\ st[s].quar = 0
    /\ GovernorAllows(s, g)
    /\ mode = "validation" \/ st[s].success >= MinInterval

Before(s, t) == \E i, j \in DOMAIN Profiles : i < j /\ Profiles[i] = s /\ Profiles[j] = t

(* The due sources in the order of their profiles, up to the cap. *)
Plan(g, st, mode) ==
    LET due == {s \in {Profiles[i] : i \in DOMAIN Profiles} : Due(s, g, st, mode)}
    IN  {s \in due : Cardinality({q \in due : Before(q, s)}) < MaxSources}

(* s was called in this cycle, or skipped in a way that counts as a call,    *)
(* and the governor file does not tell of it yet.                            *)
Called(w, s) == Running(w) /\ (run[w].outcome[s] # None \/ run[w].at = s)

(* The history holds nobody to a call the new cycle cannot know of. *)
Start(w) ==
    /\ ~Running(w)
    /\ \E mode \in Modes, noGov, noStates \in BOOLEAN :
          LET g == Read(gov, NoGovernor, noGov)
              st == Derived(Read(states, NoStates, noStates))
              n == OneIf(noGov) + OneIf(noStates) + OneIf(Beside(w))
          IN  /\ Accidents(n)
              /\ run' = [run EXCEPT ![w] = [Idle EXCEPT
                            !.pc = "probe", !.due = Plan(g, st, mode), !.gov = g, !.states = st,
                            !.outcome = [s \in Sources |-> None]]]
              /\ hist' = [hist EXCEPT
                    !.accidents = @ + n,
                    !.loose = [s \in Sources |->
                                 hist.loose[s] \/ noGov \/ \E v \in Runners : Called(v, s)]]
    /\ UNCHANGED <<gov, states, health, resume>>

-----------------------------------------------------------------------------
(* One source of the plan. *)

(* Mutants: a retryable quarantine is no reason to skip; a deadline that has *)
(* passed still is.                                                          *)
SkippedUnlessQuarantined(h) ==
    \/ h.state = "BLOCKED_TERMINAL"
    \/ h.state = "RATE_LIMITED_COOLDOWN" /\ h.retry > 0
SkippedForGood(h) ==
    h.state \in {"BLOCKED_TERMINAL", "RATE_LIMITED_COOLDOWN", "QUARANTINED_RETRYABLE"}

(* should_skip: the health gate of the probe *)
Skipped(h) ==
    \/ h.state = "BLOCKED_TERMINAL"
    \/ h.state \in {"RATE_LIMITED_COOLDOWN", "QUARANTINED_RETRYABLE"} /\ h.retry > 0

UpTo(n) == IF n < Threshold THEN n + 1 ELSE Threshold

(* apply_probe_outcome; a rate limit carries a retry deadline or none.       *)
(* "blocked" stands for a deferral to the special round too: both are        *)
(* skipped for good, until an operator probes with --force.                  *)
HealthAfter(h, outcome, retry) ==
    CASE outcome = "success" -> Healthy
      [] outcome = "blocked" -> [state |-> "BLOCKED_TERMINAL", fails |-> UpTo(h.fails), retry |-> 0]
      [] outcome = "rate_limited" ->
            [state |-> "RATE_LIMITED_COOLDOWN", fails |-> h.fails, retry |-> retry]
      [] outcome \in HealthTransient ->
            IF h.fails + 1 >= Threshold
            THEN [state |-> "QUARANTINED_RETRYABLE", fails |-> Threshold, retry |-> QuarantineFor]
            ELSE [state |-> "DEGRADED", fails |-> h.fails + 1, retry |-> 0]
      [] OTHER -> [state |-> "DEGRADED", fails |-> UpTo(h.fails), retry |-> 0]

(* Mutants: the call itself is not recorded; the deadline of the cooldown is *)
(* put later by the length of the cycle.                                     *)
UnrecordedCall(entry, lag) == entry
LateDeadline(lag) == [age |-> SinceStart(lag), cool |-> Cooldown + lag]

(* record_call and record_rate_limited, with the `now` of the cycle *)
Recorded(entry, lag) == [entry EXCEPT !.age = SinceStart(lag)]
Limited(lag) == [age |-> SinceStart(lag), cool |-> Earlier(lag, Cooldown)]

(* What the cycle keeps of a probe it is through with. *)
Noted(c, s, outcome) ==
    [c EXCEPT !.pc = "probe", !.at = None, !.due = @ \ {s}, !.outcome[s] = outcome,
              !.gov[s] = IF outcome = "rate_limited" THEN Limited(c.lag) ELSE Recorded(@, c.lag)]

(* The source the cycle is at. *)
NextDue(w, s) == /\ run[w].pc = "probe"
                 /\ s \in run[w].due
                 /\ \A q \in run[w].due : ~Before(q, s)

(* The gate answers in place of the source: a terminal block as a failure,  *)
(* a running deadline as a rate limit.                                      *)
ProbeSkipped(w, s) ==
    /\ NextDue(w, s)
    /\ Skipped(health[s])
    /\ run' = [run EXCEPT ![w] =
          Noted(@, s, IF health[s].state = "BLOCKED_TERMINAL" THEN "other" ELSE "rate_limited")]
    /\ UNCHANGED <<gov, states, health, resume, hist>>

(* The gate lets the call pass, or cannot read the health file.  The next    *)
(* plan will know of this call if the cycle is the only one.                 *)
Call(w, s) ==
    /\ NextDue(w, s)
    /\ Accidents(OneIf(Skipped(health[s])))
    /\ run' = [run EXCEPT ![w].pc = "asked", ![w].at = s,
                          ![w].gov[s] = Recorded(@, run[w].lag)]
    /\ hist' = [hist EXCEPT !.accidents = @ + OneIf(Skipped(health[s])),
                            !.age[s] = 0, !.penalty[s] = 0,
                            !.loose[s] = Beside(w)]
    /\ UNCHANGED <<gov, states, health, resume>>

(* probe_fn raises: neither the health file nor the governor hears of it.    *)
Raised(w) ==
    /\ run[w].pc = "asked"
    /\ "exception" \in Outcomes[run[w].at]
    /\ run' = [run EXCEPT ![w] = Noted(@, run[w].at, "exception")]
    /\ UNCHANGED <<gov, states, health, resume, hist>>

(* The source has answered: _update_health gets its entry and judges.        *)
Answered(w) ==
    /\ run[w].pc = "asked"
    /\ LET s == run[w].at
       IN  \E o \in Outcomes[s] \ {"exception"}, retry \in {0, Cooldown}, unreadable \in BOOLEAN :
              /\ Accidents(OneIf(unreadable))
              /\ LET base == Read(health, NoHealth, unreadable)[s]
                 IN  run' = [run EXCEPT ![w] =
                        [Noted(@, s, o) EXCEPT !.pc = "judged", !.at = s, !.base = base,
                                               !.new = HealthAfter(base, o, retry)]]
              /\ hist' = [hist EXCEPT
                    !.accidents = @ + OneIf(unreadable),
                    !.penalty[s] = IF o = "rate_limited" THEN Cooldown ELSE @]
    /\ UNCHANGED <<gov, states, health, resume>>

(* LocalFileSourceHealthStore.set loads the file again ... *)
LoadHealth(w) ==
    /\ run[w].pc = "judged"
    /\ \E unreadable \in BOOLEAN :
          /\ Accidents(OneIf(unreadable))
          /\ run' = [run EXCEPT ![w] = [@ EXCEPT !.pc = "loaded",
                        !.copy = Read(health, NoHealth, unreadable)]]
          /\ hist' = [hist EXCEPT !.accidents = @ + OneIf(unreadable)]
    /\ UNCHANGED <<gov, states, health, resume>>

Probed(w) ==
    run' = [run EXCEPT ![w] = [@ EXCEPT !.pc = "probe", !.at = None, !.base = Healthy,
                                        !.new = Healthy, !.copy = <<>>]]

(* ... and writes it, over whatever it has become since.  The history counts *)
(* the failures in a row the file was told of, and forgets those it lost.    *)
SaveHealth(w) ==
    /\ run[w].pc = "loaded"
    /\ LET s == run[w].at
           o == run[w].outcome[s]
           Lost(q) == IF q = s THEN run[w].base # health[q] ELSE run[w].copy[q] # health[q]
           known == IF Lost(s) THEN 0 ELSE hist.streak[s]
           streak == CASE o = "success" -> 0
                       [] o = "rate_limited" -> known
                       [] OTHER -> UpTo(known)
       IN  /\ health' = [run[w].copy EXCEPT ![s] = run[w].new]
           /\ hist' = [hist EXCEPT
                 !.streak = [q \in Sources |-> IF q = s THEN streak
                                               ELSE IF Lost(q) THEN 0 ELSE @[q]],
                 !.rest = [q \in Sources |->
                             IF q = s THEN IF o \in HealthTransient /\ streak = Threshold
                                           THEN QuarantineFor ELSE 0
                             ELSE IF Lost(q) THEN 0 ELSE @[q]]]
    /\ Probed(w)
    /\ UNCHANGED <<gov, states, resume>>

(* The save fails, and nobody hears of it. *)
HealthUnsaved(w) ==
    /\ run[w].pc = "loaded"
    /\ Accidents(1)
    /\ Probed(w)
    /\ hist' = [hist EXCEPT !.accidents = @ + 1,
                            !.streak[run[w].at] = 0, !.rest[run[w].at] = 0]
    /\ UNCHANGED <<gov, states, health, resume>>

-----------------------------------------------------------------------------
(* The end of a cycle. *)

(* evaluate_quarantine on what the cycle saw *)
Quarantined(c, s) == c.outcome[s] \in PlanRetryable /\ c.states[s].fails + 1 >= Threshold

Patched(c, s) ==
    LET st == c.states[s]
        o == c.outcome[s]
    IN  CASE o = "success" -> [st EXCEPT !.fails = 0, !.success = SinceStart(c.lag)]
          [] o \in Failures \cup {"exception"} ->
                [st EXCEPT !.fails = UpTo(@),
                           !.quar = IF Quarantined(c, s) THEN Earlier(c.lag, QuarantineFor) ELSE 0]
          [] OTHER -> st

SaveStates(w) ==
    /\ run[w].pc = "probe" /\ run[w].due = {}
    /\ states' = [s \in Sources |-> Patched(run[w], s)]
    /\ run' = [run EXCEPT ![w].pc = "save"]
    /\ UNCHANGED <<gov, health, resume, hist>>

SaveGovernor(w) ==
    /\ run[w].pc = "save"
    /\ gov' = run[w].gov
    /\ run' = [run EXCEPT ![w] = Idle]
    /\ UNCHANGED <<states, health, resume, hist>>

(* The process dies, or a save that is not swallowed raises: what the        *)
(* governor held in memory is gone.                                          *)
Crash(w) ==
    /\ Running(w)
    /\ Accidents(1)
    /\ run' = [run EXCEPT ![w] = Idle]
    /\ hist' = [hist EXCEPT
           !.accidents = @ + 1,
           !.loose = [s \in Sources |-> @[s] \/ Called(w, s)]]
    /\ UNCHANGED <<gov, states, health, resume>>

(* The health file is read and written within no time to speak of. *)
Tick ==
    /\ \A w \in Runners : /\ Running(w) => run[w].lag < MaxLag
                          /\ run[w].pc \notin {"judged", "loaded"}
    /\ LET Aged(g) == [s \in Sources |-> [age |-> Older(g[s].age), cool |-> Sooner(g[s].cool)]]
           Passed(st) == [s \in Sources |-> [st[s] EXCEPT !.success = Older(@), !.quar = Sooner(@)]]
       IN  /\ gov' = Aged(gov)
           /\ states' = Passed(states)
           /\ run' = [w \in Runners |->
                         IF Running(w)
                         THEN [run[w] EXCEPT !.lag = @ + 1, !.gov = Aged(@), !.states = Passed(@)]
                         ELSE run[w]]
    /\ health' = [s \in Sources |-> [health[s] EXCEPT !.retry = Sooner(@)]]
    /\ resume' = Sooner(resume)
    /\ hist' = [hist EXCEPT !.age = [s \in Sources |-> Older(@[s])],
                            !.penalty = [s \in Sources |-> Sooner(@[s])],
                            !.rest = [s \in Sources |-> Sooner(@[s])]]

-----------------------------------------------------------------------------
Cycle(w) ==
    \/ Start(w) \/ SaveStates(w) \/ SaveGovernor(w)
    \/ \E s \in Sources : ProbeSkipped(w, s) \/ Call(w, s)
    \/ Raised(w) \/ Answered(w) \/ LoadHealth(w) \/ SaveHealth(w) \/ HealthUnsaved(w)

Next == Tick \/ \E w \in Runners : Cycle(w) \/ Crash(w)

Spec == Init /\ [][Next]_vars

(* Cycles are started again and again, a cycle in progress goes on, and time *)
(* passes.                                                                   *)
FairSpec == Spec /\ WF_vars(Tick) /\ \A w \in Runners : WF_vars(Cycle(w))

-----------------------------------------------------------------------------
(* Every variable has its type, and no plan is longer than the cap. *)
GovernorEntry == [age : 0..MinInterval, cool : 0..Cooldown]
StateEntry == [fails : 0..Threshold, success : 0..MinInterval, quar : 0..QuarantineFor]
HealthEntry ==
    [state : {"HEALTHY", "DEGRADED", "RATE_LIMITED_COOLDOWN", "QUARANTINED_RETRYABLE",
              "BLOCKED_TERMINAL"},
     fails : 0..Threshold,
     retry : 0..(IF Cooldown > QuarantineFor THEN Cooldown ELSE QuarantineFor)]

CycleOK(c) ==
    /\ c.pc \in {"probe", "asked", "judged", "loaded", "save"} /\ c.lag \in 0..MaxLag
    /\ c.due \subseteq Sources /\ Cardinality(c.due) <= MaxSources
    /\ c.gov \in [Sources -> GovernorEntry]
    /\ c.states \in [Sources -> StateEntry]
    /\ c.outcome \in [Sources -> AllOutcomes \cup {None}]
    /\ IF c.pc \in {"asked", "judged", "loaded"} THEN c.at \in Sources ELSE c.at = None
    /\ c.base \in HealthEntry /\ c.new \in HealthEntry
    /\ IF c.pc = "loaded" THEN c.copy \in [Sources -> HealthEntry] ELSE c.copy = <<>>

TypeOK ==
    /\ gov \in [Sources -> GovernorEntry]
    /\ states \in [Sources -> StateEntry]
    /\ health \in [Sources -> HealthEntry]
    /\ resume \in 0..ResumeIn
    /\ \A w \in Runners : run[w] = Idle \/ CycleOK(run[w])

(* A step that calls s. *)
Calls(s) == \E w \in Runners : run[w].at = None /\ run'[w].at = s

(* A source is not called again before its interval, and not while the       *)
(* cooldown of its last rate limit runs.  The governor counts both from the  *)
(* start of the cycle, so a cycle that is slow to reach the source shortens  *)
(* them by at most its own length.  An accident excuses one call: a cycle    *)
(* that died, was planned or saved beside another or could not read the      *)
(* governor may have lost the last call of the source (hist.loose), but the  *)
(* next call a cycle makes with no other beside it restores the pace.        *)
Paced ==
    [][\A s \in Sources :
          Calls(s) /\ ~hist.loose[s] =>
              /\ hist.age[s] + MaxLag >= MinInterval
              /\ hist.penalty[s] <= MaxLag]_vars

(* After Threshold failures in a row, every further transient failure keeps  *)
(* the source uncalled for the quarantine period, whatever other sources are *)
(* probed and whatever cycles die or run beside: health is written with      *)
(* every call, not at the end of the cycle.  Only the gate that cannot read  *)
(* the file lets a call pass, and only what an unreadable file, an unsaved   *)
(* one or a save over another cycle's has lost is not counted.               *)
QuarantineKept ==
    [][\A s \in Sources :
          Calls(s) /\ hist'.accidents = hist.accidents => hist.rest[s] = 0]_vars

(* With no cap on the sources of a cycle, a ready source that is not blocked *)
(* for good is called again and again.                                       *)
EverySourceServed ==
    \A s \in Ready :
        []<>((\E w \in Runners : run[w].at = s) \/ health[s].state = "BLOCKED_TERMINAL")

(* What production_scheduler.py says of every mode: a source whose saved     *)
(* state is in quarantine is left out of the plan.                           *)
QuarantineLeftOut ==
    [][\A w \in Runners, s \in Sources :
          ~Running(w) /\ run'[w].pc = "probe" /\ states[s].quar > 0 =>
              s \notin run'[w].due]_vars
=============================================================================
