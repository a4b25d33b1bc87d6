# A verification project for the event intelligence platform

TLA+ models of the way from a source to an event: when a source is called, how
it is crawled, what becomes of a collected record, the queue pipeline that makes
event cards of raw events, and the timeline of events with its semantic
adjudication. TLC checks all of them on small instances; TLAPS proves the safety
of the components, and of the pipeline they make up, for every size. Paths are relative to the repository (`src/`
of this tree).

1. [The system](#1-the-system)
2. [What is modelled, module by module](#2-what-is-modelled-module-by-module)
3. [The runs](#3-the-runs)
4. [Fairness](#4-fairness)
5. [What is proved](#5-what-is-proved)
6. [Where the code and its documents disagree](#6-where-the-code-and-its-documents-disagree)
7. [What is not modelled, and the plan](#7-what-is-not-modelled-and-the-plan)

## 1. The system

    sources <--HTTP-- production cycle (plan, probe) ----> crawling graph, strategy loop
                           |  governor, states, health: JSON files
                           |  dedup index -> event_queue.jsonl
                           |                      clusters -> events, links (Postgres)
                           |                                     ^  verdicts
                           |                       stage 3 ------+------ backfill scheduler
                           |  POST create
                           v
                      backend: raw_events (Postgres)
                           |  XADD
                           v
                   stream:raw_events --group:ingest--> worker-1
                           ^   ^                         |  XADD
         retry copies -----+   |                         v
         (worker, reapers)     |                  stream:to_agent
                               |                         | group:agent
    recovery-scheduler: reap --+                         v
      reconcile-stuck, requeue-failed-xadd --HTTP--> backend <--HTTP-- agent-worker-1
                                               (upsert card, PATCH status)

| component | code | state | operations |
|---|---|---|---|
| Source schedule | `ingestion/orchestration/` (`production_scheduler.py`, `rate_limit_governor.py`, `quarantine.py`, `production_state.py`), `ingestion/core/source_health.py`, `ingestion/tools/run_production_orchestration.py` | three JSON files: governor, production states, health; the same in memory during a cycle | derive, plan, probe with its gate, save |
| Delivery of a cycle | `run_production_orchestration.py`, `ingestion/pipeline/`, `ingestion/integration/` | dedup index, queue file, alerts; the batch in memory | deduplicate, append, post, report, save the index |
| Crawling graph | `ingestion/agents/graph.py` and what its nodes call | the state langgraph carries from node to node | one node after the other, retry decision |
| Strategy loop | `ingestion/fetch_strategies/strategy_runner.py`, `ingestion/core/retry_policy.py`, `rate_limit_policy.py` | the attempts of one call, the cooldown store | try a strategy, select the next |
| Event timeline and resolution | `backend/app/services/event_resolution_pipeline.py`, `event_resolver.py`, `event_timeline_service.py` | events, updates, links; maps of clusters, anchors and fingerprints | look up, route, create, append, hold, withhold |
| Semantic adjudication | `semantic_identity_adjudicator.py`, its backfill and scheduler | one verdict per link | list, count, judge, upsert |
| raw_events store | `backend/app/services/raw_event_service.py`, `reconciler_service.py`, `models/raw_event.py`, `api/admin.py` | one row per `content_hash`: status, reason, `enqueued_msg_id`, `event_card_id`, `requeue_count`, `updated_at` | create, requeue, status PATCH, reconcile-stuck, requeue-failed-xadd |
| Streams | `backend/app/db/redis.py`, `workers/queue/producer.py` | `stream:raw_events`, `stream:to_agent`, two consumer groups with their cursors and pending entries (PEL) | XADD, XREADGROUP `>`, XACK, XAUTOCLAIM |
| Ingest worker | `workers/queue/consumer.py`, `workers/pipelines/ingest_pipeline.py` | the batch in hand | read, process (forward), acknowledge, route a failure |
| Failure routing, reapers | `workers/queue/dlq.py`, `workers/tools/run_dlq_reaper.py` | the dead letter stream, `_retry_count` in the messages | republish as a copy or set aside, then acknowledge; claim idle entries |
| Recovery scheduler | `workers/tools/run_recovery_scheduler.py` | none | every minute: reconcile-stuck, requeue-failed-xadd, reap |
| Agent worker | `agents/agent_worker.py`, `workers/pipelines/publish_pipeline.py` | the batch in hand, the attempt of the PATCH | read, run the graph, post the card, PATCH the status, acknowledge |
| Card store | `backend/app/services/event_service.py` | `event_cards` | upsert |

What is hard here is what happens between two steps. Nothing is transactional
across Redis, Postgres and the JSON files; every process can die between two
calls; every call can time out after it was applied; a reaper takes messages of
a worker that is slow and not dead; requests of the backend interleave between
their `await`s; nothing keeps two cycles apart; and state one node, cycle or
transaction leaves behind is read by a later one that makes its own sense of it.
The correctness of each part, in a sentence:

* **Source schedule**: interval, cooldown and quarantine of a source are kept
  over cycles that last; what a cycle costs that dies, runs beside another or
  cannot read or save a file is known and bounded; no ready source is left
  uncalled.
* **Delivery**: a record is never barred as "seen" unless it was delivered or an
  alert says that it was not.
* **Crawling graph**: every attempt is recorded once, a wall ends the run, a run
  that passes has a text, and the recursion limit of langgraph takes no run its
  report.
* **Strategy loop**: a site that asks to stop is left alone.
* **Event timeline**: whatever creates race or fail, no event is orphaned, first
  owners stay, and readers see events that only grow.
* **Adjudication**: an ambiguous candidate is never called the same event, and
  every link gets a verdict in spite of deadlocks.
* **Ingest stage**: no message is dropped and none is retried for ever
  (`dlq.py`, docstring); it comes to rest.
* **Agent worker**: acknowledges everything it reads, so what it acknowledges
  must be accounted for elsewhere; what it had in hand when it died is lost to
  the stream, and only that.
* **raw_events store**: Postgres first, then Redis; the row tells the truth
  about its message; every row leaves `enqueued`.
* **Pipeline**: every published message is traceable to a recorded outcome, a
  dead letter or a failure; a row names a card made from that row.

The list of hazards, each at its line with the properties that watch it, is in
`PROJECT.json`.

## 2. What is modelled, module by module

    Streams <-- RawQueue <------+-- MCRawQueue, RawQueueProofs
       ^           |            |
       |           +-- INSTANCE Handoff
       +------- AgentStage <----+
       +------- RawEventStore <-+-- MCRawEventStore, RawEventStoreProofs
                                |
                                +-- IngestPipeline (EXTENDS all three)
                                       ^
              IngestPipelineProofs ----+ (and RawQueueProofs, RawEventStoreProofs)

    SourceSchedule <-+ MCSourceSchedule
                     + SourceScheduleProofs
    CycleDelivery  <-+ MCCycleDelivery
                     + CycleDeliveryProofs
    CrawlGraph     <-+ MCCrawlGraph
                     + CrawlGraphProofs
    StrategyLoop   <-- MCStrategyLoop
    RecordClusters <-- EventTimeline           EventTimeline -- INSTANCE PublicTimeline
    EventTimeline  <-+ MCEventTimeline
                     + EventTimelineProofs
    Adjudication   <-+ MCAdjudication
                     + AdjudicationProofs

The modules of the ingestion side meet the pipeline at one point, the POST that
creates a raw event: `CycleDelivery` sends it and may lose its answer,
`RawEventStore` serves it and may be sent it twice. `Adjudication` reads what
`EventTimeline` writes, the links and the evidence of events, and takes both as
actions of its own.

**`Streams`**: the two streams as append-only sequences; the id of an entry is
its position (the code neither trims nor deletes). A raw entry has its row and
its `_retry_count`, and three history fields the code does not have: `via` (who
wrote it), `of` (which entry it is a copy of) and `root` (the message it
descends from). `Fault` is the environment: the step it stands in is a failure
or a kill, and there are at most `FaultLimit` of them.

**`RawQueue`**: the ingest stage. Each consumer (the worker, the scheduler's
reaper, reapers started by hand) has a program counter and the rest of its
batch. For a message the worker goes `process`, `ack`; an exception in either
goes to `route` (publish the copy or the dead letter) and `routeAck`. A reaper
goes `route`, `routeAck` for every entry it claimed. The worker swallows an
exception of `route_failure` and goes on; a reaper's run ends with it
(`GiveUp`). `rawIdle` holds the pending entries idle for longer than
`min-idle-ms`; claiming resets it. A call that raises has been applied or not:
`...Fails` actions allow both. An entry of `Unreadable` rows does not parse: the
code acknowledges it and keeps nothing. A page of XAUTOCLAIM (100 entries, with
at most 1000 pages) is one `ReaperClaim` of everything idle; a run that ends
between two pages is a run that ends before the next claim.

**`Handoff`**: the abstract specification: accepted messages are open until they
are delivered or dead and are closed only then. They can be delivered twice or
reopened. `RawQueue!Promise` is the refinement mapping: a message is open while
an entry that descends from it is undelivered or pending.

**`AgentStage`**: the agent worker. `stop_after_attempt(3)` is `PatchAttempts`.
The graph of `agents/graphs` is a choice between a card and an exception. A
request the client gave up on may still be served: it is in `latePosts` or
`latePatches` until it lands. A message is run at most once, since pending
entries of `group:agent` are never read again, and each run makes a fresh card
id, so the id of the message stands for that of the card.

**`RawEventStore`**: the table and the requests that change it. A request is a
task that takes one step per statement that commits and per XADD. `older`
orders the rows by `updated_at`, which the recovery requests sort by; the
column has `onupdate=func.now()`, so that every UPDATE touches it. (A requeue
writes the time it read the row at; the model writes the time of the UPDATE,
which is the same as far as lists go: a requeued row is young and enqueued.)
`aged` says that a row is past `before_seconds`. After an UPDATE or a commit
that raised nobody rolls the session back, so the except branch of a create and
the rest of the list of a requeue raise in turn: these actions end the task. An
XADD that raises leaves the session usable. A request that writes nothing (a
duplicate create, a refused requeue, a dry run, the GET routes) is no step.
`BackendCrashes` is a crash with the restart that follows it.

**`IngestPipeline`**: the three together. They share the streams and the faults;
the status PATCH is a joint step of agent and store (`AgentReports`,
`LateReport`). Collectors are the create requests, operators the requeues by
hand.

**`SourceSchedule`**: when a source may be called. Four things put it off, each
with a clock and a store of its own: the governor (file at the end of a cycle),
the production state (file at the end, derived afresh at the start), the health
file (written with every call) and the resume deadline of the strategy memory.
Time is relative: ages count up to the interval that matters, deadlines count
down, `Tick` moves them all, so that the model is finite without a bound on time.
`Derived` is the reason for a finding: a cycle takes over four fields of the
saved states, and the quarantine is none of them. A plan is the set of due
sources with fewer than `MaxSources` due ones before them; the profiles are the
keys of a YAML mapping, so that none is there twice, and the cycle takes the
planned ones in their order (`NextDue`). `run[w]` is what the cycle of runner `w`
holds in memory and a `Crash` forgets.

A call is up to four steps, since other cycles run between them: the gate reads the
health file and the call is made (`Call`; or `ProbeSkipped`), the source raises
(`Raised`, which only the production states hear of) or answers and
`_update_health` gets its entry and judges (`Answered`), `set` loads the file again
(`LoadHealth`) and writes the whole of it (`SaveHealth`, `HealthUnsaved`). The sets
of failures that count as transient for health and for the plan
(`HealthTransient`, `PlanRetryable`) overlap and differ, as they do in the code.

Nothing keeps two cycles apart, each file is written whole, and what cannot be read
counts as empty. A cycle started beside another (`Beside`), a file that cannot be
read (`Read`: the governor and the states at the start, health at the gate, at the
judgement and at the save), a failed save of health and a `Crash` are accidents,
which `hist.accidents` counts. A governor or state file whose save raises ends the
cycle, as a crash does. `hist` is otherwise what really happened to a source,
whatever the files make of it: the time since the last call, the cooldown of the
last rate limit, the failures in a row, the quarantine they mean. Calls and rate
limits are never dropped from it: an accident marks the sources whose last call a
later plan need not know of (`loose`), and their next call is excused. The failures
of a source and its quarantine are dropped where health has lost them, by a save
that fails or one over what the file has become (`SaveHealth`, `HealthUnsaved`), and
nowhere else.

**`CycleDelivery`**: one runner's cycle in the order of the code: load the index
and drop what it has seen (`Collect`), append to the queue file, post record by
record, write the report with its alerts, save the index. Two runners share the
files, for nothing excludes that. An index that cannot be read is an empty one
(`Loaded`, `blind`), which `SaveIndex` writes over the file like any other. A record has a dedup key or none, and a content
hash or none, which differ: signals of one url at two times have two keys and one
hash. A POST that fails may have been applied.

**`CrawlGraph`**: `build_graph` with one action per node, over the part of
the state that its edges and its report depend on. What a page, a hook or an
extractor gives is free: no page, a blank one, a wall, or one that can be read.
A node that raises ends the run (`Raises`). The nodes whose code catches
everything it calls cannot. langgraph is modelled by what its loop does (version
0.2.76, `requirements/ai.txt`): `__start__` is a step of its own, and before each step
the limit is tested (`InLimit`), even when no node is left to run, so that a run
of 24 nodes returns under the default limit of 25 and one of 25 nodes raises
(`OutOfSteps`).

**`StrategyLoop`**: one call of `run_fetch_strategy_loop` with
`select_next_strategy`. `_fetch_with_strategy` is modelled by what it returns for
each kind of answer, which is what a finding turns on.

**`EventTimeline`**: a worker takes a cluster of records through four lookups,
each a statement of its own, decides, and applies the decision in one
transaction. A transaction is READ COMMITTED: its writes are in `run[w].tx`
until `Commit`; `RowFree`, `ClusterFree`, `AnchorFree` and `PrintFree` say that no
other open transaction holds what the statement waits for; a cycle of waits makes
one of its members the victim (`DeadlockAbort`). The remapping of a promoted
cluster and the semantic link come in a second transaction (`remap`, `link`), and
a failure can fall between. Clusters are a constant: any that name keys of their
own for the proofs, those of `RecordClusters` for the run. A held member is an
event of its own with a link to the one it is held for.

**`RecordClusters`**: pure operators over a batch of records. `KeyOf` is
`compute_record_key`, `Groups` and `Core` are `cluster_records` with its
union-find as the least sets no pair leads out of (`Components`), `Candidate` is
`candidate_from_cluster` without texts and evidence. Titles are atoms, with their likeness a relation
(`Alike`) that need not be transitive; the order of keys, which is that of hashes,
is a constant (`KeyOrder`). `MCEventTimeline` builds the clusters of the run from
batches, and has TLC evaluate two assumptions about them: for every order of the
records of each of seven batches the clusters, cores, faces and claims are the
same (`OrderDoesNotMatter`), and for an eighth they are not
(`OrderMattersForTies`, section 6). The first is false if the core is the
component of the first record, as it once was, or if two components of one size
are taken in the order of the batch.

**`PublicTimeline`**: the abstract specification: what a reader of the timeline
sees of clusters and updates. `Told` and `PT` in `EventTimeline` are the
refinement mapping; held members and what is uncommitted are invisible.

**`Adjudication`**: links between events appear and their evidence grows while
judges (stage 3, the backfill scheduler) list the links without a verdict, count
the targets of each candidate, load the two views of each link, and upsert the
verdicts in one transaction. Stage 3 lists by id and without a limit, the
scheduler by age and with one. A page is a set, and `Foremost` is what the order
picks next; `views` is the cache of a run. `Classified` is
`classify_identity_candidate` over the features that decide. Its assumption,
that adjudication is on, is the setting
`EVENT_SEMANTIC_ADJUDICATION_ENABLED`; it is off
by default.

The `MC` modules give constants a cfg cannot write (sequences, records,
functions), and the bounds of the liveness of `Handoff`. The `...Proofs` modules
are section 5.

Definitions that begin with the comment `Mutant:` are seeded bugs. No
specification uses them: they show that a property can fail, as recorded in
`PROJECT.json`.

## 3. The runs

Passing runs and what they show:

| run | states | properties |
|---|---|---|
| `SourceSchedule` | 0.99 M | type; `Paced`: interval and cooldown are kept, to within the length of a cycle, but for one call of each source an accident may have lost from the governor; `QuarantineKept`: the quarantine holds whatever the state file forgets, as health is written with every call, unless health itself was lost; `EverySourceServed`: a ready source is called again and again |
| `CycleDelivery` | 10.7 M | type; `NoSilentLoss`: a key in the index is delivered or alerted; `RepeatsAreExplained`: a record is queued once more only for a crash, an overlap or an index that could not be read; `IndexGrows`: nothing but the last two takes a key from the saved index |
| `CrawlGraph` | 2.4 k | `LimitSparesReports`: only the longest run meets the limit of langgraph, and its report is written; `AttemptsAreRecorded`, `PassedHasText`, `OneRungAnAttempt`, `WallEndsTheRun`, `EveryRunReports` |
| `EventTimeline` | 49 k | type; `NoOrphan`; `SplitNeedsOverlap`: clusters that share an anchor part only when resolved at once; `FirstOwnerStays`; `ImplementsTimeline`; `EveryClusterEnds`: no worker waits for ever |
| `Adjudication` | 0.19 M | type; `SameIsEarned`: no event is likely the same as two others, nor without publishable evidence; `EveryLinkJudged` |
| `RawQueue` | 0.70 M | type; `NoSilentDrop`: an entry leaves the PEL only forwarded, copied or set aside, or because it does not parse; `RetryLedger`: a copy counts one more than its original, no more than `MaxRetries`, and only spent messages are set aside; `ImplementsHandoff`; `EventuallyHandedOff`, the liveness of `Handoff` |
| `AgentStage` | 88 k | `AckedIsReported`: acknowledged means reported, unless all attempts failed; `StrandedIsOneBatchPerFault`: a death costs at most a batch; `EventuallyRead` |
| `RawEventStore` | 0.24 M | `RowsAndStreamAgree`; `RequeueLedger`; `CollectedIsUnderWay`; `EnqueuedResolves`; `XaddFailedIsRecovered`, while no more rows have failed than the list holds |
| `IngestPipeline` | 0.21 M | type; `Lineage`: rows, messages, cards belong together; `EndToEnd`: no published message that parses is unaccounted for; `RowsTerminate`: rows come to rest processed or failed, except those a failure left collected |

Bounds, and why they are enough for the questions asked:

* `SourceSchedule`: two runners; two sources, one ready, one with a resume deadline,
  so that every gate of the plan closes and opens. The one is rate-limited, the
  other fails in a row, with exceptions in between that health is not told of. The
  interval and the quarantine are 2 ticks, the cooldown 3, a cycle lasts up to 1:
  enough for a deadline to fall before, within and after a cycle, and for a
  cooldown to outlast what an interval and a cycle leave of it, so that the
  governor's entry and not the interval is what keeps a rate-limited source
  uncalled. `Threshold` 2: below, at and after it. One accident, of any kind and
  anywhere: a crash, an overlap of two cycles at any two points, a file that cannot
  be read, a save that fails. Two of them at once are left to the theorems. The cap
  of a cycle is the number
  of sources; with a smaller one the last source of the list can starve, which
  `EverySourceServed` does not claim.
* `CycleDelivery`: two runners, up to three cycles that overlap or follow each
  other, one crash, one index that cannot be read. Two keys over one hash, and a record with neither: the cases
  in which the three notions of "the same" part. Runners are symmetric; no
  liveness is asked.
* `CrawlGraph`: the ten strategies and three attempts as shipped. The state space
  is the whole graph.
* `EventTimeline`: four batches make a cluster each, of six records, so that two
  share an anchor, two claim the same fingerprints in opposite orders, one is promoted by
  a held member, and one has no publishable source. Two workers, three clusters
  taken up: two at once and one that finds what they left. One failure anywhere.
  Six ids suffice for every event three rounds can create.
* `Adjudication`: one candidate with two targets, which is what makes it
  ambiguous; three events of two source types and two days, so that every verdict
  is reached; a limit of two links, one update at any time, one failure. The third
  event is an article throughout: the links are alike.
* `FaultLimit` 2 for the ingest stage: a second failure while the first is being
  repaired (a kill before the ack, then a kill of the reaper). 3 for the agent,
  as many as the PATCH has attempts, which makes the exhausted PATCH of
  `AckedIsReported` reachable. 3 for the store: two rows whose XADD failed
  and a third failure in the middle of the list that requeues them. 1 for the
  pipeline, where it is a kill anywhere or a single timed-out call: `EndToEnd`
  does not exercise the exhausted PATCH there (`PatchAttempts` is 2), the agent's
  own run does.
* `MaxRetries` 1 rather than 3: an entry, its copy and the dead letter are the
  three cases; larger values lengthen chains and add no case. The theorems of
  section 5 hold for any value.
* `BatchSize` 2 where batches matter (a failure inside a batch, a partly read
  stream), 1 in the pipeline.
* `Rows`: two in the ingest stage, one of which does not parse. In the store
  `MCRawEventStore` lets two requests interleave on one row, or one at a time
  work on two: every overlap on a row, and every list of two with a failure in
  its middle. One in the pipeline, where a second would only interleave.
* `Operators` is empty: the reaper of the scheduler already claims what the worker
  has in hand. The theorems hold for any set of reapers.
* `PublishLimit`, `ForwardLimit`, `RequeueLimit` bound what comes from outside.

Three runs expect a violation; section 6.

Deadlock is checked in `SourceSchedule`, whose cycles never end. Everywhere else it
is not: with inputs and faults bounded, a system that has done its work stops.

## 4. Fairness

Only steps the deployment promises are fair. Faults, publishes, operators, late
requests, and what a site, an extractor or a graph run returns never are.

* The workers and the recovery scheduler have `restart: on-failure` in
  `docker-compose.dev.yml` and loop for ever (`while True`), and their client
  calls have timeouts: `WorkerWorks`, `AgentLocal`, `AgentReports` and
  `ReaperWorks(Scheduler)` are weakly fair.
* The scheduler sends its requests every minute and survives their failure
  (`run_recovery_cycle`): `AutoRequeue`, `ListStuck` are weakly fair.
* A request the backend has begun goes on: `TaskWorks`. The compose file gives
  the backend no restart policy. Liveness of the store and the pipeline assumes
  that somebody starts it again.
* The clock runs: `GrowIdle`, `Age`, and `Tick` of the source schedule.
* A production cycle is started again and again by each runner, and goes on:
  `Cycle(w)`. The
  repository leaves that to an operator or a timer; without it nothing is called
  at all.
* `Graph` of `CrawlGraph`: a run is one call, whose fetches have timeouts.
* `Step(w)` of `EventTimeline`: a worker with a cluster in hand goes on as soon as
  it can. Waiting for a lock is a disabled step, the deadlock detector of
  PostgreSQL a step of the victim.
* `Adjudication`: `Step(j)` likewise, for stage 3 runs with every cycle and the
  backfill scheduler ticks for ever. `Upsert(j, l)` is strongly fair: PostgreSQL
  queues those who wait for a row, so that one whose wait ends time and again
  gets it. With weak fairness alone two runs can deadlock and be aborted in turn
  for ever, each time before either has committed.

A reaper an operator starts by hand has no fairness: it may race with the
scheduler's, stop half-way or never run.

## 5. What is proved

For every value of the constants that the assumptions admit: any number of
rows, messages, reapers, retries and batch sizes; of requests at once, lists and
requeues; of sources, intervals and cooldowns; of records, keys, cycles at
once and accidents; of workers, clusters and events; of strategies and attempts; of links,
judges and updates; of failures.

| theorem | module | says |
|---|---|---|
| `TypeCorrect`, `RetriesAreLedgered`, `NothingIsDropped` | `RawQueueProofs` | `RawQueueTypeOK`, `RetryLedger`, `NoSilentDrop` |
| `StageImplementsHandoff` | `RawQueueProofs` | `RawQueueSpec => ImplementsHandoff` |
| `NoMessageIsLost` | `RawQueueProofs` | every published message that parses is always open, delivered or dead |
| `StoreTypeCorrect`, `RowsAgreeWithStream`, `RequeuesAreLedgered`, `CollectedIsAlwaysUnderWay` | `RawEventStoreProofs` | `StoreTypeOK`, `RowsAndStreamAgree`, `RequeueLedger`, `CollectedIsUnderWay` |
| `AckedIsAlwaysReported`, `StrandedIsBounded` | `IngestPipelineProofs` | of the agent stage: `AckedIsReported`, `StrandedIsOneBatchPerFault` |
| `PipelineTypeCorrect`, `LineageHolds`, `NothingIsLostEndToEnd` | `IngestPipelineProofs` | of the pipeline: `TypeOK`, `Lineage`, `EndToEnd` |
| `ComponentsHold` | `IngestPipelineProofs` | in the pipeline, every safety invariant of queue, store and agent stage |
| `PipelineImplementsHandoff` | `IngestPipelineProofs` | `Spec => ImplementsHandoff`, for the pipeline |
| `ScheduleTypeCorrect`, `SourcesArePaced`, `QuarantineHolds` | `SourceScheduleProofs` | `TypeOK` with the cap on a plan, `Paced`, `QuarantineKept`, for cycles at once and accidents of every kind |
| `DeliveryTypes`, `NothingIsLostSilently`, `IndexOnlyGrows`, `RepeatsExplained` | `CycleDeliveryProofs` | `TypeOK`, `NoSilentLoss`, `IndexGrows`, `RepeatsAreExplained` |
| `TimelineTypes`, `NothingIsOrphaned`, `FirstOwnersStay`, `SplitsNeedOverlap` | `EventTimelineProofs` | `TypeOK`, `NoOrphan`, `FirstOwnerStays`, `SplitNeedsOverlap` |
| `TimelineImplemented` | `EventTimelineProofs` | `Spec => ImplementsTimeline` |
| `ClustersPartitionTheBatch`, `ClustersIgnoreOrder`, `CandidatesIgnoreOrder` | `EventTimelineProofs` | of `RecordClusters`, for every batch: what is alike is together, in one cluster that does not fall apart; the order of the batch changes no cluster and, where keys differ, nothing the timeline is told |
| `CrawlTypes`, `LimitComesAfterReport`, `EveryAttemptIsRecorded`, `PassedRunHasText`, `LadderIsClimbed`, `WallsAreRespected` | `CrawlGraphProofs` | `TypeOK`, `LimitSparesReports`, `AttemptsAreRecorded`, `PassedHasText`, `OneRungAnAttempt`, `WallEndsTheRun` |
| `AdjudicationTypes`, `SameOnlyOnce` | `AdjudicationProofs` | `TypeOK`, `SameIsEarned` |

Assumptions, all evaluated by TLC in the runs: `StreamsAssumption`,
`RawQueueAssumption` (batches are not empty, limits are naturals, the worker is
not a reaper, `Unreadable` are rows), `StoreAssumption` (limits are naturals, the
kinds of requeue), `AgentAssumption` (the PATCH is attempted at least once),
`ScheduleAssumption` (no source has two profiles, what is rate-limited is not
ready, numbers are naturals), `DeliveryAssumption` (a missing key or url
is neither a key nor a hash, the sources offer finitely many records), `TimelineAssumption` (clusters name keys of their
own), `KeyOrderAssumption` (no key has two places), `CrawlAssumption` (the ladder has no strategy twice, and the recursion
limit is at least four steps an attempt and thirteen more, one too few for the longest
run; 25 is, for three attempts),
`AdjudicationAssumption` (links and events are finitely many, ids of links
differ, what is publishable is known).

### The ingest stage

The refinement mapping is over the messages that parse: one that does not is
acknowledged with nothing kept, which is exactly a step `Handoff` forbids. The
inductive invariant is `QueueInv` of `RawQueueProofs`:

* `Shape`: types, pending entries and batches lie at or below the cursor, the
  cursor at or below the end of the stream, and a busy consumer has a batch.
  Without it `Current` may pick nothing and an ack may name an entry unread.
* `RetryLedger`: copies descend from older entries. It makes chains finite.
* `AckIsEarned`: whoever is at an `ack` or `routeAck` has handed its entry on.
  `NoSilentDrop` is not inductive without it: the property speaks of
  acknowledged entries, and the step that acknowledges must know what the steps
  before it did, possibly those of another consumer in between.
* `NoSilentDrop`, and `ForwardsKnown`: agent messages refer to raw entries.

Streams only grow and the dead letter stream keeps what it has (`Grows`), so
that what was once accounted for stays so (`AccountedStays`); this is what makes
consumers that race for one entry harmless. `KindOfStep` sorts all steps by what
they do to the streams and to the settled entries, and each invariant is then
proved by kind.

The refinement rests on a chain argument. When an acknowledgement leaves a
message without a live entry, all its entries are settled, hence forwarded,
copied or dead (they all parse, as copies have the row of their original). The
youngest has no copy, since a copy is younger and descends
from the same root; so it was forwarded or is dead (`AccountedMessage`). The
existence of least and greatest entries comes from the well-foundedness of `<`.

### The raw_events store

A request writes what it has read some steps ago, and others write in between.
None of the three properties is inductive without what a request holds
(`TaskSound`): its row exists; the message id it is about to write is one of an
original message of that row; the `requeue_count` it is about to write back was
published before, though not by itself alone. Of these all but the last are kept
by anybody's steps because the stream and the table only grow (`StoreGrows`), and
the last because the number of requeues in the stream does. `StoreStep` is a step
of the store, a status PATCH from outside, or a step that leaves the table alone
and at most appends copies: the invariant survives each, which is what the
pipeline needs of it. `CollectedIsUnderWay` is proved on top: a request
leaves a row it holds only by writing it or by a failure (`Covers`).

### The agent stage

`AgentShape` says where ids lie: what is pending lies at or below the cursor, the
batch in hand is pending, what is reported has been read. `AgentCounts` counts
failures: the attempt at the PATCH is at most one more than there were failures
(so that giving up means as many failures as attempts), and an end of the worker
strands at most the batch it has in hand, which is never longer than `BatchSize`.

### The pipeline

Each step of the composition is a `QueueStep`, a `StoreStep` and an `AgentStep`
at once (`StepParts`): its own component's step, and for the two others one of the
ways their surroundings may move that their invariants were shown to survive.
`PipelineInv` is then the three invariants and two that no component can state,
because they relate its own state to another's: an agent message is of the row
of the entry it was forwarded for (`LinkedForwards`), and a card that a row names
is of a reported message of that row (`CardsKnown`). The latter is the reason for
the joint steps: PATCH and report happen at once or the PATCH comes late, and a
late one is of a message that was read. `EndToEnd` follows from the accounting of
the ingest stage, whose `Delivered` says that an agent message exists, and
`AckedIsReported`, which says what becomes of it.

### The source schedule

`ScheduleInv` is, next to the types, two statements about each source. `Governed`:
unless the source is loose, every governor in memory, and the file too, is ahead of
the truth by at most the length of a cycle (`Ahead`); the file need not be for a
source that the only cycle in progress has called, for that cycle will save its own.
A planned source was allowed at the start, when the file it was read from and the
truth were within that bound, and stays callable while time passes. A probe that the
gate answers counts as a call for the governor and not in truth; this puts the
governor behind and never ahead, because the source was callable. A source becomes
loose when a cycle that has called it dies, when one is planned beside such a cycle
or from a file it cannot read, and when it is called with another cycle at work; it
ceases to be with a call of a cycle that is alone. Overlapping cycles write old
governors over new ones, but for a source that is not loose they all agree with the
truth. Most steps touch one source of one cycle (`Quiet`), which `GovernedQuiet`
settles for all the others.

`Resting` is the quarantine: the health file counts at least the failures in a row
that no accident has lost, and its deadline does not end before the quarantine
does. `SaveHealth` is where it could break, since the entry was judged, and the copy of
the file loaded, some steps ago: what differs from the file by then is lost, and
`Resting` says nothing of it; what does not differ is as fresh as the file.

That no plan is longer than the cap is a fact about orders: of the planned
sources the last comes after all the others, and has fewer than `MaxSources` due
ones before it.

### The delivery of a cycle

`NoSilentLoss` speaks of the saved index only. `DeliveryInv` adds what each cycle
in progress knows: every key it will save is settled or stands for one of its
records (`KeyOwned`), the queue has its lines or an alert will tell
(`AppendKnown`), `raw_events` has what the bridge is done with (`BridgeKnown`,
`WriterKnown`), and once the report is written all of it is settled
(`AllSettled`). Queue, rows and alerts only grow, so that no other cycle disturbs
this. `IndexOnlyGrows` needs that a cycle without an overlap is alone (`Alone`), and
that one which could read the index has all of it in memory.

`RepeatsAreExplained` counts lines against crashes, overlaps and unreadable indexes, and says nothing
of when there may be one more. `RepeatInv` does: a cycle that is about to append
a record counts as its line already (`Carried`), and once a key has the one line
more than these account for, it is `Barred`: every cycle under way
has it in memory, and the saved index has it when none is. The next line then
needs a cycle that is started beside another, one that cannot read the index, or one
that dies; whoever saves,
saves the key. The lines of a key are a fold over a set, a recursive function
whose existence and growth (`SumExists`, `SumGrowsBy`) are shown by well-founded
induction on numbers and finite subsets, over sets of counterexamples
(`NatSetInduction`, `SmallestSubset`), as the theorems of the library that take
an operator cannot be used.

### The event timeline

`TInv`: besides types and `NoOrphan`, each worker aims at an event that is shown
or at one of its own that its commit will show (`Aims`); what an open
transaction has written nobody else has committed (`Unseen`) or written
(`Apart`), which is what the locks are for. Every step but a commit, the
remapping and the semantic link writes no table (`Quiet`), and the three that
write are proved one by one; they are also the only ones that the public timeline
can see.

`SplitNeedsOverlap` has an argument of its own: a worker that may still create an
event (`MayCreate`) has found that nobody alone owns the anchors of its cluster
(`Unowned`), and as long as it is alone nothing but its own commit changes that
(`SplitInv`). `Course` says that no step but the lookup of the anchors
makes a worker one that may create.

The theorems on `RecordClusters` are about operators, for batches of any length
and any likeness of titles. A reordering is a permutation with its inverse
(`Reordered`); what is moved by it stays closed, hence a component
(`ComponentMoves`). For the core it takes more: that there is one best component
(`ABestPart`, by the size, then the kind, then the least key) and only one
(`OneBestPart`), which needs records whose keys differ. `CandidatesIgnoreOrder`
therefore assumes `OneRecordPerKey` of the clusters, which is what the
deduplication of a cycle leaves (`run_production_orchestration.py:353`); batches
with twins of one key, for which it holds as well or does not, are in
`OrderDoesNotMatter` and `OrderMattersForTies`.

### The crawling graph

`CInv` says, node by node, what the nodes before have left in the state: the
number of steps run as a function of the attempt (`Bounded`), whether the error of
the attempt is already in its list (`Recorded`), what a wall has set (`Walled`),
which strategy the text comes from (`Texted`), and how far the ladder is climbed
(`Rungs`).

### Adjudication

A run counts the targets of a candidate after it has listed the candidate's
link, so that it has seen every link that is older than the one it judges. Hence
of two links to different events the younger is never called likely the same
(`AloneSoFar`), whichever run judges it and whatever is added meanwhile. `AInv`
carries this from the count (`Counted`) through the open transaction (`Written`)
to the table (`Kept`); `Aged` orders the links, and `Seen` says that a view that
was loaded early has only fewer source types than the event has now.

### Model-checked only

Everything under fairness, which is out of this prover's reach, as is `ENABLED`:
`EventuallyHandedOff`, `EventuallyRead`, `EnqueuedResolves`,
`XaddFailedIsRecovered`, `RowsTerminate`, `EverySourceServed`, `EveryClusterEnds`,
`EveryRunReports`, `EveryLinkJudged`. Every safety property that a passing run
checks is proved. That the order of a batch does not matter is checked, not proved,
for batches with records that share a key.

## 6. Where the code and its documents disagree

Each has a run that finds the behaviour; the quotes are in `PROJECT.json`.

| run | what happens |
|---|---|
| `Lifecycle` | create marks its row `enqueued` after the XADD without looking: an outcome the pipeline reported in between is overwritten, and the row waits for a message long gone |
| `QuarantinePlan` | a cycle saves the quarantine of a source, and the next derives its states without it: the plan has the source again, and only the health gate of the probe keeps it uncalled |
| `TooManyRequests` | the strategy loop waits for an exception where the fetch tools return a status: a 429 leaves no cooldown behind, and the next strategies ask the site again |

The models show more that a reader should know of, some of it against the
letter of a document.

*The queue pipeline.*
A message that does not parse leaves the stage without a dead letter
(`ingest_pipeline.py:24-26`). Nobody reaps `group:agent`, so that a killed agent
worker leaves its batch to the reconciler, which fails the rows. An XADD that
timed out may have been applied, so that a row failed as `xadd_failed` can have a
message in the stream and gets a second one. When the backend dies before it has
marked a row, or the UPDATE that should record the failed XADD fails too, the
row stays `collected`: a repeated create is a duplicate, and neither recovery
request lists collected rows. reconcile-stuck lists, then fails by id, and
requeue tests the status, publishes, then updates by id: a row processed in
between is failed as stuck, or requeued without `force`. `publish_card` swallows
its failure, so that a processed row can name a card that was never stored. The
automatic requeue filters after the LIMIT (`reconciler_service.py:60-62`): older
failed rows that nothing touches again can starve the ones it is for.

*The source schedule.* A cycle takes its time once, at its start: a slow one
records calls as older than they were. A cooldown that has passed is never
cleared but compared. A cycle that dies forgets what its governor knew; health is
on disk by then. Governor, states and health all take a file that cannot be read for
an empty one and later write over it, and two cycles at a time write over each other:
a call, a cooldown or a quarantine is forgotten. An exception of a probe counts as a
failure for the production state and not for health, and neither takes all that is
transient for the other to be so.

*Delivery.* A record is in the dedup index whether or not its delivery
succeeded: only the alert tells of a failure. A record the index drops is also
missing from the clusters. Two cycles at a time lose each other's keys, and a cycle
that cannot read the index starts from an empty one and saves it over the file
(`eventqueue_dedup.py:137-138`): either way records are queued again.

*Crawling.* `max_attempts` 3 allows four attempts, and the longest run is 25
nodes, one more than langgraph's default of 25 leaves beside its own start: a fourth
attempt that passes writes its report, and then `invoke` raises a
`GraphRecursionError`, which `run_phase.py:24-28` prints as an error of the source,
whose result it drops. With so few attempts the strategies that drive
a browser are out of reach. A page that is fetched again never returns to the
state (`graph.py:346-350`): extraction sees the new one, the quality test the
old. The extract hook of a source runs before the test for walls. After a failed
fetch of the entry page the retry extracts from what there is, and errors marked
as not retryable are retried while the status is FAILED. In the strategy loop the
next strategy after `selenium_rendered_dom`, which the ladder does not have, is
the first of the ladder; and whatever page a browser has come to counts as a
success.

*The timeline.* A CREATE that turns out to be an append still writes the semantic
link it has looked up (`event_timeline_service.py:610`, against the comment in
`event_resolution_pipeline.py:127`): that is where candidates with two targets
come from. Two clusters of one event that are resolved at the same time can both
create. The core of a cluster is said to be independent of the order of the batch
(`cross_source_dedup.py:236`); it is not when two components of one size and
kind have the same least key, as structured signals of one source and time with
different labels have: the component of the earlier record is the core, its key
is also among those held back, and `candidate_from_cluster` drops it from the
core it has just been given.

*Adjudication.* The backfill orders by id so that two runs cannot deadlock, as its
docstring says, but the scheduler orders by age by default: they can, one is
aborted and its links are judged by a later run. A later commit overwrites an
earlier verdict even if it rests on older evidence, and no verdict is revised
when more evidence comes.

## 7. What is not modelled, and the plan

Most of the repository's lines are operator tools, report builders, audits,
per-site modules and readiness checks. They read files and fixtures or one
external site and write a report: they have no state that another part uses
later and no second actor. There is nothing in them for a state machine to say,
and they are listed in `PROJECT.json` as not modelled:

* the nodes of the agent graph and their prompts (no state between messages;
  `AgentStage` takes a card or an exception);
* the modules of single sites, probes, audits and runners, beyond the control of
  a crawl and of a call;
* vector and search indexing (best effort, never read back by the pipeline);
* the operator and reviewer tools, the frontend, scripts.

Left out of the modelled parts:

* the host gate (`host_rate_gate.py`): two processes can both be allowed within
  an interval, as its file says; nothing but the time of a call depends on it;
* the dequeue of the local queue file, which audits and smoke tools alone use,
  and the mirror file that stands in for the backend;
* of clustering, the text of titles with its tokens and the continuous strength
  of a weak link, which nothing reads, evidence and summaries for readers;
* `set_snapshot`, which only tests call; `--force`, with which an operator passes the
  health gate, dry runs, the once modes;
* of a source schedule, time between the judgement of a probe and the save of its
  health (`Tick` waits for the few file operations), and the deferral to the special round,
  which the gate treats as a terminal block;
* single entries of a JSON file that are malformed: a file is read or it is not;
* deleting an event by hand, and the text of titles, reasons and verdicts;
* logging, heartbeats, tokens; a raw event id is always present, as the only
  publishers are create and requeue; and the unique index over `(source_type,
  external_id)`, which `ON CONFLICT (content_hash)` does not cover, so that such
  an INSERT ends in a 500 that changes nothing.

Not bounded away but worth a word: `EverySourceServed` is asked with a cap that
takes every source, and `XaddFailedIsRecovered` with a list that holds every
failed row. With smaller ones both fail by design of the code (section 6).

What comes next:

* the order of batches with twins: `CandidatesIgnoreOrder` where records of one key
  are joined by a strong key and differ in nothing but their source;
* `StrategyLoop`, whose runs show a disagreement only: that a call ends within its
  attempts, and what it may leave behind in the governor, as theorems;
* the host gate with two processes, as a module of its own beside `SourceSchedule`.
