# RouteBalance: TLA+ specifications, model checking and proofs

RouteBalance is a scheduler for a fleet of LLM engines: it takes completion requests over HTTP, chooses an instance
for each (in rounds scored jointly, or by a router and a dispatcher), streams the engine's reply and writes one
decision line per request. Around it live a load generator, a driver that runs experiment cells, gates that admit or
refuse a cell, and the analysis of the results. This directory holds TLA+ modules of the parts where concurrency,
failure and ordering decide whether the system is right, TLC configurations that check them, and TLAPS proofs.
`PROJECT.json` lists the runs with their properties, the source lines behind every definition, the hazards of the code
with the properties that cover them, and the proved theorems.

## 1. The system

| component | source | state it keeps | operations |
|---|---|---|---|
| telemetry view | `routebalance/telemetry.py` | per instance: newest accepted scrape outcome, last snapshot, its error, open dispatch tokens | `_poll_one`, `fetch`, `start`, `stop`, `loads`, `record_dispatch`, `record_progress`, `record_completion`/`record_failure` |
| decision log | `routebalance/decision_log.py` | lines in memory, lines in a worker's hands, the file | `write`, `flush`, `run` |
| round collector | `routebalance/schedule/rounds.py` | queue, carried requests, size and time limits | `submit`, `next_round`, `drain`, `adapt` |
| round scheduling | `routebalance/schedule/{assign,score,budget}.py` | within a round: states with the picks counted, last assignment of each instance | `schedule_round`, `score`, `pick`, `clamp` |
| scheduler service | `routebalance/server.py` | requests in service, live configuration, round loop, scoring thread's callbacks | `complete`, `RouteBalance.run`, `_dispatch`, `fail_pending`, `apply`, `stop`, `manifest` |
| pipeline | `routebalance/baselines/{pipeline,dispatch}.py` | each dispatcher's rotations, last assignments or samples | `select_instance`, `choose`, `choose_probed`, `observe_*` |
| routers | `routebalance/baselines/routers.py` | trained models, an executor lane | `build_router`, `choose_model` |
| engine client | `routebalance/backend.py` | one stream: parser buffer, tokens so far | `generate` |
| estimators, latency model | `routebalance/estimate/*` | an index, trained models, tables | `estimate_batch`, `latencies` |
| configuration | `routebalance/{config,types,hw}.py` | none | parsing and validation of documents and fleets |
| load generator | `bench/*` | arrivals in flight, records | `run`, `send` |
| cell run | `scripts/run_cell.sh`, `tools/{cell_driver,direct,engines}.py` | the attempt directory | drain, warm up, read engines, cut the log window, run, judge |
| cell store and scope | `tools/cell_driver.py`, `scripts/{run_scope,mirror}.sh` | cell directories, their copies, parity records | prepare, publish, retire, mirror, parity, status |
| campaign rendering | `tools/campaign.py`, `bench/scope.py` | the rendered stage on disk | render, check against the previous stage |
| gates | `gates/*` | none | verdicts over recorded files |
| analysis | `analysis/*` | none | completeness of a cells root, the report, frontiers, readings at equal quality |
| offline tools | `tools/*` | none | calibration, training, judging |

How they interact. Everything of the scheduler but the models shares one asyncio event loop; the models and
`schedule_round` run on a thread pool and reach the loop through `call_soon_threadsafe`. A request is a coroutine
(`Service.complete`): it joins the round collector and awaits a future, or awaits the pipeline's choice; then it owns
a dispatch token of the live telemetry view and streams the engine's reply. The round loop takes rounds from the
collector, awaits estimates and loads, hands the round to the pool and gets a callback per decision. `apply()`
replaces view, models and round loop between requests. The decision log's lines go to a worker thread. The cell driver
reads the log's counters over HTTP and cuts a cell's window out of the file. The campaign renders the cells of a lease
in stages; the driver runs what is rendered and compares the groups that are ready; the report reads the same
directories with programs of its own.

What is hard, and where it bites, is listed line by line in `PROJECT.json` under `hazards`: scrapes of one engine that
report out of order; fetches that share entries; `stop()` inside `start()` or inside an append; requests that land in
the tick of a cancellation; clients that leave before, in or after the tick of their dispatch; a round or a dispatch
that fails half-way; an old scoring thread that outlives its configuration; `apply()` against requests; selections
that await a router and a probe and then read loads that others changed; streams that end, break or time out in the
tick of their last event; rounds scored from one reading of the loads; rounding at the edges of a budget; a gate that
recomputes every decision from its line; a cell's evidence, read piece by piece while engines, scheduler and other
people's requests go on; scripts killed between two directories; a campaign rendered again whenever an input arrives;
two programs that judge the same directories by rules of their own.

What makes each part correct:

- *telemetry*: knowledge of an engine only moves to later scrapes; a load without an error is as new as the fetch
  that returns it; open tokens always stand for work left.
- *decision log*: "nothing buffered" means the file is complete; a failed append is never forgotten.
- *collector*: every request joins one round, in order, whatever is cancelled; no round exceeds its limit.
- *scheduling*: no round is refused; picks respect the budget and the tie-breaks, and are not beaten on every count;
  the gate accepts the evidence of every round.
- *service*: one placement, one answer, one decision line and one closed token per request, under one configuration;
  every accepted request is answered.
- *pipeline*: routers choose as their papers state, dispatchers take the least by the counts of the tick of the pick,
  rotations stay even, a whole reply is one whose stream ended properly, no selection leaks a token or a thread.
- *cells*: a valid verdict means that nobody but the cell was on its engines, that they started from a proven empty
  cache, and that one scheduler process served it under its configuration and logged it; a cell that nothing disturbs
  is valid; a recorded run is never lost or overwritten; a scope that succeeds leaves its groups whole, compared and
  copied.
- *campaign and report*: a later stage keeps what an earlier one rendered; a report that succeeds has every cell the
  scope calls for, comparable within its group; driver and report agree; a reading at equal quality is fair.

## 2. The modules

| module | models | composes / used by |
|---|---|---|
| `Scrapes` | the scrape side of `TelemetryView` | |
| `ScrapesProof` | proofs about `Scrapes` | extends `Scrapes` |
| `TokenLedger` | the token side of `TelemetryView` | the protocol that `Pipeline` keeps |
| `Routers` | the five routers: building, choosing, falling back | |
| `Dispatchers` | the five dispatchers, with what they remember | |
| `SchedulerConfig` | which scheduler documents and fleets are accepted | |
| `EngineStream` | one call of `generate`, event by event | |
| `Pipeline` | requests through the pipeline mode: selection, lane, probe, reply | extends `TokenLedger`, `Routers`, `Dispatchers`, `SchedulerConfig`, `EngineStream` |
| `PipelineProof` | proofs about `TokenLedger`, `Pipeline`, `PipelineGate` and the operators they are made of | extends `PipelineGate` |
| `PipelineGate` | manifest and decision lines of a pipeline, and the gates' rules for them | extends `Pipeline` |
| `DecisionLog` | `JsonlLog` with `Service._watch` and `Service.stop` | |
| `DecisionLogProof` | proofs about `DecisionLog` | extends `DecisionLog` |
| `RoundQueue` | abstract: what a collector promises | implemented by `RoundCollector` |
| `RoundCollector` | `rounds.py` | instantiates `RoundQueue` |
| `RequestLedger` | abstract: what the service promises for a request | implemented by `RouteBalance` |
| `RouteBalance` | handlers, round loop, scoring thread, `apply` | instantiates `RequestLedger`; uses of the collector only what `RoundQueue` promises |
| `RouteBalanceProof` | proofs about `RouteBalance` | extends `RouteBalance` |
| `LatencyModel` | tables, envelopes, prefill | extends `SchedulerConfig` |
| `Knn` | the index and its estimates | extends `SchedulerConfig` |
| `ScheduleRound` | `schedule_round`, `score`, `pick`, `clamp` | extends `LatencyModel`, `Knn` |
| `ArmGate` | `gates/arm.py` for the lines of a round | extends `ScheduleRound` |
| `RoundProof` | proofs about `RoundCollector`, `ScheduleRound`, `ArmGate` and the operators they are made of | extends `RoundCollector`, `ArmGate` |
| `CellRun` | one cell from drain to verdict: driver, warm-up, runner, gates, and the world around them | takes the decision log as its reply to `/v1/stats` and its file |
| `CellRunProof` | proofs about `CellRun` | extends `CellRun` |
| `CellStore` | `run_scope.sh`, publication, mirror, parity, the owner's repairs | takes from `CellRun` that a run has a verdict |
| `CellStoreProof` | proofs about `CellStore` | extends `CellStore` |
| `Campaign` | `tools/campaign.py`: one render, and the check of the next | |
| `Parity` | `gates/parity.py`: the comparison of a group's cells | |
| `EqualQuality` | the frontier and the reading of a baseline | |
| `Lease` | the owner's inputs, stages, runs, parity, completeness and report | extends `Campaign`, `Parity`, `EqualQuality`; takes from `CellStore` that a run is published once |
| `LeaseProof` | proofs about `Lease` and the operators it is made of | extends `Lease` |
| `MC*` | instances for TLC | each extends its module |

Operators named "Mutant" in a comment are plausible bugs of the definition that follows them. No specification uses
them; each shows that some property would notice.

### Correspondence

**Scrapes.** A scrape is its issue number (`_seq`): the number stands for the gauges it read. `Gather` numbers the
scrapes of one `asyncio.gather` before any of them reports, as the tasks of a gather all run to their first await;
`Succeed` and `Fail` are the two ways `_poll_one` ends, in any order. `FetchReturn` and `FetchRaise` are `_loads`
after the gather: they read the entries as they are *then*, other fetches' outcomes included. `Stop` cancels the
pollers' scrapes; a cancellation is no outcome. The program either starts a view or fetches from it; the module allows
both, as the class does (it refuses a fetch only while it polls).

**TokenLedger.** One action per `record_*` call; `PendingDecodeTokens` and `InFlight` are the two counts that `_loads`
takes from the open tokens. It is checked as the protocol of `Pipeline` (`KeepsTokenLedger` is its specification), so
what is proved of it holds of every pipeline.

**Pipeline.** An action runs from one await to the next: `Accept` (the estimates of a sweep and the queueing of the
router's call), `CallStarts` and `CallEnds` on the lane of threads, `Routed` or `RoutingFails`, `Probed` or
`ProbeFails`, then the pick, in one tick with its dispatch; `Post`, `Receives` and `BodyEnds` are the stream, with
`Settles` its end and `ClientGoes` a cancellation at any await. A call whose selection is gone still holds its thread.
What a router's model answers is any answer of the run; what the router makes of it, and of a wrong artifact, is
`Routers`. A dispatcher's memory and its choice are `Dispatchers`; an instance is its place in the fleet file, so the
order of the integers is the order of the candidates. `EngineStream` keeps the engine's side of a stream (what it has
generated, whether it has finished) beside what the client makes of the events; text is counted in tokens, expected
lengths in parts of a token. `SchedulerConfig` decides which documents of a run are applied. `PipelineGate` writes the
manifest and the lines from the same state and checks them with the gates' rules.

**DecisionLog.** A line is its number. `flush` is split at its await: `HandOver`, the worker's `AppendOk` or
`AppendFail` (which may leave a prefix of its lines on disk), then `Settle`. `StopBegin` cancels the task wherever it
is; an append no worker has taken may be dropped with it (`dropped`), one that a worker has taken runs on and nobody
awaits it.

**RoundCollector.** `next_round` is split at its awaits (`first`, `taking`), and `_take`'s getter task is kept apart
from `_take` itself, since a request may land after one and before the other. Deadlines may pass at any time. With
fixed limits the code is the case `Small = Mid = Large`.

**RouteBalance.** `pc` is the await that a handler is in; `fut` is the future of `submit`. A disconnect (`ClientGoes`)
cancels a pending future at once; the handler runs later and decides who closes the token (`GoneInRound`). The scoring
thread (`Decides`, `ScoringEnds`) appends to `ready`, the event loop's FIFO; `RunDispatch` and `RunResult` consume it.
`FailRest` is the `except` of `run`, `LoopFailed` the done-callback of `_watch` with `fail_pending`. Configurations
are numbered by generation, so an old generation's thread and callbacks stay visible after `apply`. `SwapRaises` is
the one failure of `apply` after its swap: the new configuration's latency log cannot be opened.

**ScheduleRound.** Integers in units of `EPS`; a score is multiplied by the common denominator of its terms, so that
comparisons are those of exact arithmetic. A request carries estimates of every model of the index, those outside the
fleet included: the LPT key and the heads' length feature run over all of them, as in the code. `Knn` weights the
neighbours by 1 / (distance + eps) in units of eps, over a common denominator; which of several prompts at one
distance are found is open. `LatencyModel` has the tables and envelopes; the booster is a constant operator. `ArmGate`
writes the decision line of each request and recomputes it with the arithmetic of the gate.

**CellRun.** `step` is the command of `run_cell.sh` that is running; a command that only reads one thing is one
action, one that reads several (`before`, `after`, `engines`, the warm-up) is one action per reading, so the world may
change between them. The engines' counters are abstracted to requests and tokens, a request counting one token when it
is prefilled and one when it ends; `traffic_problems` compares three counters, which differ in the same way. A
scheduler process writes into its own log directory: the driver reads that of process 1, `proc` 2 at the start is a
wrong `--scheduler-log-dir`. `hist` records what happened, for the properties only. `Stalls` is every failure of a
step for a reason that is not in the module, time limits included; before the runner it refuses the cell, afterwards
it leaves files out, as the script does.

**CellStore.** Runs are numbered; a directory holds one and does not change once published (the driver logs beside
it), so a copy is `[run, whole]`. `Killed` is a kill, and any command of the scripts that fails: exit codes 2 and 3
that follow no state of the directories are its cases too. `status` checks the evidence of a valid run again with the
gates on disk: `rejected` holds the runs for which that now fails. `Covered` is the comparison that lets a parity
record stand. `run_scope.sh` runs `run_cell.sh` as a child; where that ends with another code than 0 or 1, so does it.

**Lease.** `given` is what the owner has put into files: pins, decisions, fleets, owner values, cells accounted for;
`render` is the latest stage, made of `given` by `Campaign`'s `Render`. `Stage` is a render with `--previous`, which
is refused where `Keeps` fails; `RenderAnew` one without. A published run keeps what the checks read of it (what was
expected of the cell, on which fleet, whether record and verdict are fine, in which environment), so `RunCell` stands
for a whole cell run with its publication. `RunParity`, `RowDone` and `ToRun` are the driver, `Complete`,
`ParityState`, `InTables` and `ReportDone` the analysis. A run's manifest is `Executes(document, environment)`:
environments are the things a run may get wrong (other threads, a changed file, an override that was lost, a restart).
Assumptions, from how the scope files are written: blocks of different groups list disjoint cells, through their
aliases, and a fill block waits for the earlier blocks of its own group; a decision names configurations that the
templates define; the owner is asked only for what the scope names. `EqualQuality` uses sums over the same seeds where
the code takes means, and a reading is a fraction.

## 3. The runs

| run | instance | distinct states | what it shows |
|---|---|---|---|
| `Scrapes` | 2 instances, 2 fetches at once, 5 scrapes | 136,535 | all five properties of the scrape side |
| `ScrapesOwn` (violated) | the same | | a fetch may answer with a snapshot older than its own good scrape |
| `Pipeline` | 3 requests, 2 models, 3 instances, 20 documents, of which 9 are accepted | 832,090 | selection, routing, picking, streams, tokens, and what the gates accept |
| `DecisionLog` | 5 lines | 1,654 | completeness of an empty buffer, of a clean stop, and that lines reach the file |
| `DecisionLogRecorded` (violated) | 4 lines | | an append that fails under a cancellation is recorded nowhere |
| `RoundCollector` | 7 requests, sizes 1/2/4, 2 cancellations | 38,889 | implements `RoundQueue`; rounds fit; every request gets one |
| `RouteBalance` | 3 requests, rounds up to 2, 2 configurations | 380,963 | safety, `RequestLedger`, and that every accepted request is answered |
| `RouteBalanceApply` (violated) | the same | | a failed `apply` may have swapped |
| `ScheduleRound` | 3 requests, 3 instances of 2 tiers, 6 indexes, of which 3 load | 99,342 | no refusal, budget, dominance, spreading, and the gate's recomputation |
| `CellRun` | 2 engines, 2 requests, 2 warm-up requests, 2 disturbances | 646,190 | a valid verdict can be trusted, and is reached |
| `CellStore` | 3 cells (1 accounted for), 3 runs, 2 versions of the gates | 2,239,893 | nothing lost, nothing mixed, success means whole |
| `Lease` | 5 scopes (and 7 that are refused or never render), 1 fault, 1 retired run | 96,472 | stages keep, report and driver agree and are sound, readings are fair |

The type invariant of a module is a conjunct of one of its properties (`InFlightExact`, `NeverRefused`, `RoundFits`,
`BufferedZeroIsComplete`, `UndisturbedIsValid`, `OneLiveRun`); that of `Scrapes` is proved. `Lease` has none: its
state is made of the operators that its properties are about.

Why the bounds are enough. Two scrapes of one instance give every order of two outcomes; five allow two fetches to
overlap twice, or a start and a poll to overlap with a fetch. Three requests in a pipeline let one wait for a thread
while one selects and one streams, and two instances of a model beside one of another make choices within and between
models; replies of one token, with usage before and after, give every order of text, usage and end. Five lines let a
background append, the lines written meanwhile and the final flush each hold more than one. Seven requests fill a
round of the largest size with a carried request, a backlog and a latecomer; two cancellations make a carry of a
carry. Three requests with rounds of two give a full round and one left for the next, whose loop may already have
failed; two generations give an old thread beside a new loop; one client may go, and an instance with two that may was
checked once (976k states), as was one with three generations. Three requests in a round let one pick be scored after
two others; two instances of one tier make ties. Two disturbances of a cell are a foreign request and the restart that
would hide it, or a change and the change back; two engines let one be read before the other; three disturbances were
checked once as well (12.7 million states). Three runs let a cell be run again beside a finished one, or twice; three
cells let two be compared and one be accounted for, run or not. Each scope of `Lease` is the smallest with one way in
which a cell can come to be listed late, twice, or not at all; one fault and one retired run give a stale record of
each kind, and an earlier version was checked with two faults (1.1 million states). For `EqualQuality` the baseline's
value is 0 on each seed, which loses nothing, since only differences to it enter; with a tolerance of 1 the presets
lie beyond it, on it, and on either side.

Deadlock is not checked: every system here may come to rest (no request left, a bound reached, the log stopped).

Fairness. The event loop runs what is ready and the pools run what they took, so handlers, the round loop, callbacks
and threads are weakly fair; scrapes and replies are bounded by their timeouts. `apply` is fair once begun. Nothing
makes clients come or leave, requests be cancelled, applies begin or `stop()` be called. `Pipeline`, the cell modules
and `Lease` claim no liveness: a call of a router has no time limit, a script that is stuck is killed, and an owner
may never give an input.

## 4. What is proved

Everything in this section holds for every value of the constants that satisfies the named assumptions of the modules.
Each proof has the same shape: an inductive invariant (`IInv`; where a module has several, `LedgerInv`, `CollectorInv`,
`RoundInv`, `GateInv`), one lemma per action that it survives, and the theorems, which follow from it. Every invariant
was first checked by TLC on the instance of the component's run.

| module | theorem | property |
|---|---|---|
| `ScrapesProof` | `TypeCorrect`, `ErrorMeaning`, `FreshFetch`, `NeverBlind`, `MovesForward`, `StopFinal` | all that the run checks, and the types |
| `PipelineProof` | `AlwaysRemaining` | `RemainingPositive`, a conjunct of the pipeline's `InFlightExact` |
| | `TokensAreOfTheServed`, `RepliesAreWhole`, `RotationsAreEven`, `RoutersKeepTheirRules`, `ChoicesAreByTheLoads` | `InFlightExact`, `ServedWhole`, `RotationIsEven`, `RoutesAsStated`, `PicksTheLeast` |
| | `PicksAreAccepted` | `GateAcceptsEveryPick`: a line names the model and tier that serve and the lengths it was dispatched by |
| | `PipelineKeepsLedger` | `KeepsTokenLedger`: the pipeline implements `TokenLedger` |
| `DecisionLogProof` | `EmptyBufferMeansComplete`, `FailureStaysVisible`, `StoppedIsComplete` | `BufferedZeroIsComplete`, `FailureNeverLooksComplete`, `StoppedHoldsEveryLine` |
| `RoundProof` | `RoundAlwaysFits` | `RoundFits` |
| | `CollectorKeepsPromise` | `KeepsPromise`: the collector implements `RoundQueue` |
| | `NoneIsRefused`, `BudgetAlwaysHolds`, `NoCandidateIsBetter`, `TwinsAreSpread` | `NeverRefused`, `BudgetHolds`, `NoBetterCandidate`, `ShorterTwinWins` |
| | `RoundsAreAccepted` | `GateAcceptsEveryRound`: the gate's arithmetic agrees with the scheduler's |
| `RouteBalanceProof` | `InFlightIsExact`, `LoadsAreCounted`, `DecidedAtMostOnce`, `SwapsWhileIdle` | `InFlightExact`, `LoadsCountEveryPick`, `DecidedOnce`, `ServedUnderOneConfig` |
| | `ServiceKeepsLedger` | `KeepsLedger`: the service implements `RequestLedger` |
| `CellRunProof` | `IsolatedIfValid`, `OneSystemIfValid`, `ValidIfUndisturbed` | `ValidIsIsolated`, `ValidIsOneSystem`, `UndisturbedIsValid` |
| `CellStoreProof` | `RunsAreKept`, `SuccessMeansWhole`, `MirrorIsNeverMixed` | `OneLiveRun`, `SuccessIsWhole`, `MirrorNeverMixes` |
| `LeaseProof` | `DoneIsKept`, `StagesAreKept` | `DoneStaysDone`, `NextStageIsKept` where the scope file allows it (below) |
| | `ReportsAreSound`, `DriverAndReportAgree`, `ReadingsAreFair` | `ReportIsSound`, `DriverAgreesWithReport`, `EqualQualityIsFair` |

Why the properties need an invariant of their own, and which:

- *Scrapes.* `FetchIsFresh` alone is not inductive: the step that returns loads needs to know that the entry's outcome
  is not older than what this fetch asked for. `IInv` adds that a snapshot is never ahead of the outcome order, that a
  fetch awaits only scrapes it issued, that a scrape a fetch no longer awaits has been ordered, and that a fetch that
  is not running awaits nothing.
- *TokenLedger.* A token that was never dispatched is not open.
- *DecisionLog.* `writing` counts exactly the lines in hand, the two flushes take turns, and, as long as no append
  failed or was dropped, the file followed by the lines in hand and the buffered lines is the sequence of all lines.
  After a cancellation that order is lost: the append of the cancelled task may end after the final flush. What is left
  then (`StopIInv`) is a count and a set: the lines in the file, in hand and in memory number `logged` together and are
  `1 .. logged`. Both together make the file a permutation of the lines, which is what `StoppedHoldsEveryLine` says.
- *RoundCollector.* Only an idle collector has carried requests, the carried ones fit the *largest* size and not the
  next one, and a getter runs only while there is room (`Held`, `Room`). For `RoundQueue` the queue is mapped to
  carried, collected, gotten and queued requests, in this order; a step of the collector that moves a request between
  these is a stutter.
- *ScheduleRound.* `RoundInv` says that a decided request went to one of its candidates, was clamped for that one, and
  took the cheapest only because no instance was affordable (`Kept`); request and configuration do not change within a
  round, so `BudgetHolds` follows. The properties of a step need more of the operators than of the state: a latency is
  positive and grows with the load (`LatencyIs`, `LatencyGrows`), a score falls in each of its terms over one scale
  (`NoCandidateIsBetter` compares two of them), and both scales are of all candidates.
- *ArmGate.* A line is written when its request is decided and checked after the round, when the loads have moved on.
  The gate reads nothing of them: what it makes of a line depends on the configuration alone (`SameFits`). So it is
  enough that a line fits at its own decision, where the gate's recomputation is shown equal to the scheduler's, term
  by term (`LinesFit`), and that the lines of a round fit each other: their places are a numbering (`Numbered`), no
  decided request is shorter than one to come (`LongestFirst`), and over a round all have one scale, but for the
  latency maximum, which is the largest latency up to each (`OneScale`). That a round may be cut off anywhere makes
  these invariants and not properties of its end.
- *RouteBalance.* A request that waits for a decision waits in one place: the queue of a generation, a round that is
  being prepared, a thread's hands or a callback (`OnePlace`, `Batches`); until it is decided its future is pending or
  cancelled and it has no token (`NotYetDecided`); if it still waits, the decision comes from the round that the *live*
  loop awaits (`Answers`), so an old generation's thread can answer nobody; nothing of a generation follows its
  result (`ResultsLast`), and a generation to come has nothing yet (`Fresh`). `LoadsCountEveryPick` is a conjunct: it
  makes a thread's picks the last word on the loads.
- *CellRun.* What the verdict reads are sums and copies, taken at different steps, so the invariant says what they are
  worth at each. `Counting`: an engine's counters move by the cell's own requests alone while nobody touches it between
  its readings, and by more once somebody has, unless it is a new process; no later step can make up for it. `Cached`
  and `Found`: what the warm-up has found vouches for the cache. `Served`: a process and configuration that served did
  so for a request whose line, if it is anywhere, says so; a valid verdict has all the lines, so there was one. `Calm`
  is the other half: as long as nothing disturbs the cell each check finds what it looks for. It needs the scheduler's
  count of requests in service (`InService`) and that the file and the buffer hold one line of each reply.
- *CellStore.* `SuccessIsWhole` is about a script that has ended, so it needs what each command leaves to the next:
  what `prepare` established for the runner and the publication (`Running`: no run of the cell is published, and the
  latest attempt is this one's), that each recorded run is in one place (`Places`), and what the last mirror has copied
  by then (`Copying`).
- *Lease.* A render is that of inputs without a defect, and whatever it was made of has not been taken back: decisions
  made stand, fleets given stay given (`RenderedFrom`, `Later`). A run's number tells it from the retired run of its
  cell (`Numbered`), so a parity record that passed vouches for exactly the runs it read, as long as they are there:
  their comparison still passes under the inputs of today, since a group's reference and what its arms declare depend
  on decisions alone, which stand (`Vouches`). The report finds parity current only where the record covers
  all of the group's good cells, which turns `Vouches` into `ReportIsSound`, and the driver reads the same record by
  other rules, which `DriverAndReportAgree` shows to come to the same. `StagesAreKept` compares two renders: what a
  block lacked it lacks no more, a pattern keeps what it named, and a cell stays in the block that lists it. It says so
  of a scope without a defect under the new inputs, which a scope file can only promise of itself, and with fill blocks
  that list no cell of another group's block (`GroupsApart`; see section 5); the scopes of the run are of this kind.
- *Pipeline.* Per request: what its selection has by its stage (`Selecting`: a decided router's answer, an estimate in
  a sweep and in no other case, and while it probes the candidates of its router's decision, which stands), that it has
  a stream exactly while it is served and that the stream agrees with the engine's (`Serving`: from the first event to
  the last, the client's text is the engine's, and it believes no end before the engine's), and that its token counts
  no more than the engine has made (`Counted`). Overall: each lane call waits once or has a thread (`InTheLane`), and
  every rotation is at place `k` because its first `k` instances have been taken `n + 1` times and the others `n` times
  (`Rotating`), which is the step from "to within one" to something that a pick preserves. `PicksAreAccepted` uses
  `Selecting` at the pick: the instance serves what the decision names, and a document of RB-decoupled loads only with
  the fleet's own tiers, so that the tier it names stands for the model.

`PipelineProof` also proves what the operators of `Routers`, `Dispatchers` and `EngineStream` return: a finite set has
a least and a greatest element and can be put in order in one way; a rotation takes the first of its candidates that
comes next and moves one place; the least outstanding candidate is the least in each order of the assignments; each
router decides as its rule states and for a model of the fleet, for every artifact that its build accepts; a stream
stays whole under every event. `RoundProof` does so for the tables, the index, the filter and the clamp of a round: a
time on a curve lies between its points and never falls with the batch, an estimate of an index that loads is a natural
number for each model of the fleet, the largest affordable output is the largest, and a request's score and terms are
what the weights say. `LeaseProof` does so for a render (which blocks it holds, which cell is in which block), a
group's comparison (it is symmetric where the code's is), and the frontier: a finite set of points has one, in one
order, and a reading between two of its points is no worse than either. Where one needs induction over a length or a
set (a sum of natural numbers is natural, a finite preorder has a least element), the proof takes a least
counterexample from the well-foundedness of the natural numbers, since the induction theorems of the library take an
operator as a parameter.

What the proofs assume is named in the modules and evaluated by TLC in every run:

- `RouterAssumption`, `DispatchAssumption`: names are strings, prices natural numbers in some unit (`config.py` refuses
  negative ones), the pool lists each model once (`fleet_models` makes it so), and no model is called `__ALL__`, which
  the code uses for the whole fleet and no fleet file for a model.
- `FleetAssumption`: the fleet file is one that `SchedulerConfig` accepts, and the constants derived from it agree.
- `LengthAssumption`: the bound `MaxTokens` of the ledger is no smaller than the requests' `max_tokens`, the expected
  lengths and the replies. It bounds the model and not the code: `MaxTokens` may be any number. And an estimate of an
  estimator that loads is a natural number for finitely many models, those of the fleet among them.
- `DocumentAssumption`: the types of keys that the parser enforces and the module leaves out, and two facts of the
  external models: AvengersPro answers one of the clusters of its checkpoint, and the scorers give numbers.
- `RoundAssumption`, `TableAssumption`, `IndexAssumption`, `DistanceAssumption`: prices, weights, budgets, tables,
  distances and labels are numbers in some unit, an index has finitely many rows and models, a price per output token
  is positive and a configuration names an index. `LatencyAssumption` is what `load_latency_model` checks of the
  tables. The theorems about a round assume also `HeadsPredict`, that a learned head's prediction is a number, whatever
  the number: a head is an operator, and TLC cannot evaluate it at every length.
- `LeaseAssumption`, `SectionAssumption`, `ReadingAssumption`: a scope file's lists are finite, its patterns name
  decisions that exist, pins are no parts of a document, and the markers for an absent value are none of the values.
- `ServiceAssumption`, `CollectorAssumption`, `StoreAssumption`, `LogAssumption`, `LedgerAssumption`,
  `ScrapesAssumption`, `CellAssumption`: the constants are numbers and finite sets of the sizes that the configuration
  allows (`CellAssumption` has the two warm-up requests at least that the reset's proof reads).

Only model-checked: the liveness properties (`LinesReachTheFile`, `EveryRequestGetsARound`,
`EveryRequestIsAnswered`), which are out of the prover's reach, and with them that the guards of the fair actions hold
when they must. Every safety property of a passing run has its theorem.

## 5. Where code and documents disagree

- A fetch drops its own good scrape when a newer-issued scrape of the instance has already failed (`ScrapesOwn`),
  where `fetch`'s docstring promises the fetch's own scrape.
- An append that fails while `stop()` cancels its task is not in `evidence_failure` (`DecisionLogRecorded`).
- `apply` may raise after the swap (`RouteBalanceApply`): the new configuration is live, the old round loop is
  cancelled but still receives requests when the old mode was RouteBalance, and they wait for ever (then
  `EveryRequestIsAnswered` fails too, and no later `apply` can run: the scheduler is never idle again).
- Texts that lag behind the decisions D133 and D134: `CODE_TOUR.md:40` ("A failed scrape fails the round") and the
  comment at `server.py:319`; `dispatch.py:113` ("A failed read fails its request"); `decision_log.py:4` ("the server
  then refuses requests").
- Seen in `CellRun` and not a run of its own: `bench/runner.py` and `analysis/validity.py` say that a change of the
  configuration during the cell shows in the identity at the end. One that is changed back, both times while no
  request of the cell is in service, shows nowhere; it resets the round loop and the dispatchers' state. No decision
  was made under the other configuration (`ValidIsOneSystem`).
- Exit code 2 of `run_cell.sh` is said to leave no record; publication that fails after the record ends with it too.
  The attempt is then found by `status` as `unpublished` (`OneLiveRun`).
- The comment at `tools/campaign.py:669` says that no later stage moves a cell from one block to another. A fill block
  waits only for blocks of its own group, so a cell that a block of another group comes to list first, once its
  decision is made, would move; `check_previous` then refuses the stage. The proof of `StagesAreKept` found this, and
  assumes `GroupsApart`. It holds of `configs/scope.json`, where a fill block shares its alias and a trace with earlier
  blocks of its own group only; no run shows the refusal.
- An estimator may expect 0 tokens (`tests/gates/test_arm.py:384`: "an estimate may be 0 tokens"), but where no prefill
  is configured and the envelope counts the expected tokens alone, that makes a latency of 0, which `score` refuses:
  the whole round fails. `NeverRefused` states exactly this exception; the deployed presets configure prefill.
- `gates/arm.py` refuses a latency term above 1. Under `fixed_ref` a learned head may predict less for a loaded
  instance than for an idle one, and then a correct line is refused; the presets with heads use `max_divide`
  (`GateAcceptsEveryRound` leaves that pair out).
- The case of `BestRouteUpstreamRouter.choose_model` that refuses a model outside the price table cannot happen in the
  server, where the prices cover exactly the fleet's models and the build refuses any other.

## 6. Plan

Modelled, and proved as section 4 says: everything above. What is left, in order:

1. The load generator's arrivals and connections.
2. The rest of `stop()`, with the routes that a stopping server still answers.

## 7. Not modelled, and why

Trained models (the encoder, the routers' models, the boosted trees) are numerical functions of their inputs: their
answers are constants of a run, taken freely from small sets. Floating-point rounding is abstracted; the code's own
tests compare it bit by bit with the earlier version. Probabilities by output length are computed by the estimator and
read by nothing. Single-value checks of documents (types, ranges, names), digests of files and the text of metrics,
events, logs and scopes are forms without state. The metrics of a cell, the bootstrap and SLO attainment are
statistics over finished records, and the joins with judged answers are sequential. `gates/freeze.py` and the source
gates compare digests and scan text; the offline tools and deployment scripts are sequential and run by hand; HTTP
codecs and `stats` change no state. Of the campaign the dry run, calibration rows and the weights of a preset list are
left out; of a cell the latency rows of the sweep and the code and launch checks.
