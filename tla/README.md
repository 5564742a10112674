# Verification of the AI trading lab

This directory specifies the lab of `ai-trading-lab/` in TLA+, checks small
instances with TLC and proves theorems about all instances with TLAPS. Paths
below are relative to the repository; `lab/` stands for
`ai-trading-lab/src/ai_trading_lab/`.

The lab is a research system around one SQLite database and one database of
candles. Processes come and go: campaigns that test rules, commands of an
operator, collectors of candles. They share nothing but the two databases, and
every process caches something of what it has read. Most of what can go wrong
goes wrong there: between a read and the transaction that relies on it.

## 1. Inventory

| Component | State | Operations | Correct when | Module |
|---|---|---|---|---|
| Global system state (`lab/state.py` StateManager, `lab/persistence.py`) | row `system_state`, its trigger, `audit_events`, a cached snapshot per process | initialize, transition, emergency stop, clear, refresh | an emergency stop wins and is left by a human only; the audit trail replays to the row | `SystemState` implements `KillSwitch` |
| Strategy states and promotion gate (`lab/state.py`, `lab/persistence.py`) | `strategy_state`, `promotion_requests`, `audit_events` | initialize, transition, request, decide | no stage skipped; REAL only on a human's approval of this strategy; decisions final | `StrategyPipeline` implements `PromotionGate` |
| Research campaign (`lab/runtime.py`, `lab/agents/researcher.py`, `supervisor.py`, `validator.py`, `scripts/run_campaign.py`, `lab/cli.py`) | counters and tested rules per process, experiments, strategies | cycle, permission, registration, verdict, restart, operator commands | no rule twice; the right strategy judged; stops honoured; the sweep ends | `ResearchCampaign` |
| Dataset store and ingestion (`lab/data_persistence.py`, `data_ingestion.py`, `data_versioning.py`) | `dataset_versions`, `dataset_points` | ingest, promote, read latest | versions are an append-only log; a cycle reads one version | `DatasetStore` implements `DatasetLog` |
| Validation of candles (`lab/data_validation.py`) | none, a function of the batch | validate_and_normalize | keeps exactly the records of the sound points, accounts for every point | `DataValidation` |
| Collector (`lab/collectors/quadcode.py`, `scripts/collector_loop.py`) | session, cursor, candles collected | connect, authenticate, page backwards, store, sleep | no candle between two pages is lost; never waits for ever | `Collector` |
| Verdict of the validator (`lab/agents/validator.py`, `adversarial.py`, `risk.py`, `broker_risk.py`, `statistician.py`, second half of `runtime.py` `_evaluate_hypothesis`) | none | analyze, challenge, assess, evaluate a broker, checklist, decide | what loses too much is rejected; what advances earned in the folds asked for; nothing fails open | `Evaluation` |
| Backtest, metrics, rules (`lab/backtest_engine.py`, `metrics.py`, `strategy.py`) | none | signals, operations, capital | no look at later candles; a tie is a loss; drawdown and ruin are those of the operations | `Backtest` |
| Walk-forward, Monte Carlo (`lab/walk_forward.py`, `monte_carlo.py`) | none | folds, simulations | folds partition the sample and agree with the whole | `Backtest`; the simulation is random arithmetic and open |
| Split and test guard (`lab/data_split.py`) | a flag | split, unlock | parts partition the sample; TEST opens once | not modelled: used by its tests only |
| Event bus, retry (`lab/event_bus.py`, `retry.py`) | handlers | publish, run | one failing handler stops no other | not modelled: used by their tests only |
| Import of CSV (`lab/data_import.py`) | none | parse, then ingest | | not modelled: parsing |
| Configuration, contracts (`lab/configuration.py`, `contracts.py`) | none | parse, validate | unsafe settings are refused | the ranges an evaluation relies on: `ConfigOK` of `Evaluation`; the parsing is not modelled |
| Command line, reports, logging (`lab/cli.py`, `dashboard.py`, `agents/reporter.py`, `logging.py`) | none | output | | not modelled: output; the operator's commands are actions of `ResearchCampaign` |
| Tools (`scripts/probe_quadcode.py`, `list_actives.py`, `collect_candles.py`, `ranking.py`, `why_rejected.py`, `browser_capture.js`) | none | one-shot scripts | | not modelled |

How they meet: a collector validates and ingests candles into the dataset store;
a campaign reads the latest version of a dataset, asks the supervisor, who looks
at the system state its process has cached, registers an experiment, initializes
a strategy and moves it by the verdict of the validator; the operator stops,
clears and resets the system in processes of his own. There are no callbacks and
no messages between processes. Threads exist only as an `RLock` around one
connection, so the unit of interleaving is the transaction or the single query.

Hard to test, in short: races between a read and the transaction that relies on
it; the caches of status, identifiers and tested rules; crashes between two
transactions that belong together; a platform that is late, silent or answers
something else. `PROJECT.json` lists each hazard at its line.

## 2. Modules

Three kinds: abstract specifications of what a component promises (`KillSwitch`,
`PromotionGate`, `DatasetLog`), detailed ones translated from the code, and
`MC...` modules that give TLC its constants. `Lifecycle` holds what several
components share: statuses, allowlists, roles and grants (`lab/models.py`,
`transitions.py`, `authorization.py`).

    Lifecycle --+-- KillSwitch      <--implements-- SystemState ------- SystemStateProofs
                +-- PromotionGate   <--implements-- StrategyPipeline -- StrategyPipelineProofs
                +-- ResearchCampaign ---------------------------------- ResearchCampaignProofs
                +-- Backtest --- Evaluation --------------------------- EvaluationProofs
    DatasetLog  <--implements-- DatasetStore -------------------------- DatasetStoreProofs
    DataValidation ---------------------------------------------------- DataValidationProofs
    Collector --------------------------------------------------------- CollectorProofs

`Lemmas` has what several `...Proofs` modules need: facts about the numbers of a
bounded set, induction, and the loop over a sequence.

`ResearchCampaign` takes the moves of the system state as single steps, because
`SystemState` is shown to implement `KillSwitch`, where they are. `DatasetStore`
takes a batch as `DataValidation` leaves it, and `Collector` takes an ingestion
as one step because `DatasetStore` implements a log. `ResearchCampaign` leaves the
verdict on a rule open, and `Evaluation` is how it comes about; `Evaluation` takes
the series as `DataValidation` leaves it, in order and without repetitions.

### SystemState

`row` is `system_state.status`; `history` the audit rows that record a status;
`snapshot[p]` the StateManager's cache in process `p`; `guarded` whether the
trigger is in the database; `op[p]` the call a process is in.

| Action | Code |
|---|---|
| `DropGuards`, `CreateGuards` | `SQLiteStore._initialize_schema`: `executescript` commits what is open, so the triggers go in two commits |
| `Open`, `InitializeSystemState` | `StateManager.__init__`, `initialize_system_state` (INSERT OR IGNORE) |
| `Deny`, `StoreDenies` | the two permission checks, each audited; the manager has a policy of its own, the store the default |
| `LoadTransition`, `LoadEmergencyStop`, `LoadClear` | the load and the validation outside the transaction |
| `TransitionSystemState`, `LoseRace`, `Refresh` | the UPDATE with WHERE status, and the reload when it finds no row |
| `EmergencyStopSystem` | reads again inside its transaction, so it needs no compare-and-swap |
| `ClearEmergencyStop`, `ClearTooLate` | the same, for the clear |
| `RollBack`, `Crash` | a DatabaseError anywhere in a transaction; the death of a process |

The audit event of a write names the status it replaces as the code does: a
transition names the status its manager had loaded (`lab/state.py:167`), a clear the
constant `EMERGENCY_STOPPED` (`lab/state.py:239`), and only an emergency stop the
one read in its own transaction. That the trail replays to the row all the same is
due to the compare-and-swap alone, and without it (mutant `AlwaysUnmoved`) it does
not. Row and event are one step, because SQLite commits both or neither. The swap
compares values: a transition whose expected status was left and has come back
commits, here as in the code. It is then still a legal move from the status it
replaces.

### StrategyPipeline

`strategy`, `promotion` and `trail` are the tables and the audit rows about each
strategy. `LoadTransition`, `CheckApproval` and `TransitionStrategyState` are
`StrategyStateManager.transition` and the store's transaction; `LoadRequest` and
`AppendPromotionRequest` are `PromotionManager.request`;
`InitializeStrategyState` and `DecidePromotionRequest` are single transactions. A
request keeps the role of who asked, and `asked`, how long the trail of its strategy
was when it was inserted: a history variable, for the trail keeps a review for ever
and would not tell a request made in it from one made after it.
`Abandon` is every way a call ends without an effect. The triggers on
`strategy_state` repeat checks of the transaction they run in and are left out:
no property relies on them.

### ResearchCampaign

A worker is one process that runs `run_campaign.py`: its cached status, its two
counters, its set of tested rules, the rest of its batch and its error counts.
`StartRuntime` and `ReadStrategySequence` are `ResearchRuntime.__init__`;
`NextCycle`, `BeginRunning`, `GenerateHypotheses` and `FinishCycle` are
`run_cycle`; `RequestPermission`, `AppendExperiment`, `InitializeStrategyState`,
`RejectVague`, `ReturnUntraded` and `Decide` are `_evaluate_hypothesis`;
`CycleFails`, `GenerationFails` and `EvaluationFails` are exceptions (before the
rules of a cycle are numbered, between that and the first of them, and while one is
registered or judged, the audit of its permission included), `Crash` a death between any
two steps, `TimeUp` the deadline. The operator has `EmergencyStop`,
`ClearEmergencyStop`, `Stop` and `Reset`.

A rule is its position in the search space and any verdict may befall it. The
health check of the campaign's start is folded into the one of its first cycle;
the supervisor's second question, before the backtest, asks the same cached
status as the first and is folded into it; `stop` is one step from RUNNING; a
dataset has points.

### DatasetStore

`version` and `points` are the two tables. `ReadLatest` is the query for the
number, `AppendDatasetVersion` the transaction, where the primary key refuses a
number that is taken; `StartCycle`, `LoadDatasetVersion` and `LoadPoints` are the
three reads of a cycle. A batch is ingested at the stage its caller names, `VALIDATED`
or `PROCESSED`, as the docstring of `ingest_raw_batch` allows (`lab/data_ingestion.py:46`),
so a PROCESSED version need not have been VALIDATED before; only what
`promote_to_processed` adds is a copy of a VALIDATED version. `source` is a history
variable that says of which, and the log tells the two apart by it. Ingesting at `RAW`,
which neither the docstring nor any caller has, is left out. `content_hash` is a copy of the content: the hash is
taken to be free of collisions. Quality reports and the triggers that forbid
UPDATE and DELETE are left out, no call does either.

### Backtest and Evaluation

`Backtest` holds the pure part, as operators over a series of candles: the rules
(`EvaluateAt`, with `Momentum`, `Streak`, `Alternation` and `BodyRatio`), the
operations (`GenerateSignals`, `ResolveTrade`), the measures (`Expectancy`,
`MaxLossStreak`, `EquityCurve` with `Operation` for one turn of its loop) and the
folds (`WalkForward`). Fractions are exact
pairs of numbers: what floating point rounds is not modelled. The capital after k
operations is a multiple of a unit that shrinks with every operation, so that it
stays a whole number.

| `Evaluation` | Code |
|---|---|
| `Receive` | the next candle: every prefix of a series is a series |
| `Evaluate` | `_evaluate_hypothesis` after the registration, in three ways: |
| `ReturnUntraded` | back to research without operations |
| `EvaluationFails` | a `DataQualityError` where the sample is too short, which leaves the strategy an IDEA |
| `Decide` | the reports of the agents, one after the other, and the decision |
| `Analyze`, `EnoughToAnalyze`, `MonteCarlo` | `StatisticianAgent.analyze` |
| `NoLookAhead`, `Challenge` | `AdversarialAgent.challenge`, the findings that make it FAIL |
| `Assess`, `SurvivesStreak` | `RiskAgent.assess` |
| `BrokerStatus`, `ValidEvidence` | `BrokerRiskAgent.evaluate` |
| `Checklist`, `FailedItems`, `Target` | `build_checklist`, `failed_items`, `decide` for a strategy that is an IDEA, the only state the lab decides in |

A Monte Carlo simulation draws operations with repetition from those of the
backtest. Its probability of ruin is 0 where no draw can ruin, 1 where every draw
does, and otherwise on either side of the limit. The statistician and the risk
agent simulate with one seed and find the same. `max_risk_of_ruin` is taken to be
below 1. The envelopes of the reports are always there, so the item
`documentation_complete` is left out; a validated series has no timestamp twice,
so `no_data_leakage` is too. The margin that grows with the rules already tried is
a value from a set.

### DataValidation

`Kept`, `Rejected` and `QualityReport` are `validate_and_normalize`, pass by
pass. `QualityReport` has the expected interval as a parameter, `None` when the caller
names none: gaps are looked for only where one is named (`lab/data_validation.py:112`).
The collector names its timeframe, `import-data` names nothing (`lab/cli.py:179`), and
then a report without gaps says nothing, which `test_gaps_not_computed_without_expected_interval`
confirms; `GapsAreTheMissingCandles` has the interval as its precondition. The specification has one action, `Receive`, that lengthens the batch: it
stands for the choice of the input. The clock skew is part of `Deadline`, one
price (0) stands for all that are not finite and positive, and time zones are
left out, for the constructor of a raw point refuses a naive time.

### Collector

`stage` is where the loop is, `cursor`, `begun` and `collected` are the variables
of `collect_backwards`, `stored` the candles of the latest version. The platform
is the environment: it has for every time no candle, an unusable one, one that
validation rejects or a good one; it answers with the latest candles up to the
cursor or, ignoring it, up to now, as many as it likes up to the count; it may
answer with an error, drop the connection or stay silent. Messages that are no
answer are stutters. The first cursor is the second at which the collection begins and
lies on no candle's time, so a first page that holds only the candle still forming goes
on (`MayBePast`). An ingestion that fails ends the cycle, or the loop when the exception
is none of the lab's (`IngestionFails`). Time counts candles. The model has no clock for the pauses:
any number of candles may pass between any two steps.

## 3. Runs

`pass` runs hold; `violation` runs state what a document or comment of the
repository says and are refuted by what the code does (section 6).

| Run | Properties | Instance |
|---|---|---|
| `SystemState` | `TypeOK`, `AuditReplaysRow`, `EmergencyLatched`, `ImplementsKillSwitch` | 2 processes, 4 calls, lenient managers |
| `StrategyPipeline` | `TypeOK`, `NoStageSkipped`, `RequestsFollowReview`, `RolesSeparated`, `DecisionsFinal`, `ImplementsGate` | 2 processes, 2 strategies, 1 request, lenient managers |
| `Campaign` | `TypeOK`, `NoRuleTestedTwice`, `EmergencyHonouredWithinBatch`, `CampaignEnds` | 1 process, 3 rules, batches of 2, crashes, 1 fault, 3 commands; fair |
| `CampaignTwo` | `VerdictIsCreators` | 2 processes, 2 rules, 3 identifiers |
| `DatasetStore` | `TypeOK`, `CycleSeesOneVersion`, `ImplementsLog` | 3 processes, 1 dataset, 3 versions, both stages |
| `DataValidation` | `KeepsRecords`, `LaterPointsChangeNothing`, `Idempotent`, `AccountsForEveryPoint`, `GapsAreTheMissingCandles` | batches of 3 over 90 points, with an expected interval of 1, of 2 or none |
| `Evaluation` | `LaterCandlesChangeNothing`, `FoldsAgreeWithTheWhole`, `MirrorRulesShareNoWin`, `HourWindowsPartition`, `RuinNeedsFullStake`, `DrawdownIsWorstDrop`, `DangerIsRejected`, `AdvancedEarnsInItsFolds`, `BrokerFailsClosed` | 11 hourly candles of 2 kinds, 8 rules, 2 settings, 4 sets of evidence |
| `Collector` | `TypeOK`, `NoCandleSkipped`, `CollectionEnds` | 5 times, window 4, pages of 2, target 3; fair |
| `CampaignEmergency`, `CampaignIds`, `CampaignDatasets`, `DatasetStoreAccumulates` | one each | as small as the counterexample allows |

A lenient manager has a policy that grants one more role every capability than
the default policy of the store does, so that some calls are refused by the
manager and others by the store alone.

Every property of a passing run has a mutant beside the definition it changes
(marked "Mutant" in the modules): a plausible mistake in that very definition
that breaks the property under the run's own bounds.

**Bounds.** Races here are between one step of a process and the next of its own,
so two processes show them; `DatasetStore` has three because a cycle, an
ingestion and a promotion can meet. `MaxOps` 4 lets one process be in a call
while the other stops, clears and changes the state. Both strategies take the whole
pipeline of nine stages, and the approval of one must not do for the other.
Three rules in batches of two make a full batch, a
short one and a restart between them; `MaxId` leaves room for identifiers that
crashes waste and for one failure, which may spend those of a whole batch: with more
faults a campaign would run out of the model's identifiers instead of its rules. Five candles with a window of four let the history slide by one
while a collection is on, and every page but the first may be short. Three points
are enough for a point out of order or invalid to come between two others, and
for a repetition after it; the nine candles are three consistent ones and one for
each comparison that `_validate_ohlc` makes. Eleven candles are two folds of five
and six, each longer than any rule's window, in which a rule may win, lose, tie or
not operate at all, with runs of operations long enough to fall below half of the
capital from a peak in the middle. A bare close of 1 and a candle from 1 to 2
between 1 and 3 give rises, falls, ties, dojis and bodies of half the range. From
eight in the evening the series passes through both ends of a window over
midnight. Half of the capital at stake or all of it are the two sides of ruin; all the folds or
half of them must earn. Two
categories of evidence stand for the six, as the code treats them alike. The part
out of sample is 2/5 of the series instead of 0.3, for 3/10 of eleven candles are
too few to operate on. `MaxPoints`, `MaxOps`, `MaxRefusals`, `MaxId`, `MaxInterventions`,
`MaxFaults`, `MaxVersion`, `MaxTime` and `MaxLength` are bounds of the model and
no limits of the code.

Processes, requests, strategies and series are symmetric where a run says so; no run with
a liveness property uses symmetry. Deadlock is not checked in `StrategyPipeline`,
where all strategies may be in a terminal state and all refusals spent, and in
`DataValidation` and `Evaluation`, whose enumerations end with the longest batch
and with a judgement.

**Fairness.** `CampaignEnds` assumes weak fairness of the steps of each process
that runs: nothing it does waits for another process, for a lock of SQLite is
either obtained or fails. Starting, crashing, failing, the operator and the
deadline are not fair: the campaign ends without the help of the latter. It is
stated for a campaign whose cached status is RUNNING. `CollectionEnds` assumes
weak fairness of the loop and of its time budget: every wait of the loop has a
deadline, so some step of it is always enabled; the platform owes nothing.

## 4. Proofs

The theorems hold for any sets of processes, strategies, requests, datasets and
rules, any batch, series, configuration, payout and evidence, any policy of the
managers, and any bound:

| Theorem | Statement |
|---|---|
| `SystemStateProofs!TypeCorrect` | `Spec => []TypeOK` |
| `SystemStateProofs!AuditCorrect` | `Spec => []AuditReplaysRow` |
| `SystemStateProofs!Latched` | `Spec => EmergencyLatched` |
| `SystemStateProofs!Implements` | `Spec => ImplementsKillSwitch` |
| `StrategyPipelineProofs!TypeCorrect` | `Spec => []TypeOK` |
| `StrategyPipelineProofs!PipelineInOrder` | `Spec => []NoStageSkipped` |
| `StrategyPipelineProofs!ReviewFirst` | `Spec => []RequestsFollowReview` |
| `StrategyPipelineProofs!RolesKept` | `Spec => []RolesSeparated` |
| `StrategyPipelineProofs!DecisionsStand` | `Spec => DecisionsFinal` |
| `StrategyPipelineProofs!Implements` | `Spec => ImplementsGate` |
| `DatasetStoreProofs!TypeCorrect` | `Spec => []TypeOK` |
| `DatasetStoreProofs!CycleConsistent` | `Spec => []CycleSeesOneVersion` |
| `DatasetStoreProofs!Implements` | `Spec => ImplementsLog` |
| `ResearchCampaignProofs!TypeCorrect` | `Spec => []TypeOK` |
| `ResearchCampaignProofs!StopHonoured` | `Spec => []EmergencyHonouredWithinBatch` |
| `ResearchCampaignProofs!VerdictsOwned` | `Spec => []VerdictIsCreators` |
| `ResearchCampaignProofs!TestedOnce` | `Spec => []NoRuleTestedTwice`, for one process at a time |
| `CollectorProofs!TypeCorrect` | `Spec => []TypeOK` |
| `CollectorProofs!NothingSkipped` | `Spec => []NoCandleSkipped` |
| `DataValidationProofs!LaterPoints` | `Spec => LaterPointsChangeNothing` |
| `DataValidationProofs!ValidatedOnce` | `Spec => []Idempotent` |
| `DataValidationProofs!GapsFound` | `Spec => []GapsAreTheMissingCandles` |
| `DataValidationProofs!RecordsAreKept` | `Spec => []KeepsRecords` |
| `DataValidationProofs!NothingDisappears` | `Spec => []AccountsForEveryPoint` |
| `EvaluationProofs!NothingIsTakenBack` | `Spec => LaterCandlesChangeNothing` |
| `EvaluationProofs!FoldsAgree` | `Spec => []FoldsAgreeWithTheWhole` |
| `EvaluationProofs!MirrorsShareNoWin` | `Spec => []MirrorRulesShareNoWin` |
| `EvaluationProofs!HoursArePartitioned` | `Spec => []HourWindowsPartition` |
| `EvaluationProofs!OnlyFullStakeRuins` | `Spec => []RuinNeedsFullStake` |
| `EvaluationProofs!DrawdownIsRight` | `Spec => []DrawdownIsWorstDrop` |
| `EvaluationProofs!DangerRejected` | `Spec => []DangerIsRejected` |
| `EvaluationProofs!AdvancedEarns` | `Spec => []AdvancedEarnsInItsFolds` |
| `EvaluationProofs!FailsClosed` | `Spec => []BrokerFailsClosed` |

Every safety invariant and every action property that a passing run checks is a
theorem, and so is every refinement. Where processes interleave they follow one
argument: an inductive invariant `IInv`, the facts `Init => IInv` and
`IInv /\ [Next]_vars => IInv'` with one lemma per group of actions, and the
properties from it. Where the code is a function of its input the state is that
input, which grows, and the induction is over it, with the loops of the code below.

*Loops.* `Lemmas` has the constant `Body(given, sofar, x)`, the body of a loop, and
`After(given, start, s)`, what the loop comes to over `s`: a fold of the community
modules. A fold is a choice of a function on sets of indices; `LoopIsRun` shows that
the function exists, by induction on its domain, and `LoopAppend` that the loop over
`Append(s, x)` is the body applied to the loop over `s` and to `x`. A module that
proves about a loop of the code has an instance for its body, and never looks at the
fold again. Induction is in the form the provers take: a set that contains the empty
sequence, and with a sequence each longer one, contains all (`SequencesByInduction`);
it comes from the well-foundedness of the numbers, which the library states about a
relation and so needs no operator as a parameter.

*SystemState.* `AuditReplaysRow` is not inductive: a compare-and-swap writes a
target that was validated against an older row. `PendingLegal` adds what a call
has established when it comes to its transaction: its target is a legal move
from the status it expects, so when that is still the status of the row, the
move is legal from the row. `Initialized` adds that no process is in a call
before the row exists. An event that is appended names the status its call expects;
the write commits only where that is the status of the row (`Unmoved`), and so the
event names the status it replaces, however old the read it was built from. `Implements` maps the row and the trail to `KillSwitch`:
a write is a move there, everything else a stutter.

*StrategyPipeline.* `NoStageSkipped` needs `PendingLegal` for the same reason.
`Decided` says that a decided request was decided by a human; with
`RequestsFollowReview` it gives the refinement: an approval is of a strategy that
has come to its review and is therefore in review, in REAL or discarded, which is
where the gate lets it be approved, and a step to REAL finds its approval.
`RequestsFollowReview` itself needs that the last event of a trail is the strategy's
status, so that the status read again in the inserting transaction is that of the last
event before the request.

*DatasetStore.* The number of a call and the version a cycle reads were taken
before the transaction. `Contiguous` says that the versions of a dataset are
numbered from 1 without a hole, `RowsAgree` that metadata and points of a version
are of one batch, and `StillTrue` what a call has read and what stays so, because
versions are only added: the number it will take is at most one above the latest,
the content a promotion copies is still that of the VALIDATED version it was read from,
and the metadata a cycle holds are still those in the table. An insertion that
commits found its number free; with the first two this makes it the next one,
which is a step of the log. `Lemmas` has what this needs about the largest of a
bounded set of numbers.

*ResearchCampaign.* `WithinBatch` strengthens the promise on emergency stops: what
a process has registered since the stop and what is left of its batch are together
at most a batch, and no new batch begins, because `NextCycle` reads the row again.
`JudgedApart` says that no two processes judge under one identifier: the
initialization of a strategy is an insertion that only one of them can make, and
the other fails there. `NoRuleTestedTwice` needs `Fresh`: what a process counts as
tried covers the experiments in the table over its dataset, and the rest of its
batch is neither among them nor repeated. Another process may add an experiment
between the two, and so the theorem assumes that there is one process, which may
crash and be started again any number of times.

*Collector.* `NoCandleSkipped` speaks of a collection that is over; `Paged` is what
holds before: while pages are read, the cursor parts what is collected from what is
not. A page has everything usable from its oldest candle to the cursor, because what
the platform exposes has no hole from there to now (`PageHasNoHole`), and the cursor
moves to just below the oldest point. `PageFits` says that no page is longer than
what is still wanted.

*DataValidation.* `IInv` says what is known of every batch, with one lemma for each
part that a point more keeps it. The times of what is kept rise and its last point is
as late as the last one in order (`TimesRise`), so that what the three passes do with
one point more comes to: it is appended when it is sound and later than the last one
kept, and otherwise nothing changes (`KeptAppend`). `LaterPointsChangeNothing` is a
consequence. `Unchanged` says that what is kept goes through the passes as it is, with
any first point of its series; `KeptLast` that the last point kept is as late as the
latest sound one, which makes the next point kept the next record. `AllAccounted`
counts the repetitions: a point more of a time that is taken adds one to the
occurrences of that time and to nothing else, and the sum over the findings follows
(`SumFacts`, by induction over finite sets).

*Evaluation, signals.* What all properties over the operations rest on is
`SameSignal`: let a window lie in a series at the offset `a`. A rule with
`MinimumHistory` candles up to `i` within the window says of the window's candle `i`
what it says of the candle `a + i` of the series; for it reads no candle before that
history, none after `i`, and with a negative index none from the other end. With
`a = 0` and the longer series this is `LaterCandlesChangeNothing`. With the folds it
is `FoldsAgreeWithTheWhole`, where `FoldStep` follows the two loops, over the candles
of the whole and those of the fold, at once: before the fold begins the first selects
nothing, within it both append the same operation, and after it neither does. A
mirrored rule has the same signals with the direction flipped (`MirroredSignals`), so
that its wins and the other's are disjoint sets of operations and are together at most
all of them, while earning takes more than half at a payout of at most 1.

*Evaluation, capital.* `RuinNeedsFullStake` is the invariant `Solvent` of the loop.
For `DrawdownIsWorstDrop` the peak has to be tied to the operations, which
`build_equity_curve` forgets: `Measured` says that the capital is, of the peak so far,
at most the share that any operations in a row up to now leave, and exactly the share
that some of them do, where the rest of no operation counts as 1. The drop recorded
last is then the worst that ends with the last operation, and by induction those of
all operations give the worst of all (`DrawdownIs`). Fractions are compared without
dividing, which is what `Cancel`, `Products` and `Compare` are for.

*Evaluation, decisions.* `DecidedBy` spells out what a decision has gone through, once
for all properties about it. `RejectedIs` finds that of the items of the checklist the
structural ones come to the verdicts of risk and adversarial; `RisksAre` and
`ChallengedIs` that those fail exactly on the losses, the ruin and the degradation. It
takes that no rule looks ahead (`NeverLooksAhead`, from `SameSignal`), and that a run of
losses that is too deep is a drawdown that is too (`DeepStreakLoses`), which makes
that finding of the risk agent a repetition of another. Once judged, series and
judgement stay.

*Evaluation, broker.* The broker's PASS needs every category attested and no evidence
discarded (`PassNeedsEvidence`), the checklist has an item that is this PASS, and
`Target` gives BACKTEST only when nothing but a waived item has failed
(`AdvanceNeedsBroker`). What the other reports compute does not matter.

The proofs assume what the modules assume of their constants: policies are
functions from capabilities to sets of roles, bounds are natural numbers, `None`
is no value of the types. TLC evaluates these assumptions in every run.

Only model-checked: the two liveness properties, `CampaignEnds` and `CollectionEnds`,
which are out of the prover's reach, and the counterexamples of the `violation` runs.
`NoRuleTestedTwice` is proved, and holds, for one process at a time.

## 5. What the checks show

The barriers that are inside one transaction hold against every interleaving,
crash and rollback: the kill switch, the promotion gate, the audit trail, the log
of versions. The store keeps them alone, with whatever policy a manager has. What
the code leaves to caches holds in a weaker form: an emergency stop is honoured
within a batch, not at once; rules are never tested twice by one campaign after
another, but two concurrent campaigns may. Two campaigns that number alike do not
corrupt each other: the loser's strategy fails to initialize and is never judged.

The verdict on a rule follows from its operations: no rule sees later candles, the
folds agree with the whole, a rule and its mirror never both win, and a decided
rule is rejected for good exactly when it has lost more than the limit in a row of
operations, can be ruined, or degrades out of sample. Whatever else is missing
sends it back to research. A broker without complete evidence blocks a rule where
the configuration asks for it.

## 6. Findings

| Run | The text | What the code does |
|---|---|---|
| `CampaignEmergency` | `docs/ARCHITECTURE.md:254`, an emergency stop freezes the strategies | the cycle at work goes on to its end |
| `CampaignIds` | `lab/runtime.py:94`, identifiers do not collide after a restart | a crash before the strategy is initialized gives its identifier out again |
| `CampaignDatasets` | `lab/runtime.py:411`, the sweep of one asset leaves the others alone | `LIKE 'id%'` also takes the datasets whose id begins alike |
| `DatasetStoreAccumulates` | `scripts/collector_loop.py:3`, collection accumulates a sample | each version is one batch, and a cycle reads the latest alone |

Met on the way, without a run of their own: while one process opens the database
the row is for a moment without its trigger, which `docs/OPERATIONS.md:106` counts
as a third layer (`DropGuards` and `CreateGuards` have it; `ImplementsKillSwitch`
holds without the trigger); a strategy in REAL cannot be discarded, though
`docs/ARCHITECTURE.md:239` says any state can; the rule at work in a crash counts
as tested and never gets a verdict; consecutive versions of a dataset may be of
different brokers or origins, because only the points of one version are compared
(`docs/OPERATIONS.md:78` says origins are never mixed); a platform that is late to
confirm the authentication makes the loop end with the code that reports an
expired SSID (`scripts/collector_loop.py:90`); `cli stop` does not reach a campaign
in another process, which goes on with its cached status; a campaign that starts
on PAUSED or STOPPED is denied every permission and spins until its deadline;
`ja_testadas` is read before the rules of the dataset are loaded and is always 0,
so `--max-hypotheses` counts the rules of earlier campaigns too; the errors
called consecutive are never reset; a collection cut short by a deadline is
stored as if the history were over; the number of duplicates in a report counts
times, not points (`AccountsForEveryPoint` therefore adds their occurrences); the
compare-and-swap on the system's status compares the status alone, so a transition
decided before an emergency stop commits after its clearing when the status has
come back to what it loaded.

And in the evaluation: `docs/AGENT_CONTRACTS.md:298` says that any false item of the
checklist forbids advancing, but `broker_risk_passed` is waived unless
`broker_risk.blocking` is set (ADR-007 amends this), and with the default source of
evidence, which has none, the broker always fails; while less than the whole capital
is at stake there is no ruin (`RuinNeedsFullStake`), so that `monte_carlo_passed` and
`risk_of_ruin_exceeded` decide nothing then; a curve that is ruined stops before its
drawdown is updated, so with everything at stake the drawdown can be 0; a run of
losses that is too deep is a drawdown that is, so the item `loss_streak_reviewed` adds
nothing but where the curve is ruined; a momentum of threshold 0 would take an
unchanged price for a fall (`lab/strategy.py:213`; the search space has no such rule);
the least size of a fold counts `lookback`, not the length of a streak
(`lab/walk_forward.py:61`), so a rule of long streaks can have folds too short ever to
operate in; an operation expires by candles, so across a gap of the sample it expires
late (`lab/backtest_engine.py:113`); a sample too short for the folds raises, the
strategy stays an IDEA and its rule counts as tried; a configuration with one fold is
accepted, and `run_walk_forward` then raises a `ValueError`, which ends the campaign
with the experiment registered; the margin a rule must beat depends on how many were
tried before it, and so on the order of the sweep; the lab decides only from IDEA, so
nothing goes past BACKTEST by itself.

## 7. Not modelled

- `data_split.py`, `event_bus.py` and `retry.py` are used by no component of the lab:
  a model of them would be of their tests.
- Parsing (`data_import.py`, the file of `configuration.py`, the messages of the
  platform), output (`dashboard.py`, `agents/reporter.py`, `logging.py`, most of
  `cli.py`) and the one-shot scripts.
- Rounding of floating-point numbers, and the random draws of Monte Carlo.
- Gaps in the series of `Evaluation`, and the values of candles in `Collector`: the
  first page of a collection ends now, and its latest candle may still be forming
  when it is stored (`lab/collectors/quadcode.py:242`). No text promises otherwise.

What would come next: the values of candles in `Collector` and `DatasetStore`; gaps
in `Evaluation`; a composition of `Evaluation` with `ResearchCampaign`, which needs a
series so short that no rule is interesting.
