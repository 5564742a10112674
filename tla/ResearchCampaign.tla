---------------------------- MODULE ResearchCampaign ----------------------------
(***************************************************************************)
(* Research campaigns: processes that sweep the space of rules over a      *)
(* dataset, batch by batch (ResearchRuntime.run_cycle under                *)
(* scripts/run_campaign.py), and the operator's commands (cli.py).         *)
(*                                                                         *)
(* What a process knows of the database it has read at some earlier step:  *)
(* the system status and the last identifiers when it started, the rules   *)
(* tried when its first cycle began. The moves of the system state are     *)
(* single steps: module SystemState implements KillSwitch, where they are. *)
(*                                                                         *)
(* A rule is its position in the search space. What a rule is worth, and   *)
(* so which verdict it gets, is open. The dataset has points: NO_DATA is   *)
(* left out. A campaign starts with a health check of its own; the one     *)
(* that opens its first cycle follows at once and stands for both.         *)
(***************************************************************************)
EXTENDS Lifecycle, FiniteSetsExt

CONSTANTS
  Proc,              \* processes that run campaigns
  Dataset,           \* dataset identifiers
  Prefix,            \* the pairs <<d, e>> where d is a prefix of e as a string
  NRules,            \* len(build_search_space())
  BatchSize,         \* research.max_experiments_per_cycle, --batch
  Budget,            \* --max-hypotheses, the whole space by default
  MaxRetries,        \* research.max_retries_per_agent
  MaxId,             \* bound: identifiers of each kind
  MaxInterventions,  \* bound: commands of the operator
  MaxFaults,         \* bound: exceptions of the evaluation and of the store
  MayCrash           \* do processes die

Rule == 1 .. NRules
Id == 1 .. MaxId

ASSUME SpaceAssumption == NRules \in Nat /\ BatchSize \in Nat \ {0}
ASSUME PrefixAssumption ==
  /\ Prefix \subseteq Dataset \X Dataset
  /\ \A d \in Dataset : <<d, d>> \in Prefix
ASSUME BoundsAssumption ==
  /\ {Budget, MaxRetries, MaxId, MaxInterventions, MaxFaults} \subseteq Nat
  /\ MayCrash \in BOOLEAN

VARIABLES
  row,         \* system_state.status
  strategy,    \* strategy_state: status, and as history what it was created for
  experiment,  \* experiments: strategy, dataset and rule of each
  worker,      \* the campaign of each process
  swept,       \* datasets a campaign has reported as tested rule by rule
  late,        \* history: experiments of each process since an emergency stop
  spent        \* how much of each bound is used

tables == <<strategy, experiment>>
vars == <<row, strategy, experiment, worker, swept, late, spent>>

NoRow == [ status |-> None, dataset |-> None, rule |-> 0 ]
NoExperiment == [ strategy |-> 0, dataset |-> None, rule |-> 0 ]

StrategyRow == [ status : StrategyStatus, dataset : Dataset, rule : Rule ]
ExperimentRow == [ strategy : Id, dataset : Dataset, rule : Rule ]
Hypothesis == [ strategy : Id, rule : Rule ]

Worker ==
  [ stage : {"off", "numbering", "loop", "starting", "generating", "evaluating",
             "registering", "initializing", "judging", "pausing"},
    snapshot : SystemStatus \cup {None},    \* StateManager._snapshot
    dataset : Dataset \cup {None},
    experimentSeq : 0 .. MaxId, strategySeq : 0 .. MaxId,
    loaded : BOOLEAN, tried : SUBSET Rule,  \* _tried_by_dataset
    batch : Seq(Hypothesis),                \* hypotheses of the cycle still to do
    failed : 0 .. MaxRetries,               \* errors of the cycle
    errors : 0 .. MaxRetries ]              \* errors of the campaign

Off == [ stage |-> "off", snapshot |-> None, dataset |-> None,
         experimentSeq |-> 0, strategySeq |-> 0, loaded |-> FALSE, tried |-> {},
         batch |-> << >>, failed |-> 0, errors |-> 0 ]

-----------------------------------------------------------------------------
(* Helpers *)

\* latest_experiment_sequence, latest_strategy_sequence.
Latest(table, none) == Max({0} \cup { i \in Id : table[i] # none })

\* Mutant: a restart that begins from nothing.
ForgetTried(d) == {}

\* _load_tried_signatures: dataset_id LIKE 'd%'.
LoadTried(d) ==
  { r \in Rule : \E i \in Id :
      experiment[i].rule = r /\ <<d, experiment[i].dataset>> \in Prefix }

\* The first rules of the space that are not excluded, at most a batch: what is
\* left out comes later, and is left out because the batch is full.
Batches(tried) ==
  LET fresh == Rule \ tried
  IN  { s \in UNION { [1 .. n -> fresh] : n \in 0 .. BatchSize } :
          /\ \A i, j \in DOMAIN s : i < j => s[i] < s[j]
          /\ \A r \in fresh \ { s[i] : i \in DOMAIN s } :
               Len(s) = BatchSize /\ \A i \in DOMAIN s : s[i] < r }

\* Errors are counted as far as the campaign asks: up to MaxRetries.
Count(n) == IF n < MaxRetries THEN n ELSE MaxRetries

At(p, stage) == worker[p].stage = stage

Goto(p, w) == worker' = [worker EXCEPT ![p] = w]

Current(p) == Head(worker[p].batch)

Spend(bound, limit) ==
  /\ spent[bound] < limit
  /\ spent' = [spent EXCEPT ![bound] = @ + 1]

\* An exception of one hypothesis, or its refusal, is counted and the next one
\* follows.
Skip(p, w) ==
  Goto(p, [w EXCEPT !.stage = "evaluating", !.batch = Tail(@), !.failed = Count(@ + 1)])

\* An exception of run_cycle itself: the errors it had collected are lost, and
\* one too many pauses the system.
Raise(p, w) ==
  Goto(p, [w EXCEPT !.stage = IF w.errors + 1 >= MaxRetries THEN "pausing" ELSE "loop",
                    !.batch = << >>, !.failed = 0, !.errors = Count(@ + 1)])

\* The summary says how many rules of the space have been tested.
EndCampaign(p) ==
  /\ swept' = IF Cardinality(worker[p].tried) >= NRules
                THEN swept \cup {worker[p].dataset} ELSE swept
  /\ Goto(p, Off)

-----------------------------------------------------------------------------
(* Starting a process *)

Init ==
  /\ row = "IDLE"
  /\ strategy = [i \in Id |-> NoRow]
  /\ experiment = [i \in Id |-> NoExperiment]
  /\ worker = [p \in Proc |-> Off]
  /\ swept = {}
  /\ late = [p \in Proc |-> 0]
  /\ spent = [ interventions |-> 0, faults |-> 0 ]

StartRuntime(p) ==
  /\ At(p, "off")
  /\ \E d \in Dataset :
       Goto(p, [Off EXCEPT !.stage = "numbering", !.snapshot = row, !.dataset = d,
                           !.experimentSeq = Latest(experiment, NoExperiment)])
  /\ UNCHANGED <<row, tables, swept, late, spent>>

ReadStrategySequence(p) ==
  /\ At(p, "numbering")
  /\ Goto(p, [worker[p] EXCEPT !.stage = "loop",
                               !.strategySeq = Latest(strategy, NoRow)])
  /\ UNCHANGED <<row, tables, swept, late, spent>>

-----------------------------------------------------------------------------
(* The loop of the campaign *)

Done(p) ==
  \/ Cardinality(worker[p].tried) >= Budget
  \/ Cardinality(worker[p].tried) >= NRules
  \/ worker[p].snapshot = "EMERGENCY_STOPPED"

FinishCampaign(p) ==
  /\ At(p, "loop")
  /\ Done(p)
  /\ EndCampaign(p)
  /\ UNCHANGED <<row, tables, late, spent>>

\* Mutant: a cycle that asks the cached status only.
NextCycleFromCache(p) ==
  /\ At(p, "loop")
  /\ ~ Done(p)
  /\ Goto(p, [worker[p] EXCEPT !.stage =
       IF worker[p].snapshot = "IDLE" THEN "starting" ELSE "generating"])
  /\ UNCHANGED <<row, tables, swept, late, spent>>

\* run_health_check reads the row. The other ways of not being ready are a
\* matter of the configuration and of the dataset, which stay as they are.
Blocked == row = "EMERGENCY_STOPPED"

\* run_cycle opens with the health check: a cycle that is blocked ends the
\* campaign. It starts the system when it believes it idle.
NextCycle(p) ==
  /\ At(p, "loop")
  /\ ~ Done(p)
  /\ \/ /\ Blocked
        /\ EndCampaign(p)
     \/ /\ ~ Blocked
        /\ Goto(p, [worker[p] EXCEPT !.stage =
             IF worker[p].snapshot = "IDLE" THEN "starting" ELSE "generating"])
        /\ UNCHANGED swept
  /\ UNCHANGED <<row, tables, late, spent>>

\* StateManager.transition(RUNNING): whatever it finds, the cache takes it.
BeginRunning(p) ==
  /\ At(p, "starting")
  /\ \/ /\ ValidSystemTransition(row, "RUNNING")
        /\ row' = "RUNNING"
        /\ Goto(p, [worker[p] EXCEPT !.stage = "generating", !.snapshot = "RUNNING"])
     \/ /\ ~ ValidSystemTransition(row, "RUNNING")
        /\ Raise(p, [worker[p] EXCEPT !.snapshot = row])
        /\ UNCHANGED row
  /\ UNCHANGED <<tables, swept, late, spent>>

\* A PersistenceError of run_cycle before the hypotheses have their identifiers
\* or after the last evaluation: the campaign goes on.
CycleFails(p) ==
  /\ \/ At(p, "starting") \/ At(p, "generating")
     \/ At(p, "evaluating") /\ worker[p].batch = << >>
  /\ Spend("faults", MaxFaults)
  /\ Raise(p, worker[p])
  /\ UNCHANGED <<row, tables, swept, late>>

\* pause() itself raises when the system does not run; the process ends anyway.
Pause(p) ==
  /\ At(p, "pausing")
  /\ row' = IF ValidSystemTransition(row, "PAUSED") THEN "PAUSED" ELSE row
  /\ Goto(p, Off)
  /\ UNCHANGED <<tables, swept, late, spent>>

\* The time budget is checked at the top of the loop.
TimeUp(p) ==
  /\ At(p, "loop")
  /\ EndCampaign(p)
  /\ UNCHANGED <<row, tables, late, spent>>

Crash(p) ==
  /\ MayCrash
  /\ ~ At(p, "off")
  /\ Goto(p, Off)
  /\ UNCHANGED <<row, tables, swept, late, spent>>

-----------------------------------------------------------------------------
(* A cycle *)

\* The rules tried come from the database once, then from memory.
Tried(p) == IF worker[p].loaded THEN worker[p].tried ELSE LoadTried(worker[p].dataset)

\* Every hypothesis of the batch takes its identifier now.
GenerateHypotheses(p) ==
  LET last == worker[p].strategySeq
  IN  /\ At(p, "generating")
      /\ \E rules \in Batches(Tried(p)) :
           /\ last + Len(rules) <= MaxId
           /\ Goto(p, [worker[p] EXCEPT
                !.stage = "evaluating", !.loaded = TRUE, !.tried = Tried(p),
                !.strategySeq = last + Len(rules),
                !.batch = [ i \in 1 .. Len(rules) |->
                              [ strategy |-> last + i, rule |-> rules[i] ] ]])
      /\ UNCHANGED <<row, tables, swept, late, spent>>

\* A PersistenceError between the numbering and the first evaluation, in the
\* audit of what was generated or of the broker: the identifiers are spent.
GenerationFails(p) ==
  LET last == worker[p].strategySeq
  IN  /\ At(p, "generating")
      /\ Spend("faults", MaxFaults)
      /\ \E rules \in Batches(Tried(p)) :
           /\ last + Len(rules) <= MaxId
           /\ Raise(p, [worker[p] EXCEPT !.loaded = TRUE, !.tried = Tried(p),
                                         !.strategySeq = last + Len(rules)])
      /\ UNCHANGED <<row, tables, swept, late>>

Granted(p) == worker[p].snapshot \in {"IDLE", "RUNNING"}

\* Mutant: a rule that is granted is not marked as tried.
RequestWithoutMark(p) ==
  /\ At(p, "evaluating")
  /\ worker[p].batch # << >>
  /\ worker[p].experimentSeq < MaxId
  /\ LET w == [worker[p] EXCEPT !.experimentSeq = @ + 1]
     IN  IF Granted(p) THEN Goto(p, [w EXCEPT !.stage = "registering"]) ELSE Skip(p, w)
  /\ UNCHANGED <<row, tables, swept, late, spent>>

\* The experiment takes its identifier, then the supervisor decides by the
\* cached status; only what is granted counts as tried. The second permission,
\* before the backtest, asks the same cache and cannot differ.
RequestPermission(p) ==
  /\ At(p, "evaluating")
  /\ worker[p].batch # << >>
  /\ worker[p].experimentSeq < MaxId
  /\ LET w == [worker[p] EXCEPT !.experimentSeq = @ + 1]
     IN  IF Granted(p)
           THEN Goto(p, [w EXCEPT !.stage = "registering",
                                  !.tried = @ \cup {Current(p).rule}])
           ELSE Skip(p, w)
  /\ UNCHANGED <<row, tables, swept, late, spent>>

\* An experiment_id that has a row is a PersistenceError.
AppendExperiment(p) ==
  /\ At(p, "registering")
  /\ LET i == worker[p].experimentSeq
     IN  \/ /\ experiment[i] = NoExperiment
            /\ experiment' = [experiment EXCEPT ![i] =
                 [ strategy |-> Current(p).strategy, dataset |-> worker[p].dataset,
                   rule |-> Current(p).rule ]]
            /\ Goto(p, [worker[p] EXCEPT !.stage = "initializing"])
            /\ late' = IF row = "EMERGENCY_STOPPED"
                         THEN [late EXCEPT ![p] = @ + 1] ELSE late
         \/ /\ experiment[i] # NoExperiment
            /\ Skip(p, worker[p])
            /\ UNCHANGED <<experiment, late>>
  /\ UNCHANGED <<row, strategy, swept, spent>>

\* Mutant: INSERT OR IGNORE.
InitializeOrIgnore(p) ==
  /\ At(p, "initializing")
  /\ strategy' = IF strategy[Current(p).strategy] = NoRow
       THEN [strategy EXCEPT ![Current(p).strategy] =
               [ status |-> "IDEA", dataset |-> worker[p].dataset, rule |-> Current(p).rule ]]
       ELSE strategy
  /\ Goto(p, [worker[p] EXCEPT !.stage = "judging"])
  /\ UNCHANGED <<row, experiment, swept, late, spent>>

\* A strategy_id that has a row is a PersistenceError.
InitializeStrategyState(p) ==
  /\ At(p, "initializing")
  /\ \/ /\ strategy[Current(p).strategy] = NoRow
        /\ strategy' = [strategy EXCEPT ![Current(p).strategy] =
             [ status |-> "IDEA", dataset |-> worker[p].dataset, rule |-> Current(p).rule ]]
        /\ Goto(p, [worker[p] EXCEPT !.stage = "judging"])
     \/ /\ strategy[Current(p).strategy] # NoRow
        /\ Skip(p, worker[p])
        /\ UNCHANGED strategy
  /\ UNCHANGED <<row, experiment, swept, late, spent>>

\* StrategyStateManager.transition, by the validator: the system status is not
\* asked.
Settle(p, verdict) ==
  LET s == Current(p).strategy
  IN  /\ At(p, "judging")
      /\ ValidStrategyTransition(strategy[s].status, verdict)
      /\ strategy' = [strategy EXCEPT ![s].status = verdict]
      /\ Goto(p, [worker[p] EXCEPT !.stage = "evaluating", !.batch = Tail(@)])
      /\ UNCHANGED <<row, experiment, swept, late, spent>>

\* Quant finds the hypothesis not measurable.
RejectVague(p) == Settle(p, "REJECTED")

\* The backtest of the rule has no operation.
ReturnUntraded(p) == Settle(p, "NEEDS_RESEARCH")

\* ValidatorAgent.decide: a structural failure, another one, or none.
Decide(p) ==
  \E verdict \in {"REJECTED", "NEEDS_RESEARCH", "BACKTEST"} : Settle(p, verdict)

\* Any other TradingLabError of an evaluation: what was committed stays. The
\* audit of the permission may fail too, with an identifier spent and no rule
\* marked.
EvaluationFails(p) ==
  /\ \/ /\ At(p, "evaluating")
        /\ worker[p].batch # << >>
        /\ worker[p].experimentSeq < MaxId
        /\ Skip(p, [worker[p] EXCEPT !.experimentSeq = @ + 1])
     \/ /\ \E stage \in {"registering", "initializing", "judging"} : At(p, stage)
        /\ Skip(p, worker[p])
  /\ Spend("faults", MaxFaults)
  /\ UNCHANGED <<row, tables, swept, late>>

FinishCycle(p) ==
  /\ At(p, "evaluating")
  /\ worker[p].batch = << >>
  /\ Goto(p, [worker[p] EXCEPT !.stage = "loop", !.failed = 0,
                               !.errors = Count(@ + worker[p].failed)])
  /\ UNCHANGED <<row, tables, swept, late, spent>>

-----------------------------------------------------------------------------
(* The operator: emergency-stop, clear-emergency, stop and reset *)

EmergencyStop ==
  /\ Spend("interventions", MaxInterventions)
  /\ row # "EMERGENCY_STOPPED"
  /\ row' = "EMERGENCY_STOPPED"
  /\ late' = [p \in Proc |-> 0]
  /\ UNCHANGED <<tables, worker, swept>>

Command(from, to) ==
  /\ Spend("interventions", MaxInterventions)
  /\ row = from
  /\ row' = to
  /\ UNCHANGED <<tables, worker, swept, late>>

ClearEmergencyStop == Command("EMERGENCY_STOPPED", "STOPPED")

Stop == Command("RUNNING", "STOPPED")

\* Mutant: a readiness where a status belongs.
ResetToReady == Command("STOPPED", "READY")

Reset == Command("STOPPED", "IDLE")

-----------------------------------------------------------------------------

\* What a process does by itself once it is started.
Work(p) ==
  \/ ReadStrategySequence(p)
  \/ FinishCampaign(p) \/ NextCycle(p) \/ BeginRunning(p) \/ Pause(p)
  \/ GenerateHypotheses(p) \/ RequestPermission(p) \/ AppendExperiment(p)
  \/ InitializeStrategyState(p)
  \/ RejectVague(p) \/ ReturnUntraded(p) \/ Decide(p) \/ FinishCycle(p)

Next ==
  \/ \E p \in Proc :
       \/ StartRuntime(p) \/ Work(p)
       \/ CycleFails(p) \/ GenerationFails(p) \/ EvaluationFails(p)
       \/ TimeUp(p) \/ Crash(p)
  \/ EmergencyStop \/ ClearEmergencyStop \/ Stop \/ Reset

Spec == Init /\ [][Next]_vars

\* A process that is started runs: nothing it does waits for another process.
FairSpec == Spec /\ \A p \in Proc : WF_vars(Work(p))

-----------------------------------------------------------------------------
(* Properties *)

\* Every variable has its type.
TypeOK ==
  /\ row \in SystemStatus
  /\ strategy \in [Id -> StrategyRow \cup {NoRow}]
  /\ experiment \in [Id -> ExperimentRow \cup {NoExperiment}]
  /\ worker \in [Proc -> Worker]
  /\ swept \subseteq Dataset
  /\ late \in [Proc -> Nat]
  /\ spent \in [ interventions : 0 .. MaxInterventions, faults : 0 .. MaxFaults ]

\* A campaign that is interrupted anywhere and started again repeats nothing:
\* no rule has two experiments over one dataset (_load_tried_signatures and the
\* mark set before append_experiment).
NoRuleTestedTwice ==
  \A i, j \in Id :
    experiment[i] # NoExperiment /\ experiment[j] # NoExperiment /\ i # j =>
      \/ experiment[i].dataset # experiment[j].dataset
      \/ experiment[i].rule # experiment[j].rule

\* A verdict is about the rule its strategy was created for, whichever processes
\* have numbered their hypotheses alike: who loses the race for an identifier
\* never comes to judge under it.
VerdictIsCreators ==
  \A p \in Proc : At(p, "judging") =>
    strategy[Current(p).strategy] =
      [ status |-> "IDEA", dataset |-> worker[p].dataset, rule |-> Current(p).rule ]

\* An emergency stop is honoured within a batch: as long as it lasts, no process
\* registers more than the rest of the cycle it was in, whatever it has cached.
EmergencyHonouredWithinBatch ==
  row = "EMERGENCY_STOPPED" => \A p \in Proc : late[p] <= BatchSize

\* A campaign that runs ends by itself, short of a deadline: every cycle tests
\* what none before it has.
CampaignEnds ==
  \A p \in Proc :
    ~ At(p, "off") /\ worker[p].snapshot = "RUNNING" ~> At(p, "off")

\* ARCHITECTURE.md, 9.2: EMERGENCY_STOPPED freezes the strategies too, and no
\* transition of theirs happens in it.
EmergencyFreezesStrategies ==
  [][ row = "EMERGENCY_STOPPED" =>
        \A i \in Id : strategy[i] # NoRow => strategy'[i] = strategy[i] ]_<<row, strategy>>

\* ResearchRuntime.__init__: the numbering goes on from the database, so that no
\* identifier of an earlier cycle comes again after a restart. So no two
\* experiments are about one strategy_id.
StrategyIdsNotReused ==
  \A i, j \in Id :
    experiment[i] # NoExperiment /\ experiment[j] # NoExperiment /\ i # j =>
      experiment[i].strategy # experiment[j].strategy

\* _load_tried_signatures: what is tested over one dataset does not count as
\* tested over another.
DatasetsSweptApart ==
  \A d \in swept : \A r \in Rule :
    \E i \in Id : experiment[i].dataset = d /\ experiment[i].rule = r
=============================================================================
