------------------------- MODULE ResearchCampaignProofs -------------------------
(***************************************************************************)
(* Proofs about ResearchCampaign, for any processes, datasets and space of *)
(* rules, any batch and budget, and any bounds.                            *)
(***************************************************************************)
EXTENDS ResearchCampaign, Lemmas, TLAPS

-----------------------------------------------------------------------------
(* The inductive invariant *)

\* A process that is started has a dataset, one in the middle of a hypothesis
\* has that hypothesis, and an experiment to register has its number.
Sound(w) ==
  /\ w.stage # "off" => w.dataset \in Dataset
  /\ w.stage \in {"registering", "initializing", "judging"} => w.batch # << >>
  /\ w.stage = "registering" => w.experimentSeq \in Id
  /\ Len(w.batch) <= BatchSize

\* The experiments that a process may still register without a health check.
Rest(w) ==
  IF w.stage \in {"starting", "generating"} THEN BatchSize
  ELSE IF w.stage \in {"evaluating", "registering"} THEN Len(w.batch)
  ELSE IF w.stage \in {"initializing", "judging"} THEN Len(w.batch) - 1
  ELSE 0

\* What is registered during an emergency stop and what still may be come from
\* one batch.
WithinBatch ==
  row = "EMERGENCY_STOPPED" => \A p \in Proc : late[p] + Rest(worker[p]) <= BatchSize

\* Two processes never judge under one identifier.
JudgedApart ==
  \A p, q \in Proc : p # q /\ At(p, "judging") /\ At(q, "judging") =>
    Current(p).strategy # Current(q).strategy

IInv ==
  /\ TypeOK
  /\ \A p \in Proc : Sound(worker[p])
  /\ WithinBatch
  /\ VerdictIsCreators
  /\ JudgedApart

-----------------------------------------------------------------------------
(* Lemmas on workers *)

LEMMA Bounds ==
  /\ NRules \in Nat /\ BatchSize \in Nat /\ BatchSize > 0
  /\ Budget \in Nat /\ MaxRetries \in Nat /\ MaxId \in Nat
  /\ MaxInterventions \in Nat /\ MaxFaults \in Nat
  BY SpaceAssumption, BoundsAssumption

LEMMA WorkerFields ==
  ASSUME NEW w \in Worker
  PROVE  /\ w.experimentSeq \in 0 .. MaxId /\ w.strategySeq \in 0 .. MaxId
         /\ w.tried \in SUBSET Rule /\ w.batch \in Seq(Hypothesis)
         /\ w.failed \in 0 .. MaxRetries /\ w.errors \in 0 .. MaxRetries
  BY DEF Worker

LEMMA CountType == ASSUME NEW n \in Nat PROVE Count(n) \in 0 .. MaxRetries
  BY Bounds DEF Count

LEMMA RestType ==
  ASSUME NEW w \in Worker, Sound(w)
  PROVE  Rest(w) \in Nat /\ Rest(w) <= BatchSize
<1>1. w.batch \in Seq(Hypothesis)
  BY DEF Worker
<1>2. Len(w.batch) \in Nat /\ (w.batch # << >> => Len(w.batch) > 0)
  BY <1>1
<1> QED
  BY <1>2, Bounds DEF Rest, Sound

LEMMA TailOfBatch ==
  ASSUME NEW s \in Seq(Hypothesis), s # << >>
  PROVE  /\ Tail(s) \in Seq(Hypothesis)
         /\ Len(Tail(s)) = Len(s) - 1
         /\ Len(s) \in Nat \ {0}
         /\ Head(s) \in Hypothesis
         /\ Head(s) = s[1]
         /\ \A i \in 1 .. Len(s) - 1 : Tail(s)[i] = s[i + 1]
  OBVIOUS

LEMMA OffSound == Off \in Worker /\ Sound(Off) /\ Rest(Off) = 0 /\ Off.stage = "off"
<1>1. << >> \in Seq(Hypothesis) /\ Len(<< >>) = 0
  OBVIOUS
<1> QED
  BY <1>1, Bounds DEF Off, Worker, Sound, Rest

\* The hypothesis is over, one way or the other.
LEMMA SkipSound ==
  ASSUME NEW w \in Worker, Sound(w), w.stage # "off", w.batch # << >>,
         NEW failed \in 0 .. MaxRetries,
         NEW v, v = [w EXCEPT !.stage = "evaluating", !.batch = Tail(@), !.failed = failed]
  PROVE  v \in Worker /\ Sound(v) /\ v.stage = "evaluating" /\ Rest(v) = Len(w.batch) - 1
<1>1. w.batch \in Seq(Hypothesis)
  BY DEF Worker
<1>2. Tail(w.batch) \in Seq(Hypothesis) /\ Len(Tail(w.batch)) = Len(w.batch) - 1
      /\ Len(w.batch) \in Nat
  BY <1>1, TailOfBatch
<1>3. v \in Worker
  BY <1>2 DEF Worker
<1>4. /\ v.stage = "evaluating" /\ v.batch = Tail(w.batch) /\ v.dataset = w.dataset
  BY DEF Worker
<1> QED
  BY <1>2, <1>3, <1>4, Bounds DEF Sound, Rest

LEMMA RaiseSound ==
  ASSUME NEW w \in Worker, Sound(w), w.stage # "off", NEW stage \in {"pausing", "loop"},
         NEW v, v = [w EXCEPT !.stage = stage, !.batch = << >>, !.failed = 0,
                              !.errors = Count(@ + 1)]
  PROVE  v \in Worker /\ Sound(v) /\ v.stage = stage /\ Rest(v) = 0
<1>1. << >> \in Seq(Hypothesis) /\ Len(<< >>) = 0
  OBVIOUS
<1>2. w.errors \in Nat
  BY Bounds DEF Worker
<1>3. Count(w.errors + 1) \in 0 .. MaxRetries /\ 0 \in 0 .. MaxRetries
  BY <1>2, CountType, Bounds
<1>4. v \in Worker
  BY <1>1, <1>3 DEF Worker
<1>5. v.stage = stage /\ v.batch = << >> /\ v.dataset = w.dataset
  BY DEF Worker
<1> QED
  BY <1>1, <1>4, <1>5, Bounds DEF Sound, Rest

-----------------------------------------------------------------------------
(* The steps of a process *)

\* What a step of a process must show when it comes to judge nothing and leaves
\* the strategies alone.
LEMMA MoveInv ==
  ASSUME IInv, NEW p \in Proc, NEW w \in Worker, Sound(w), w.stage # "judging",
         Goto(p, w), UNCHANGED strategy,
         row' \in SystemStatus,
         experiment' \in [Id -> ExperimentRow \cup {NoExperiment}],
         swept' \subseteq Dataset,
         late' \in [Proc -> Nat],
         spent' \in [ interventions : 0 .. MaxInterventions, faults : 0 .. MaxFaults ],
         row' = "EMERGENCY_STOPPED" =>
           /\ row = "EMERGENCY_STOPPED"
           /\ late'[p] + Rest(w) <= BatchSize
           /\ \A q \in Proc \ {p} : late'[q] = late[q]
  PROVE  IInv'
<1>1. worker' = [worker EXCEPT ![p] = w] /\ worker \in [Proc -> Worker]
  BY DEF Goto, IInv, TypeOK
<1>2. \A q \in Proc : worker'[q] = IF q = p THEN w ELSE worker[q]
  BY <1>1
<1>3. TypeOK'
  BY <1>1 DEF IInv, TypeOK
<1>4. \A q \in Proc : Sound(worker[q])'
  <2>1. \A q \in Proc : Sound(worker'[q])
    BY <1>2 DEF IInv
  <2> QED
    BY <2>1 DEF Sound
<1>5. WithinBatch'
  <2>1. ASSUME row' = "EMERGENCY_STOPPED", NEW q \in Proc
        PROVE  late'[q] + Rest(worker'[q]) <= BatchSize
    BY <1>2, <2>1 DEF IInv, WithinBatch
  <2> QED
    BY <2>1 DEF WithinBatch, Rest
<1>6. VerdictIsCreators' /\ JudgedApart'
  BY <1>2 DEF IInv, VerdictIsCreators, JudgedApart, At, Current
<1> QED
  BY <1>3, <1>4, <1>5, <1>6 DEF IInv

\* Most steps leave row and tables alone, and register nothing.
LEMMA QuietInv ==
  ASSUME IInv, NEW p \in Proc, NEW w \in Worker, Sound(w), w.stage # "judging",
         Goto(p, w), UNCHANGED <<row, tables, late>>, swept' \subseteq Dataset,
         spent' \in [ interventions : 0 .. MaxInterventions, faults : 0 .. MaxFaults ],
         row # "EMERGENCY_STOPPED" \/ Rest(w) <= Rest(worker[p])
  PROVE  IInv'
<1>1. /\ worker[p] \in Worker /\ Sound(worker[p]) /\ late[p] \in Nat
      /\ late \in [Proc -> Nat] /\ row \in SystemStatus
      /\ experiment \in [Id -> ExperimentRow \cup {NoExperiment}]
  BY DEF IInv, TypeOK
<1>2. Rest(worker[p]) \in Nat /\ Rest(w) \in Nat /\ BatchSize \in Nat
  BY <1>1, RestType, Bounds
<1>3. row = "EMERGENCY_STOPPED" => late[p] + Rest(w) <= BatchSize
  BY <1>1, <1>2 DEF IInv, WithinBatch
<1>4. UNCHANGED <<row, strategy, experiment, late>>
  BY DEF tables
<1> QED
  BY <1>1, <1>3, <1>4, MoveInv

LEMMA SpendType ==
  ASSUME TypeOK, NEW bound \in {"interventions", "faults"},
         NEW limit, limit = IF bound = "faults" THEN MaxFaults ELSE MaxInterventions,
         Spend(bound, limit)
  PROVE  spent' \in [ interventions : 0 .. MaxInterventions, faults : 0 .. MaxFaults ]
  BY Bounds DEF TypeOK, Spend

\* What is known of the process that moves.
LEMMA WorkerIs ==
  ASSUME IInv, NEW p \in Proc
  PROVE  /\ worker[p] \in Worker /\ Sound(worker[p])
         /\ worker[p].batch \in Seq(Hypothesis) /\ Len(worker[p].batch) \in Nat
         /\ Rest(worker[p]) \in Nat
         /\ swept \subseteq Dataset
         /\ spent \in [ interventions : 0 .. MaxInterventions, faults : 0 .. MaxFaults ]
         /\ row \in SystemStatus
<1>1. worker[p] \in Worker /\ Sound(worker[p])
  BY DEF IInv, TypeOK
<1>2. worker[p].batch \in Seq(Hypothesis)
  BY <1>1 DEF Worker
<1> QED
  BY <1>1, <1>2, RestType DEF IInv, TypeOK

LEMMA LatestType ==
  ASSUME NEW table, NEW none PROVE Latest(table, none) \in 0 .. MaxId
<1> DEFINE S == { i \in Id : table[i] # none }
<1>1. S \in SUBSET (1 .. MaxId) /\ MaxId \in Nat
  BY Bounds DEF Id
<1>2. Max({0} \cup S) \in 0 .. MaxId
  BY <1>1, MaxOfRows
<1> QED
  BY <1>2 DEF Latest

LEMMA StartInv ==
  ASSUME IInv, NEW p \in Proc, StartRuntime(p) \/ ReadStrategySequence(p)
  PROVE  IInv'
<1>1. CASE StartRuntime(p)
  <2>1. PICK d \in Dataset :
          Goto(p, [Off EXCEPT !.stage = "numbering", !.snapshot = row, !.dataset = d,
                              !.experimentSeq = Latest(experiment, NoExperiment)])
    BY <1>1 DEF StartRuntime
  <2>2. PICK n : n = Latest(experiment, NoExperiment)
    OBVIOUS
  <2>3. n \in 0 .. MaxId
    BY <2>2, LatestType
  <2> DEFINE w == [Off EXCEPT !.stage = "numbering", !.snapshot = row, !.dataset = d,
                              !.experimentSeq = n]
  <2>4. w \in Worker /\ Sound(w) /\ Rest(w) = 0 /\ w.stage = "numbering"
    <3>1. << >> \in Seq(Hypothesis) /\ Len(<< >>) = 0
      OBVIOUS
    <3>2. w.stage = "numbering" /\ w.batch = << >> /\ w.dataset = d
      BY DEF Off
    <3>3. w \in Worker
      <4>1. row \in SystemStatus
        BY WorkerIs
      <4> QED
        BY <2>3, <4>1, OffSound DEF Worker
    <3> QED
      BY <3>1, <3>2, <3>3, Bounds DEF Sound, Rest
  <2>5. Goto(p, w)
    BY <2>1, <2>2
  <2>6. UNCHANGED <<row, tables, swept, late, spent>>
    BY <1>1 DEF StartRuntime
  <2> HIDE DEF w
  <2> QED
    BY <2>4, <2>5, <2>6, QuietInv, WorkerIs
<1>2. CASE ReadStrategySequence(p)
  <2>1. PICK n : n = Latest(strategy, NoRow)
    OBVIOUS
  <2>2. n \in 0 .. MaxId
    BY <2>1, LatestType
  <2> DEFINE w == [worker[p] EXCEPT !.stage = "loop", !.strategySeq = n]
  <2>3. w \in Worker /\ Sound(w) /\ Rest(w) = 0 /\ w.stage = "loop"
    <3>1. worker[p].stage = "numbering"
      BY <1>2 DEF ReadStrategySequence, At
    <3>2. /\ w.stage = "loop" /\ w.batch = worker[p].batch
          /\ w.dataset = worker[p].dataset
      BY WorkerIs DEF Worker
    <3>3. w \in Worker
      BY <2>2, WorkerIs DEF Worker
    <3> QED
      BY <3>1, <3>2, <3>3, WorkerIs DEF Sound, Rest
  <2>4. Goto(p, w)
    BY <1>2, <2>1 DEF ReadStrategySequence
  <2> HIDE DEF w
  <2> QED
    BY <1>2, <2>3, <2>4, QuietInv, WorkerIs DEF ReadStrategySequence
<1> QED
  BY <1>1, <1>2

\* Whatever ends a campaign leaves its process with nothing.
LEMMA EndInv ==
  ASSUME IInv, NEW p \in Proc, Goto(p, Off), swept' \subseteq Dataset,
         UNCHANGED <<row, tables, late, spent>>
  PROVE  IInv'
<1>1. Off.stage # "judging" /\ Rest(Off) <= Rest(worker[p])
  BY OffSound, WorkerIs
<1> QED
  BY <1>1, OffSound, QuietInv, WorkerIs

LEMMA EndCampaignInv ==
  ASSUME IInv, NEW p \in Proc, At(p, "loop"), EndCampaign(p),
         UNCHANGED <<row, tables, late, spent>>
  PROVE  IInv'
<1>1. worker[p].dataset \in Dataset
  BY WorkerIs DEF Sound, At
<1>2. swept' \subseteq Dataset
  BY <1>1, WorkerIs DEF EndCampaign
<1> QED
  BY <1>2, EndInv DEF EndCampaign

LEMMA RaiseInv ==
  ASSUME IInv, NEW p \in Proc, NEW w \in Worker, ~ At(p, "off"),
         w.stage = worker[p].stage, w.dataset = worker[p].dataset,
         w.batch = worker[p].batch, w.experimentSeq = worker[p].experimentSeq,
         Raise(p, w),
         UNCHANGED <<row, tables, swept, late>>,
         spent' \in [ interventions : 0 .. MaxInterventions, faults : 0 .. MaxFaults ]
  PROVE  IInv'
<1>2. Sound(w) /\ w.stage # "off"
  BY WorkerIs DEF Sound, At
<1>4. PICK stage \in {"pausing", "loop"} :
        stage = IF w.errors + 1 >= MaxRetries THEN "pausing" ELSE "loop"
  OBVIOUS
<1>5. PICK v : v = [w EXCEPT !.stage = stage, !.batch = << >>, !.failed = 0,
                             !.errors = Count(@ + 1)]
  OBVIOUS
<1>6. v \in Worker /\ Sound(v) /\ v.stage # "judging" /\ Rest(v) = 0
  BY <1>2, <1>5, RaiseSound
<1>7. Goto(p, v)
  BY <1>4, <1>5 DEF Raise
<1> QED
  BY <1>6, <1>7, QuietInv, WorkerIs

LEMMA LoopInv ==
  ASSUME IInv, NEW p \in Proc,
         FinishCampaign(p) \/ TimeUp(p) \/ NextCycle(p) \/ Crash(p) \/ Pause(p)
  PROVE  IInv'
<1>1. CASE FinishCampaign(p)
  BY <1>1, EndCampaignInv DEF FinishCampaign
<1>2. CASE TimeUp(p)
  BY <1>2, EndCampaignInv DEF TimeUp
<1>3. CASE Crash(p)
  BY <1>3, EndInv, WorkerIs DEF Crash
<1>4. CASE NextCycle(p)
  <2>1. CASE Blocked /\ EndCampaign(p)
    BY <1>4, <2>1, EndCampaignInv DEF NextCycle
  <2>2. CASE ~ Blocked /\ UNCHANGED swept /\ Goto(p, [worker[p] EXCEPT !.stage =
             IF worker[p].snapshot = "IDLE" THEN "starting" ELSE "generating"])
    <3>1. PICK stage \in {"starting", "generating"} :
            stage = IF worker[p].snapshot = "IDLE" THEN "starting" ELSE "generating"
      OBVIOUS
    <3> DEFINE w == [worker[p] EXCEPT !.stage = stage]
    <3>2. /\ w \in Worker /\ w.stage = stage /\ w.dataset = worker[p].dataset
          /\ w.batch = worker[p].batch
      BY WorkerIs DEF Worker
    <3>3. Sound(w) /\ w.stage # "judging"
      BY <1>4, <3>2, WorkerIs DEF Sound, NextCycle, At
    <3>4. Goto(p, w) /\ row # "EMERGENCY_STOPPED"
      BY <2>2, <3>1 DEF Blocked
    <3>5. UNCHANGED <<row, tables, late, spent, swept>>
      BY <1>4, <2>2 DEF NextCycle
    <3> HIDE DEF w
    <3> QED
      BY <3>2, <3>3, <3>4, <3>5, QuietInv, WorkerIs
  <2> QED
    BY <1>4, <2>1, <2>2 DEF NextCycle
<1>5. CASE Pause(p)
  <2>1. row' = row \/ row' = "PAUSED"
    BY <1>5 DEF Pause
  <2>2. CASE row' = row
    BY <1>5, <2>2, EndInv, WorkerIs DEF Pause
  <2>3. CASE row' = "PAUSED"
    BY <1>5, <2>3, OffSound, MoveInv DEF Pause, IInv, TypeOK, tables, SystemStatus
  <2> QED
    BY <2>1, <2>2, <2>3
<1> QED
  BY <1>1, <1>2, <1>3, <1>4, <1>5

LEMMA BeginInv ==
  ASSUME IInv, NEW p \in Proc, BeginRunning(p)
  PROVE  IInv'
<1>1. CASE /\ ~ ValidSystemTransition(row, "RUNNING") /\ UNCHANGED row
           /\ Raise(p, [worker[p] EXCEPT !.snapshot = row])
  <2>1. ~ At(p, "off") /\ UNCHANGED <<tables, swept, late, spent>>
    BY DEF BeginRunning, At
  <2>2. PICK w : w = [worker[p] EXCEPT !.snapshot = row]
    OBVIOUS
  <2>3. row \in SystemStatus
    BY DEF IInv, TypeOK
  <2>4. /\ w \in Worker /\ w.stage = worker[p].stage /\ w.dataset = worker[p].dataset
        /\ w.batch = worker[p].batch /\ w.experimentSeq = worker[p].experimentSeq
    BY <2>2, <2>3, WorkerIs DEF Worker
  <2>5. Raise(p, w)
    BY <1>1, <2>2
  <2> QED
    BY <1>1, <2>1, <2>4, <2>5, RaiseInv, WorkerIs
<1>2. CASE /\ row' = "RUNNING"
           /\ Goto(p, [worker[p] EXCEPT !.stage = "generating", !.snapshot = "RUNNING"])
  <2> DEFINE w == [worker[p] EXCEPT !.stage = "generating", !.snapshot = "RUNNING"]
  <2>1. "RUNNING" \in SystemStatus
    BY DEF SystemStatus
  <2>2. /\ w \in Worker /\ w.stage = "generating" /\ w.dataset = worker[p].dataset
        /\ w.batch = worker[p].batch
    BY <2>1, WorkerIs DEF Worker
  <2>3. Sound(w)
    BY <2>2, WorkerIs DEF Sound, BeginRunning, At
  <2>4. Goto(p, w) /\ row' # "EMERGENCY_STOPPED"
    BY <1>2
  <2>5. UNCHANGED <<strategy, experiment, swept, late, spent>>
    BY DEF BeginRunning, tables
  <2> HIDE DEF w
  <2> QED
    BY <1>2, <2>1, <2>2, <2>3, <2>4, <2>5, MoveInv DEF IInv, TypeOK
<1> QED
  BY <1>1, <1>2 DEF BeginRunning

LEMMA CycleFailsInv ==
  ASSUME IInv, NEW p \in Proc, CycleFails(p)
  PROVE  IInv'
<1>1. ~ At(p, "off") /\ Raise(p, worker[p]) /\ UNCHANGED <<row, tables, swept, late>>
  BY DEF CycleFails, At
<1>2. spent' \in [ interventions : 0 .. MaxInterventions, faults : 0 .. MaxFaults ]
  BY SpendType DEF CycleFails, IInv
<1> QED
  BY <1>1, <1>2, RaiseInv, WorkerIs

\* What generate takes from the space of rules.
LEMMA BatchIs ==
  ASSUME NEW tried, NEW s \in Batches(tried)
  PROVE  /\ Len(s) \in 0 .. BatchSize
         /\ s \in [1 .. Len(s) -> Rule \ tried]
         /\ \A i, j \in 1 .. Len(s) : i < j => s[i] < s[j]
<1>1. PICK n \in 0 .. BatchSize : s \in [1 .. n -> Rule \ tried]
  BY DEF Batches
<1>2. Len(s) = n /\ DOMAIN s = 1 .. n
  BY <1>1, Bounds
<1>3. \A i, j \in DOMAIN s : i < j => s[i] < s[j]
  BY DEF Batches
<1> QED
  BY <1>1, <1>2, <1>3

\* The hypotheses of a cycle, numbered from the last identifier on.
LEMMA HypothesesAre ==
  ASSUME NEW s, NEW n \in Nat, NEW last \in 0 .. MaxId, last + n <= MaxId,
         s \in [1 .. n -> Rule],
         NEW b, b = [ i \in 1 .. n |-> [ strategy |-> last + i, rule |-> s[i] ] ]
  PROVE  b \in Seq(Hypothesis) /\ Len(b) = n /\ \A i \in 1 .. n : b[i].rule = s[i]
<1>1. \A i \in 1 .. n : [ strategy |-> last + i, rule |-> s[i] ] \in Hypothesis
  BY Bounds DEF Hypothesis, Id
<1>2. b \in [1 .. n -> Hypothesis]
  BY <1>1
<1> QED
  BY <1>2

LEMMA TriedType == ASSUME IInv, NEW p \in Proc PROVE Tried(p) \in SUBSET Rule
  BY WorkerIs DEF Tried, LoadTried, Worker

LEMMA GenerateInv ==
  ASSUME IInv, NEW p \in Proc, GenerateHypotheses(p)
  PROVE  IInv'
<1>1. PICK last : last = worker[p].strategySeq
  OBVIOUS
<1>2. PICK tried : tried = Tried(p)
  OBVIOUS
<1>3. last \in 0 .. MaxId /\ tried \in SUBSET Rule
  BY <1>1, <1>2, TriedType, WorkerIs DEF Worker
<1>4. PICK rules \in Batches(tried) :
        /\ last + Len(rules) <= MaxId
        /\ Goto(p, [worker[p] EXCEPT
             !.stage = "evaluating", !.loaded = TRUE, !.tried = tried,
             !.strategySeq = last + Len(rules),
             !.batch = [ i \in 1 .. Len(rules) |->
                           [ strategy |-> last + i, rule |-> rules[i] ] ]])
  BY <1>1, <1>2 DEF GenerateHypotheses
<1>5. PICK n : n = Len(rules)
  OBVIOUS
<1>6. n \in Nat /\ n <= BatchSize /\ rules \in [1 .. n -> Rule]
  BY <1>5, BatchIs, Bounds
<1>7. PICK b : b = [ i \in 1 .. n |-> [ strategy |-> last + i, rule |-> rules[i] ] ]
  OBVIOUS
<1>8. b \in Seq(Hypothesis) /\ Len(b) = n
  BY <1>3, <1>4, <1>5, <1>6, <1>7, HypothesesAre
<1> DEFINE w == [worker[p] EXCEPT !.stage = "evaluating", !.loaded = TRUE, !.tried = tried,
                                  !.strategySeq = last + n, !.batch = b]
<1>9. Goto(p, w)
  BY <1>4, <1>5, <1>7
<1>10. last + n \in 0 .. MaxId
  BY <1>3, <1>4, <1>5, <1>6, Bounds
<1>11. /\ w \in Worker /\ w.stage = "evaluating" /\ w.dataset = worker[p].dataset
       /\ w.batch = b
  <2>1. PICK u : u = worker[p]
    OBVIOUS
  <2>2. PICK m : m = last + n
    OBVIOUS
  <2>3. u \in Worker /\ m \in 0 .. MaxId
    BY <1>10, <2>1, <2>2, WorkerIs
  <2>4. w = [u EXCEPT !.stage = "evaluating", !.loaded = TRUE, !.tried = tried,
                      !.strategySeq = m, !.batch = b]
    BY <2>1, <2>2
  <2> HIDE DEF w
  <2>5. /\ w \in Worker /\ w.stage = "evaluating" /\ w.dataset = u.dataset
        /\ w.batch = b
    BY <1>3, <1>8, <2>3, <2>4 DEF Worker
  <2> QED
    BY <2>1, <2>5
<1>12. At(p, "generating") /\ UNCHANGED <<row, tables, swept, late, spent>>
  BY DEF GenerateHypotheses
<1> HIDE DEF w
<1>13. Sound(w) /\ Rest(w) = n /\ Rest(worker[p]) = BatchSize
  BY <1>6, <1>8, <1>11, <1>12, WorkerIs DEF Sound, Rest, At
<1> QED
  BY <1>6, <1>9, <1>11, <1>12, <1>13, QuietInv, WorkerIs

\* The numbering that fails leaves its process with the rules tried, and apart
\* from any cycle.
LEMMA GenerationFailsIs ==
  ASSUME IInv, NEW p \in Proc, GenerationFails(p)
  PROVE  \E w \in Worker :
           /\ Raise(p, w)
           /\ w.stage = "generating" /\ w.dataset = worker[p].dataset
           /\ w.batch = worker[p].batch /\ w.experimentSeq = worker[p].experimentSeq
           /\ w.loaded /\ w.tried = Tried(p)
<1>1. PICK rules \in Batches(Tried(p)) :
        /\ worker[p].strategySeq + Len(rules) <= MaxId
        /\ Raise(p, [worker[p] EXCEPT !.loaded = TRUE, !.tried = Tried(p),
                       !.strategySeq = worker[p].strategySeq + Len(rules)])
  BY DEF GenerationFails
<1>2. PICK n : n = worker[p].strategySeq + Len(rules)
  OBVIOUS
<1>3. n \in 0 .. MaxId
  <2>1. worker[p].strategySeq \in 0 .. MaxId
    BY WorkerIs, WorkerFields
  <2>2. Len(rules) \in 0 .. BatchSize
    BY BatchIs
  <2> QED
    BY <1>1, <1>2, <2>1, <2>2, Bounds
<1>4. PICK tried : tried = Tried(p)
  OBVIOUS
<1>5. PICK w : w = [worker[p] EXCEPT !.loaded = TRUE, !.tried = tried, !.strategySeq = n]
  OBVIOUS
<1>6. worker[p].stage = "generating" /\ tried \in SUBSET Rule
  BY <1>4, TriedType DEF GenerationFails, At
<1>7. /\ w \in Worker /\ w.stage = "generating" /\ w.dataset = worker[p].dataset
      /\ w.batch = worker[p].batch /\ w.experimentSeq = worker[p].experimentSeq
      /\ w.loaded /\ w.tried = tried
  BY <1>3, <1>5, <1>6, WorkerIs DEF Worker
<1>8. Raise(p, w)
  BY <1>1, <1>2, <1>4, <1>5
<1> QED
  BY <1>4, <1>7, <1>8

LEMMA GenerationFailsInv ==
  ASSUME IInv, NEW p \in Proc, GenerationFails(p)
  PROVE  IInv'
<1>1. PICK w \in Worker :
        /\ Raise(p, w)
        /\ w.stage = "generating" /\ w.dataset = worker[p].dataset
        /\ w.batch = worker[p].batch /\ w.experimentSeq = worker[p].experimentSeq
  BY GenerationFailsIs
<1>2. worker[p].stage = "generating" /\ UNCHANGED <<row, tables, swept, late>>
  BY DEF GenerationFails, At
<1>3. spent' \in [ interventions : 0 .. MaxInterventions, faults : 0 .. MaxFaults ]
  BY SpendType DEF GenerationFails, IInv
<1> QED
  BY <1>1, <1>2, <1>3, RaiseInv DEF At

\* A hypothesis is skipped, and its process may have counted an identifier.
LEMMA SkipInv ==
  ASSUME IInv, NEW p \in Proc, NEW n \in 0 .. MaxId,
         \E stage \in {"evaluating", "registering", "initializing", "judging"} : At(p, stage),
         worker[p].batch # << >>,
         Skip(p, [worker[p] EXCEPT !.experimentSeq = n]),
         UNCHANGED <<row, tables, swept, late>>,
         spent' \in [ interventions : 0 .. MaxInterventions, faults : 0 .. MaxFaults ]
  PROVE  IInv'
<1> DEFINE w == [worker[p] EXCEPT !.experimentSeq = n]
<1>1. /\ w \in Worker /\ w.stage = worker[p].stage /\ w.dataset = worker[p].dataset
      /\ w.batch = worker[p].batch /\ w.failed \in 0 .. MaxRetries
  BY WorkerIs DEF Worker
<1>2. Skip(p, w) /\ w.stage # "off"
  BY <1>1 DEF At
<1>3. PICK failed : failed = Count(w.failed + 1)
  OBVIOUS
<1>4. failed \in 0 .. MaxRetries
  <2>1. w.failed + 1 \in Nat
    BY <1>1, Bounds
  <2> QED
    BY <1>3, <2>1, CountType
<1>5. Rest(worker[p]) >= Len(worker[p].batch) - 1
  BY WorkerIs DEF Rest, At
<1> HIDE DEF w
<1>6. PICK v : v = [w EXCEPT !.stage = "evaluating", !.batch = Tail(@), !.failed = failed]
  OBVIOUS
<1>7. Goto(p, v)
  BY <1>2, <1>3, <1>6 DEF Skip
<1>8. PICK u : u = [w EXCEPT !.stage = "evaluating"]
  OBVIOUS
<1>9. /\ u \in Worker /\ u.stage = "evaluating" /\ u.dataset = w.dataset /\ u.batch = w.batch
      /\ v = [u EXCEPT !.stage = "evaluating", !.batch = Tail(@), !.failed = failed]
  BY <1>1, <1>6, <1>8 DEF Worker
<1>10. Sound(u)
  BY <1>1, <1>2, <1>9, WorkerIs DEF Sound
<1>11. v \in Worker /\ Sound(v) /\ v.stage = "evaluating" /\ Rest(v) = Len(w.batch) - 1
  <2>1. u \in Worker /\ u.batch # << >> /\ u.stage # "off" /\ u.batch = w.batch
    BY <1>1, <1>9
  <2>2. v = [u EXCEPT !.stage = "evaluating", !.batch = Tail(@), !.failed = failed]
    BY <1>9
  <2> QED
    BY <1>4, <1>10, <2>1, <2>2, SkipSound
<1> QED
  BY <1>1, <1>5, <1>7, <1>11, QuietInv, WorkerIs

LEMMA RequestInv ==
  ASSUME IInv, NEW p \in Proc, RequestPermission(p)
  PROVE  IInv'
<1>1. /\ At(p, "evaluating") /\ worker[p].batch # << >>
      /\ UNCHANGED <<row, tables, swept, late, spent>>
  BY DEF RequestPermission
<1>2. PICK n : n = worker[p].experimentSeq + 1
  OBVIOUS
<1>3. n \in Id /\ n \in 0 .. MaxId
  <2>1. worker[p].experimentSeq \in 0 .. MaxId
    BY WorkerIs, WorkerFields
  <2>2. worker[p].experimentSeq < MaxId
    BY DEF RequestPermission
  <2> QED
    BY <1>2, <2>1, <2>2, Bounds DEF Id
<1>4. PICK w : w = [worker[p] EXCEPT !.experimentSeq = n]
  OBVIOUS
<1>5. w = [worker[p] EXCEPT !.experimentSeq = @ + 1]
  BY <1>2, <1>4
<1>6. CASE Granted(p)
  <2>1. Current(p).rule \in Rule
    BY <1>1, WorkerIs, TailOfBatch DEF Current, Hypothesis
  <2>2. PICK r : r = Current(p).rule
    OBVIOUS
  <2>3. Goto(p, [w EXCEPT !.stage = "registering", !.tried = @ \cup {r}])
    BY <1>5, <1>6, <2>2 DEF RequestPermission
  <2>4. PICK v : v = [w EXCEPT !.stage = "registering", !.tried = @ \cup {r}]
    OBVIOUS
  <2>5. /\ v \in Worker /\ v.stage = "registering" /\ v.dataset = worker[p].dataset
        /\ v.batch = worker[p].batch /\ v.experimentSeq = n
    <3>1. PICK u : u = worker[p]
      OBVIOUS
    <3>2. u \in Worker /\ r \in Rule
      BY <2>1, <2>2, <3>1, WorkerIs
    <3>3. w \in Worker /\ w.dataset = u.dataset /\ w.batch = u.batch /\ w.experimentSeq = n
      BY <1>3, <1>4, <3>1, <3>2 DEF Worker
    <3>4. /\ v \in Worker /\ v.stage = "registering" /\ v.dataset = w.dataset
          /\ v.batch = w.batch /\ v.experimentSeq = w.experimentSeq
      BY <2>4, <3>2, <3>3 DEF Worker
    <3> QED
      BY <3>1, <3>3, <3>4
  <2>6. Sound(v) /\ Rest(v) = Rest(worker[p])
    BY <1>1, <1>3, <2>5, WorkerIs DEF Sound, Rest, At
  <2>7. Goto(p, v) /\ v.stage # "judging"
    BY <2>3, <2>4, <2>5
  <2> QED
    BY <1>1, <2>5, <2>6, <2>7, QuietInv, WorkerIs
<1>7. CASE ~ Granted(p)
  <2>1. Skip(p, w)
    BY <1>5, <1>7 DEF RequestPermission
  <2> QED
    BY <1>1, <1>3, <1>4, <2>1, SkipInv, WorkerIs
<1> QED
  BY <1>6, <1>7

\* An experiment that is registered during an emergency stop was in the batch.
LEMMA AppendInv ==
  ASSUME IInv, NEW p \in Proc, AppendExperiment(p)
  PROVE  IInv'
<1>1. /\ At(p, "registering") /\ UNCHANGED <<row, strategy, swept, spent>>
  BY DEF AppendExperiment
<1>2. /\ worker[p].batch # << >> /\ worker[p].dataset \in Dataset
      /\ worker[p].experimentSeq \in Id
  BY <1>1, WorkerIs DEF Sound, At
<1>3. PICK i : i = worker[p].experimentSeq
  OBVIOUS
<1>4. CASE experiment[i] # NoExperiment /\ Skip(p, worker[p]) /\ UNCHANGED <<experiment, late>>
  <2>1. worker[p] = [worker[p] EXCEPT !.experimentSeq = i] /\ i \in 0 .. MaxId
    BY <1>3, WorkerIs DEF Worker
  <2>2. Skip(p, [worker[p] EXCEPT !.experimentSeq = i])
    BY <1>4, <2>1
  <2> QED
    BY <1>1, <1>2, <1>4, <2>1, <2>2, SkipInv, WorkerIs DEF tables
<1>5. CASE /\ experiment' = [experiment EXCEPT ![i] =
                [ strategy |-> Current(p).strategy, dataset |-> worker[p].dataset,
                  rule |-> Current(p).rule ]]
           /\ Goto(p, [worker[p] EXCEPT !.stage = "initializing"])
           /\ late' = IF row = "EMERGENCY_STOPPED" THEN [late EXCEPT ![p] = @ + 1] ELSE late
  <2>1. Current(p) \in Hypothesis
    BY <1>2, WorkerIs, TailOfBatch DEF Current
  <2>2. [ strategy |-> Current(p).strategy, dataset |-> worker[p].dataset,
          rule |-> Current(p).rule ] \in ExperimentRow
    BY <1>2, <2>1 DEF Hypothesis, ExperimentRow
  <2>3. experiment' \in [Id -> ExperimentRow \cup {NoExperiment}]
    BY <1>5, <2>2 DEF IInv, TypeOK
  <2>4. PICK w : w = [worker[p] EXCEPT !.stage = "initializing"]
    OBVIOUS
  <2>5. /\ w \in Worker /\ w.stage = "initializing" /\ w.dataset = worker[p].dataset
        /\ w.batch = worker[p].batch
    BY <2>4, WorkerIs DEF Worker
  <2>6. Sound(w) /\ Rest(w) = Rest(worker[p]) - 1
    BY <1>1, <1>2, <2>5, WorkerIs DEF Sound, Rest, At
  <2>7. late \in [Proc -> Nat]
    BY DEF IInv, TypeOK
  <2>8. late' \in [Proc -> Nat] /\ \A q \in Proc \ {p} : late'[q] = late[q]
    BY <1>5, <2>7
  <2>9. ASSUME row = "EMERGENCY_STOPPED" PROVE late'[p] + Rest(w) <= BatchSize
    <3>1. late'[p] = late[p] + 1 /\ late[p] \in Nat
      BY <1>5, <2>7, <2>9
    <3>2. late[p] + Rest(worker[p]) <= BatchSize /\ Rest(worker[p]) \in Nat
      BY <2>9, WorkerIs DEF IInv, WithinBatch
    <3> QED
      BY <2>6, <3>1, <3>2, Bounds
  <2>10. Goto(p, w) /\ w.stage # "judging"
    BY <1>5, <2>4, <2>5
  <2> QED
    BY <1>1, <2>3, <2>5, <2>6, <2>8, <2>9, <2>10, MoveInv, WorkerIs
<1> QED
  BY <1>1, <1>3, <1>4, <1>5 DEF AppendExperiment

LEMMA FaultInv ==
  ASSUME IInv, NEW p \in Proc, EvaluationFails(p)
  PROVE  IInv'
<1>1. UNCHANGED <<row, tables, swept, late>>
  BY DEF EvaluationFails
<1>2. spent' \in [ interventions : 0 .. MaxInterventions, faults : 0 .. MaxFaults ]
  BY SpendType DEF EvaluationFails, IInv
<1>3. CASE /\ \E stage \in {"registering", "initializing", "judging"} : At(p, stage)
           /\ Skip(p, worker[p])
  <2>1. worker[p].batch # << >>
    BY <1>3, WorkerIs DEF Sound, At
  <2>2. PICK i : i = worker[p].experimentSeq
    OBVIOUS
  <2>3. worker[p] = [worker[p] EXCEPT !.experimentSeq = i] /\ i \in 0 .. MaxId
    BY <2>2, WorkerIs DEF Worker
  <2>4. Skip(p, [worker[p] EXCEPT !.experimentSeq = i])
    BY <1>3, <2>3
  <2> QED
    BY <1>1, <1>2, <1>3, <2>1, <2>3, <2>4, SkipInv
<1>4. CASE /\ At(p, "evaluating") /\ worker[p].batch # << >>
           /\ worker[p].experimentSeq < MaxId
           /\ Skip(p, [worker[p] EXCEPT !.experimentSeq = @ + 1])
  <2>1. PICK i : i = worker[p].experimentSeq + 1
    OBVIOUS
  <2>2. i \in 0 .. MaxId
    <3>1. worker[p].experimentSeq \in 0 .. MaxId
      BY WorkerIs, WorkerFields
    <3> QED
      BY <1>4, <2>1, <3>1, Bounds
  <2>3. Skip(p, [worker[p] EXCEPT !.experimentSeq = i])
    BY <1>4, <2>1
  <2> QED
    BY <1>1, <1>2, <1>4, <2>2, <2>3, SkipInv
<1> QED
  BY <1>3, <1>4 DEF EvaluationFails

LEMMA FinishInv ==
  ASSUME IInv, NEW p \in Proc, FinishCycle(p)
  PROVE  IInv'
<1>1. PICK errors : errors = Count(worker[p].errors + worker[p].failed)
  OBVIOUS
<1>2. worker[p].errors + worker[p].failed \in Nat
  <2>1. worker[p].errors \in 0 .. MaxRetries /\ worker[p].failed \in 0 .. MaxRetries
    BY WorkerIs, WorkerFields
  <2> QED
    BY <2>1, Bounds
<1>3. errors \in 0 .. MaxRetries /\ 0 \in 0 .. MaxRetries
  BY <1>1, <1>2, CountType, Bounds
<1>4. PICK w : w = [worker[p] EXCEPT !.stage = "loop", !.failed = 0, !.errors = errors]
  OBVIOUS
<1>5. Goto(p, w)
  BY <1>1, <1>4 DEF FinishCycle
<1>6. w \in Worker /\ w.stage = "loop" /\ w.dataset = worker[p].dataset
      /\ w.batch = worker[p].batch
  BY <1>3, <1>4, WorkerIs DEF Worker
<1>7. Sound(w) /\ Rest(w) = 0
  BY <1>6, WorkerIs DEF Sound, Rest, FinishCycle, At
<1>8. UNCHANGED <<row, tables, swept, late, spent>>
  BY DEF FinishCycle
<1> QED
  BY <1>5, <1>6, <1>7, <1>8, QuietInv, WorkerIs

-----------------------------------------------------------------------------
(* The strategies *)

\* What a step must show when it changes the strategy of the hypothesis at hand,
\* and that strategy is judged by no other process.
LEMMA StrategyInv ==
  ASSUME IInv, NEW p \in Proc, NEW w \in Worker, Sound(w), Goto(p, w),
         Rest(w) <= Rest(worker[p]),
         UNCHANGED <<row, experiment, swept, late, spent>>,
         NEW s \in Id, NEW r \in StrategyRow, strategy' = [strategy EXCEPT ![s] = r],
         \A q \in Proc \ {p} : At(q, "judging") => Current(q).strategy # s,
         w.stage = "judging" =>
           /\ Head(w.batch).strategy = s
           /\ r = [ status |-> "IDEA", dataset |-> w.dataset, rule |-> Head(w.batch).rule ]
  PROVE  IInv'
<1>1. worker' = [worker EXCEPT ![p] = w] /\ worker \in [Proc -> Worker]
  BY DEF Goto, IInv, TypeOK
<1>2. \A q \in Proc : worker'[q] = IF q = p THEN w ELSE worker[q]
  BY <1>1
<1>3. \A i \in Id : strategy'[i] = IF i = s THEN r ELSE strategy[i]
  BY DEF IInv, TypeOK
<1>4. TypeOK'
  BY <1>1 DEF IInv, TypeOK
<1>5. \A q \in Proc : Sound(worker[q])'
  <2>1. \A q \in Proc : Sound(worker'[q])
    BY <1>2 DEF IInv
  <2> QED
    BY <2>1 DEF Sound
<1>6. WithinBatch'
  <2>1. ASSUME row' = "EMERGENCY_STOPPED", NEW q \in Proc
        PROVE  late'[q] + Rest(worker'[q]) <= BatchSize
    <3>1. late[q] + Rest(worker[q]) <= BatchSize
      BY <2>1 DEF IInv, WithinBatch
    <3>2. late[q] \in Nat /\ Rest(worker[q]) \in Nat /\ Rest(w) \in Nat
      BY WorkerIs, RestType DEF IInv, TypeOK
    <3> QED
      BY <1>2, <3>1, <3>2, Bounds
  <2> QED
    BY <2>1 DEF WithinBatch, Rest
<1>7. VerdictIsCreators'
  <2>1. ASSUME NEW q \in Proc, worker'[q].stage = "judging"
        PROVE  strategy'[Head(worker'[q].batch).strategy] =
                 [ status |-> "IDEA", dataset |-> worker'[q].dataset,
                   rule |-> Head(worker'[q].batch).rule ]
    <3>1. CASE q = p
      BY <1>2, <1>3, <2>1, <3>1
    <3>2. CASE q # p
      <4>1. worker'[q] = worker[q] /\ At(q, "judging")
        BY <1>2, <2>1, <3>2 DEF At
      <4>2. Current(q).strategy # s /\ Current(q).strategy \in Id
        <5>1. worker[q].batch # << >>
          BY <4>1, WorkerIs DEF Sound, At
        <5> QED
          BY <3>2, <4>1, <5>1, WorkerIs, TailOfBatch DEF Current, Hypothesis
      <4> QED
        BY <1>3, <4>1, <4>2 DEF IInv, VerdictIsCreators, Current
    <3> QED
      BY <3>1, <3>2
  <2> QED
    BY <2>1 DEF VerdictIsCreators, At, Current
<1>8. JudgedApart'
  <2>1. ASSUME NEW q1 \in Proc, NEW q2 \in Proc, q1 # q2,
               worker'[q1].stage = "judging", worker'[q2].stage = "judging"
        PROVE  Head(worker'[q1].batch).strategy # Head(worker'[q2].batch).strategy
    BY <1>2, <2>1 DEF IInv, JudgedApart, At, Current
  <2> QED
    BY <2>1 DEF JudgedApart, At, Current
<1> QED
  BY <1>4, <1>5, <1>6, <1>7, <1>8 DEF IInv

LEMMA InitializeInv ==
  ASSUME IInv, NEW p \in Proc, InitializeStrategyState(p)
  PROVE  IInv'
<1>1. /\ At(p, "initializing") /\ UNCHANGED <<row, experiment, swept, late, spent>>
  BY DEF InitializeStrategyState
<1>2. /\ worker[p].batch # << >> /\ worker[p].dataset \in Dataset
      /\ Current(p) \in Hypothesis
  BY <1>1, WorkerIs, TailOfBatch DEF Sound, At, Current
<1>3. PICK s : s = Current(p).strategy
  OBVIOUS
<1>4. PICK r : r = [ status |-> "IDEA", dataset |-> worker[p].dataset,
                     rule |-> Current(p).rule ]
  OBVIOUS
<1>5. s \in Id /\ r \in StrategyRow
  BY <1>2, <1>3, <1>4 DEF Hypothesis, StrategyRow, StrategyStatus, STRATEGY_SEQUENCE
<1>6. CASE /\ strategy[s] # NoRow /\ Skip(p, worker[p]) /\ UNCHANGED strategy
  <2>1. PICK i : i = worker[p].experimentSeq
    OBVIOUS
  <2>2. worker[p] = [worker[p] EXCEPT !.experimentSeq = i] /\ i \in 0 .. MaxId
    BY <2>1, WorkerIs DEF Worker
  <2>3. Skip(p, [worker[p] EXCEPT !.experimentSeq = i])
    BY <1>6, <2>2
  <2> QED
    BY <1>1, <1>2, <1>6, <2>2, <2>3, SkipInv, WorkerIs DEF tables
<1>7. CASE /\ strategy[s] = NoRow /\ strategy' = [strategy EXCEPT ![s] = r]
           /\ Goto(p, [worker[p] EXCEPT !.stage = "judging"])
  <2>1. PICK w : w = [worker[p] EXCEPT !.stage = "judging"]
    OBVIOUS
  <2>2. /\ w \in Worker /\ w.stage = "judging" /\ w.dataset = worker[p].dataset
        /\ w.batch = worker[p].batch
    BY <2>1, WorkerIs DEF Worker
  <2>3. Sound(w) /\ Rest(w) <= Rest(worker[p])
    BY <1>1, <1>2, <2>2, WorkerIs DEF Sound, Rest, At
  <2>4. ASSUME NEW q \in Proc \ {p}, At(q, "judging") PROVE Current(q).strategy # s
    <3>1. strategy[Current(q).strategy].rule \in Rule
      <4>1. worker[q].batch # << >>
        BY <2>4, WorkerIs DEF Sound, At
      <4>2. Current(q) \in Hypothesis
        BY <4>1, WorkerIs, TailOfBatch DEF Current
      <4> QED
        <5>1. strategy[Current(q).strategy] =
                [ status |-> "IDEA", dataset |-> worker[q].dataset, rule |-> Current(q).rule ]
          BY <2>4 DEF IInv, VerdictIsCreators
        <5> QED
          BY <4>2, <5>1 DEF Hypothesis
    <3>2. NoRow.rule \notin Rule
      BY Bounds DEF NoRow, Rule
    <3> QED
      BY <1>7, <3>1, <3>2
  <2>5. w.stage = "judging" =>
          /\ Head(w.batch).strategy = s
          /\ r = [ status |-> "IDEA", dataset |-> w.dataset, rule |-> Head(w.batch).rule ]
    BY <1>3, <1>4, <2>2 DEF Current
  <2>6. Goto(p, w)
    BY <1>7, <2>1
  <2>7. strategy' = [strategy EXCEPT ![s] = r]
    BY <1>7
  <2>8. w \in Worker /\ Sound(w) /\ Rest(w) <= Rest(worker[p])
    BY <2>2, <2>3
  <2>9. UNCHANGED <<row, experiment, swept, late, spent>>
    BY <1>1
  <2> QED
    BY <1>5, <2>4, <2>5, <2>6, <2>7, <2>8, <2>9, StrategyInv
<1> QED
  BY <1>3, <1>4, <1>6, <1>7 DEF InitializeStrategyState

LEMMA VerdictStatus ==
  ASSUME NEW current, NEW verdict, ValidStrategyTransition(current, verdict)
  PROVE  verdict \in StrategyStatus
<1>1. Len(STRATEGY_SEQUENCE) = 9
  BY DEF STRATEGY_SEQUENCE
<1>2. PICK i \in 1 .. Len(STRATEGY_SEQUENCE) - 1 :
        <<current, verdict>> \in
          {STRATEGY_SEQUENCE[i]} \X ({STRATEGY_SEQUENCE[i + 1]} \cup Discarded)
  BY Zenon DEF ValidStrategyTransition, STRATEGY_TRANSITIONS
<1>3. verdict \in {STRATEGY_SEQUENCE[i + 1]} \cup Discarded
  BY <1>2
<1>4. i + 1 \in 1 .. Len(STRATEGY_SEQUENCE)
  BY <1>1
<1> QED
  BY <1>3, <1>4 DEF StrategyStatus

LEMMA SettleInv ==
  ASSUME IInv, NEW p \in Proc, NEW verdict, Settle(p, verdict)
  PROVE  IInv'
<1>1. /\ At(p, "judging") /\ UNCHANGED <<row, experiment, swept, late, spent>>
      /\ verdict \in StrategyStatus
  BY VerdictStatus DEF Settle
<1>2. worker[p].batch # << >> /\ Current(p) \in Hypothesis
  BY <1>1, WorkerIs, TailOfBatch DEF Sound, At, Current
<1>3. PICK s : s = Current(p).strategy
  OBVIOUS
<1>4. s \in Id /\ strategy \in [Id -> StrategyRow \cup {NoRow}]
  BY <1>2, <1>3 DEF Hypothesis, IInv, TypeOK
<1>5. strategy[s] = [ status |-> "IDEA", dataset |-> worker[p].dataset,
                      rule |-> Current(p).rule ]
  BY <1>1, <1>3 DEF IInv, VerdictIsCreators
<1>6. PICK r : r = [strategy[s] EXCEPT !.status = verdict]
  OBVIOUS
<1>7. r \in StrategyRow /\ strategy' = [strategy EXCEPT ![s] = r]
  <2>1. worker[p].dataset \in Dataset
    BY <1>1, WorkerIs DEF Sound, At
  <2>2. r = [ status |-> verdict, dataset |-> worker[p].dataset, rule |-> Current(p).rule ]
    BY <1>5, <1>6
  <2>3. r \in StrategyRow
    BY <1>1, <1>2, <2>1, <2>2 DEF StrategyRow, Hypothesis
  <2>4. strategy' = [strategy EXCEPT ![s] = [@ EXCEPT !.status = verdict]]
    BY <1>3 DEF Settle
  <2> QED
    BY <1>4, <1>6, <2>3, <2>4
<1>8. PICK failed : failed = worker[p].failed
  OBVIOUS
<1>9. failed \in 0 .. MaxRetries
  BY <1>8, WorkerIs DEF Worker
<1>10. PICK w : w = [worker[p] EXCEPT !.stage = "evaluating", !.batch = Tail(@),
                                     !.failed = failed]
  OBVIOUS
<1>11. /\ w \in Worker /\ Sound(w) /\ w.stage = "evaluating"
       /\ Rest(w) = Len(worker[p].batch) - 1
  <2>1. PICK u : u = worker[p]
    OBVIOUS
  <2>2. u \in Worker /\ Sound(u) /\ u.stage # "off" /\ u.batch # << >>
    BY <1>1, <1>2, <2>1, WorkerIs DEF At
  <2>3. w = [u EXCEPT !.stage = "evaluating", !.batch = Tail(@), !.failed = failed]
    BY <1>10, <2>1
  <2>4. /\ w \in Worker /\ Sound(w) /\ w.stage = "evaluating"
        /\ Rest(w) = Len(u.batch) - 1
    BY <1>9, <2>2, <2>3, SkipSound
  <2> QED
    BY <2>1, <2>4
<1>12. Rest(worker[p]) = Len(worker[p].batch) - 1
  BY <1>1 DEF Rest, At
<1>13. Goto(p, w)
  <2>1. w = [worker[p] EXCEPT !.stage = "evaluating", !.batch = Tail(@)]
    BY <1>8, <1>10, WorkerIs DEF Worker
  <2> QED
    BY <2>1 DEF Settle
<1>14. \A q \in Proc \ {p} : At(q, "judging") => Current(q).strategy # s
  BY <1>1, <1>3 DEF IInv, JudgedApart
<1>15. Rest(w) <= Rest(worker[p])
  BY <1>11, <1>12, WorkerIs
<1> QED
  BY <1>1, <1>4, <1>7, <1>11, <1>13, <1>14, <1>15, StrategyInv

-----------------------------------------------------------------------------
(* The operator *)

LEMMA RestsFit == ASSUME IInv, NEW p \in Proc PROVE Rest(worker[p]) \in 0 .. BatchSize
  BY WorkerIs, RestType, Bounds

LEMMA OperatorInv ==
  ASSUME IInv, EmergencyStop \/ ClearEmergencyStop \/ Stop \/ Reset
  PROVE  IInv'
<1>1. /\ UNCHANGED <<strategy, experiment, worker, swept>>
      /\ row' \in SystemStatus
      /\ \/ late' = [p \in Proc |-> 0]
         \/ UNCHANGED late /\ row' # "EMERGENCY_STOPPED"
      /\ Spend("interventions", MaxInterventions)
  BY DEF EmergencyStop, ClearEmergencyStop, Stop, Reset, Command, tables, SystemStatus
<1>2. TypeOK'
  <2>1. late' \in [Proc -> Nat]
    BY <1>1 DEF IInv, TypeOK
  <2>2. spent' \in [ interventions : 0 .. MaxInterventions, faults : 0 .. MaxFaults ]
    BY <1>1, SpendType DEF IInv
  <2> QED
    BY <1>1, <2>1, <2>2 DEF IInv, TypeOK
<1>3. WithinBatch'
  <2>1. ASSUME row' = "EMERGENCY_STOPPED", NEW p \in Proc
        PROVE  late'[p] + Rest(worker'[p]) <= BatchSize
    BY <1>1, <2>1, RestsFit, Bounds
  <2> QED
    BY <2>1 DEF WithinBatch, Rest
<1>4. VerdictIsCreators' /\ JudgedApart' /\ \A p \in Proc : Sound(worker[p])'
  BY <1>1 DEF IInv, VerdictIsCreators, JudgedApart, At, Current, Sound
<1> QED
  BY <1>2, <1>3, <1>4 DEF IInv

LEMMA InitInv == Init => IInv
<1> SUFFICES ASSUME Init PROVE IInv
  OBVIOUS
<1>1. \A p \in Proc : worker[p] = Off /\ late[p] = 0
  BY DEF Init
<1>2. \A p \in Proc : ~ At(p, "judging")
  BY <1>1, OffSound DEF At
<1>3. TypeOK
  BY OffSound, Bounds DEF Init, TypeOK, SystemStatus
<1>4. row # "EMERGENCY_STOPPED"
  BY DEF Init
<1> QED
  BY <1>1, <1>2, <1>3, <1>4, OffSound DEF IInv, WithinBatch, VerdictIsCreators, JudgedApart

LEMMA StutterInv == ASSUME IInv, UNCHANGED vars PROVE IInv'
  BY DEF vars, tables, IInv, TypeOK, Sound, WithinBatch, Rest, VerdictIsCreators,
         JudgedApart, At, Current

LEMMA NextInv == IInv /\ [Next]_vars => IInv'
<1> SUFFICES ASSUME IInv, [Next]_vars PROVE IInv'
  OBVIOUS
<1>1. ASSUME NEW p \in Proc, Work(p) PROVE IInv'
  <2>1. CASE RejectVague(p) \/ ReturnUntraded(p) \/ Decide(p)
    BY <2>1, SettleInv DEF RejectVague, ReturnUntraded, Decide
  <2> QED
    BY <1>1, <2>1, StartInv, LoopInv, BeginInv, GenerateInv, RequestInv, AppendInv,
       InitializeInv, FinishInv DEF Work
<1>2. ASSUME NEW p \in Proc,
             \/ StartRuntime(p) \/ Work(p)
             \/ CycleFails(p) \/ GenerationFails(p) \/ EvaluationFails(p)
             \/ TimeUp(p) \/ Crash(p)
      PROVE  IInv'
  BY <1>1, <1>2, StartInv, CycleFailsInv, GenerationFailsInv, FaultInv, LoopInv
<1> QED
  BY <1>2, OperatorInv, StutterInv DEF Next

-----------------------------------------------------------------------------
(* The theorems *)

\* What holds of the tables and of every worker, whatever it has cached.
THEOREM Inductive == Spec => []IInv
  BY InitInv, NextInv, PTL DEF Spec

\* TypeOK: the tables and what the processes have read of them keep their types;
\* above all a verdict is never written to a row that is not there (_evaluate_hypothesis).
THEOREM TypeCorrect == Spec => []TypeOK
<1>1. IInv => TypeOK
  BY DEF IInv
<1> QED
  BY <1>1, Inductive, PTL

\* EmergencyHonouredWithinBatch: a process that goes on during an emergency stop
\* registers no more than the batch it was in, for its next cycle opens with a
\* health check that reads the row (run_health_check, run_cycle).
THEOREM StopHonoured == Spec => []EmergencyHonouredWithinBatch
<1>1. IInv => EmergencyHonouredWithinBatch
  <2> SUFFICES ASSUME IInv, row = "EMERGENCY_STOPPED", NEW p \in Proc
               PROVE  late[p] <= BatchSize
    BY DEF EmergencyHonouredWithinBatch
  <2>1. late[p] + Rest(worker[p]) <= BatchSize /\ late[p] \in Nat
    BY DEF IInv, WithinBatch, TypeOK
  <2> QED
    BY <2>1, RestsFit, Bounds
<1> QED
  BY <1>1, Inductive, PTL

\* VerdictIsCreators: processes may number their hypotheses alike, and the one
\* that loses the INSERT never judges the other's strategy
\* (initialize_strategy_state).
THEOREM VerdictsOwned == Spec => []VerdictIsCreators
<1>1. IInv => VerdictIsCreators
  BY DEF IInv
<1> QED
  BY <1>1, Inductive, PTL

-----------------------------------------------------------------------------
(* Rules are tested once, when campaigns follow one another *)

InCycle(w) == w.stage \in {"evaluating", "registering", "initializing", "judging"}

\* The hypotheses of the batch from k on are still to be tested, each once.
Untested(w, k) ==
  \A i, j \in k .. Len(w.batch) :
    w.batch[i].rule \notin w.tried /\ (i # j => w.batch[i].rule # w.batch[j].rule)

TestedOver(table, d) ==
  { table[i].rule : i \in { n \in Id : table[n] # NoExperiment /\ table[n].dataset = d } }

\* What a process takes for tried covers the experiments over its dataset, and
\* nothing of what is ahead of it in the batch.
Fresh(w, table) ==
  /\ InCycle(w) => w.loaded
  /\ w.loaded => TestedOver(table, w.dataset) \subseteq w.tried
  /\ w.stage = "evaluating" => Untested(w, 1)
  /\ InCycle(w) => Untested(w, 2)
  /\ w.stage = "registering" =>
       /\ w.batch[1].rule \in w.tried
       /\ w.batch[1].rule \notin TestedOver(table, w.dataset)

\* A process that is not in the middle of a cycle.
LEMMA FreshOutside ==
  ASSUME NEW table, NEW w, Fresh(w, table), NEW v, ~ InCycle(v),
         v.loaded => w.loaded /\ v.tried = w.tried /\ v.dataset = w.dataset
  PROVE  Fresh(v, table)
<1>1. v.stage # "evaluating" /\ v.stage # "registering"
  BY DEF InCycle
<1> QED
  BY <1>1 DEF Fresh

\* A hypothesis is over.
LEMMA FreshTail ==
  ASSUME NEW table, NEW w \in Worker, Fresh(w, table), InCycle(w), w.batch # << >>,
         NEW v, v.stage = "evaluating", v.batch = Tail(w.batch),
         v.loaded = w.loaded, v.tried = w.tried, v.dataset = w.dataset
  PROVE  Fresh(v, table)
<1>1. w.batch \in Seq(Hypothesis)
  BY DEF Worker
<1>2. /\ Len(v.batch) = Len(w.batch) - 1 /\ Len(w.batch) \in Nat
      /\ \A i \in 1 .. Len(w.batch) - 1 : v.batch[i] = w.batch[i + 1]
  BY <1>1, TailOfBatch
<1>3. Untested(v, 1) /\ Untested(v, 2)
  <2>1. ASSUME NEW i \in 1 .. Len(v.batch), NEW j \in 1 .. Len(v.batch)
        PROVE  /\ v.batch[i].rule \notin v.tried
               /\ i # j => v.batch[i].rule # v.batch[j].rule
    <3>1. i + 1 \in 2 .. Len(w.batch) /\ j + 1 \in 2 .. Len(w.batch)
      BY <1>2
    <3>2. v.batch[i] = w.batch[i + 1] /\ v.batch[j] = w.batch[j + 1]
      BY <1>2
    <3> QED
      BY <3>1, <3>2 DEF Fresh, Untested
  <2>2. Len(v.batch) \in Int
    BY <1>2
  <2> QED
    BY <2>1, <2>2 DEF Untested
<1> QED
  BY <1>3 DEF Fresh, InCycle

LEMMA GotoIs ==
  ASSUME TypeOK, NEW p \in Proc, NEW w, Goto(p, w) PROVE worker'[p] = w
  BY DEF TypeOK, Goto

\* Its memory of the rules tried is what the process had, and no cycle is on.
Apart(v, w) ==
  ~ InCycle(v) /\ (v.loaded => w.loaded /\ v.tried = w.tried /\ v.dataset = w.dataset)

LEMMA ApartIf ==
  ASSUME NEW v, NEW w, ~ InCycle(v),
         v.loaded = w.loaded /\ v.tried = w.tried /\ v.dataset = w.dataset
  PROVE  Apart(v, w)
  BY Zenon DEF Apart

LEMMA RaiseOutside ==
  ASSUME IInv, NEW p \in Proc, NEW w \in Worker, Raise(p, w)
  PROVE  Apart(worker'[p], w)
<1>1. PICK v : v = [w EXCEPT !.stage = IF w.errors + 1 >= MaxRetries THEN "pausing" ELSE "loop",
                             !.batch = << >>, !.failed = 0, !.errors = Count(@ + 1)]
  OBVIOUS
<1>2. worker'[p] = v
  <2>1. Goto(p, v)
    BY <1>1 DEF Raise
  <2> QED
    BY <2>1, GotoIs DEF IInv
<1>3. /\ v.stage \in {"pausing", "loop"} /\ v.loaded = w.loaded /\ v.tried = w.tried
      /\ v.dataset = w.dataset
  BY <1>1 DEF Worker
<1>4. ~ InCycle(v)
  BY <1>3 DEF InCycle
<1> QED
  BY <1>2, <1>3, <1>4, ApartIf

LEMMA LeavesAlone ==
  ASSUME IInv, NEW p \in Proc, NEW v, Goto(p, v), ~ InCycle(v),
         v.loaded = worker[p].loaded /\ v.tried = worker[p].tried
           /\ v.dataset = worker[p].dataset
  PROVE  Apart(worker'[p], worker[p])
<1>1. worker'[p] = v
  BY GotoIs DEF IInv
<1> QED
  BY <1>1, ApartIf

LEMMA Forgets ==
  ASSUME IInv, NEW p \in Proc, NEW v, Goto(p, v), ~ InCycle(v), v.loaded = FALSE
  PROVE  Apart(worker'[p], worker[p])
<1>1. worker'[p] = v
  BY GotoIs DEF IInv
<1> QED
  BY <1>1, Zenon DEF Apart

LEMMA EndsOutside ==
  ASSUME IInv, NEW p \in Proc, Goto(p, Off) PROVE Apart(worker'[p], worker[p])
<1>1. Off.loaded = FALSE /\ ~ InCycle(Off)
  BY DEF Off, InCycle
<1> QED
  BY <1>1, Forgets

LEMMA OutsideFresh ==
  ASSUME IInv, NEW p \in Proc, Fresh(worker[p], experiment),
         \/ StartRuntime(p) \/ ReadStrategySequence(p) \/ FinishCampaign(p) \/ TimeUp(p)
         \/ NextCycle(p) \/ BeginRunning(p) \/ CycleFails(p) \/ Pause(p) \/ Crash(p)
         \/ FinishCycle(p)
  PROVE  UNCHANGED experiment /\ Fresh(worker'[p], experiment)
<1>1. UNCHANGED experiment
  BY DEF StartRuntime, ReadStrategySequence, FinishCampaign, TimeUp, NextCycle, BeginRunning,
         CycleFails, Pause, Crash, FinishCycle, tables
<1>2. Apart(worker'[p], worker[p])
  <2>1. CASE Goto(p, Off)
    BY <2>1, EndsOutside
  <2>2. CASE StartRuntime(p)
    <3>1. PICK d, n : Goto(p, [Off EXCEPT !.stage = "numbering", !.snapshot = row,
                                          !.dataset = d, !.experimentSeq = n])
      BY <2>2 DEF StartRuntime
    <3>2. PICK v : v = [Off EXCEPT !.stage = "numbering", !.snapshot = row,
                                   !.dataset = d, !.experimentSeq = n]
      OBVIOUS
    <3>3. v.stage = "numbering" /\ v.loaded = FALSE
      BY <3>2 DEF Off
    <3> QED
      BY <3>1, <3>2, <3>3, Forgets DEF InCycle
  <2>3. CASE ReadStrategySequence(p)
    <3>1. PICK v : v = [worker[p] EXCEPT !.stage = "loop",
                                         !.strategySeq = Latest(strategy, NoRow)]
      OBVIOUS
    <3>2. Goto(p, v)
      BY <2>3, <3>1 DEF ReadStrategySequence
    <3>3. /\ v.stage = "loop" /\ v.loaded = worker[p].loaded /\ v.tried = worker[p].tried
          /\ v.dataset = worker[p].dataset
      BY <3>1, WorkerIs DEF Worker
    <3> QED
      BY <3>2, <3>3, LeavesAlone DEF InCycle
  <2>4. CASE FinishCycle(p)
    <3>1. PICK v : v = [worker[p] EXCEPT !.stage = "loop", !.failed = 0,
                                         !.errors = Count(@ + worker[p].failed)]
      OBVIOUS
    <3>2. Goto(p, v)
      BY <2>4, <3>1 DEF FinishCycle
    <3>3. /\ v.stage = "loop" /\ v.loaded = worker[p].loaded /\ v.tried = worker[p].tried
          /\ v.dataset = worker[p].dataset
      BY <3>1, WorkerIs DEF Worker
    <3> QED
      BY <3>2, <3>3, LeavesAlone DEF InCycle
  <2>5. CASE NextCycle(p) /\ ~ Goto(p, Off)
    <3>1. PICK v : v = [worker[p] EXCEPT !.stage =
                          IF worker[p].snapshot = "IDLE" THEN "starting" ELSE "generating"]
      OBVIOUS
    <3>2. Goto(p, v)
      BY <2>5, <3>1 DEF NextCycle, EndCampaign
    <3>3. /\ v.stage \in {"starting", "generating"} /\ v.loaded = worker[p].loaded
          /\ v.tried = worker[p].tried /\ v.dataset = worker[p].dataset
      BY <3>1, WorkerIs DEF Worker
    <3> QED
      BY <3>2, <3>3, LeavesAlone DEF InCycle
  <2>6. CASE BeginRunning(p) /\ ValidSystemTransition(row, "RUNNING")
    <3>1. PICK v : v = [worker[p] EXCEPT !.stage = "generating", !.snapshot = "RUNNING"]
      OBVIOUS
    <3>2. Goto(p, v)
      BY <2>6, <3>1 DEF BeginRunning
    <3>3. /\ v.stage = "generating" /\ v.loaded = worker[p].loaded
          /\ v.tried = worker[p].tried /\ v.dataset = worker[p].dataset
      BY <3>1, WorkerIs DEF Worker
    <3> QED
      BY <3>2, <3>3, LeavesAlone DEF InCycle
  <2>7. CASE BeginRunning(p) /\ ~ ValidSystemTransition(row, "RUNNING")
    <3>1. PICK w : w = [worker[p] EXCEPT !.snapshot = row]
      OBVIOUS
    <3>2. Raise(p, w)
      BY <2>7, <3>1 DEF BeginRunning
    <3>3. /\ w \in Worker /\ w.loaded = worker[p].loaded /\ w.tried = worker[p].tried
          /\ w.dataset = worker[p].dataset
      BY <3>1, WorkerIs DEF Worker
    <3>4. Apart(worker'[p], w)
      BY <3>2, <3>3, RaiseOutside
    <3> QED
      BY <3>3, <3>4, Zenon DEF Apart
  <2>8. CASE CycleFails(p)
    BY <2>8, RaiseOutside, WorkerIs DEF CycleFails
  <2> QED
    BY <2>1, <2>2, <2>3, <2>4, <2>5, <2>6, <2>7, <2>8
       DEF FinishCampaign, TimeUp, Pause, Crash, EndCampaign
<1>3. Fresh(worker'[p], experiment)
  BY <1>2, FreshOutside, Zenon DEF Apart
<1> QED
  BY <1>1, <1>3

\* What a campaign has in memory, or loads, covers the table.
LEMMA TriedCovers ==
  ASSUME IInv, NEW p \in Proc, Fresh(worker[p], experiment), worker[p].dataset \in Dataset
  PROVE  TestedOver(experiment, worker[p].dataset) \subseteq Tried(p)
<1>1. CASE worker[p].loaded
  BY <1>1 DEF Fresh, Tried
<1>2. CASE ~ worker[p].loaded
  <2>1. ASSUME NEW i \in Id, experiment[i] # NoExperiment,
               experiment[i].dataset = worker[p].dataset
        PROVE  experiment[i].rule \in LoadTried(worker[p].dataset)
    <3>1. experiment[i] \in ExperimentRow
      BY <2>1 DEF IInv, TypeOK
    <3>2. <<worker[p].dataset, experiment[i].dataset>> \in Prefix
      BY <2>1, PrefixAssumption
    <3> QED
      BY <3>1, <3>2 DEF LoadTried, ExperimentRow
  <2>2. Tried(p) = LoadTried(worker[p].dataset)
    BY <1>2, Zenon DEF Tried
  <2> QED
    BY <2>1, <2>2 DEF TestedOver
<1> QED
  BY <1>1, <1>2

LEMMA GenerateFresh ==
  ASSUME IInv, NEW p \in Proc, Fresh(worker[p], experiment), GenerateHypotheses(p)
  PROVE  UNCHANGED experiment /\ Fresh(worker'[p], experiment)
<1>1. PICK last : last = worker[p].strategySeq
  OBVIOUS
<1>2. PICK tried : tried = Tried(p)
  OBVIOUS
<1>3. last \in 0 .. MaxId /\ tried \in SUBSET Rule
  BY <1>1, <1>2, TriedType, WorkerIs DEF Worker
<1>4. PICK rules \in Batches(tried) :
        /\ last + Len(rules) <= MaxId
        /\ Goto(p, [worker[p] EXCEPT
             !.stage = "evaluating", !.loaded = TRUE, !.tried = tried,
             !.strategySeq = last + Len(rules),
             !.batch = [ i \in 1 .. Len(rules) |->
                           [ strategy |-> last + i, rule |-> rules[i] ] ]])
  BY <1>1, <1>2 DEF GenerateHypotheses
<1>5. PICK n : n = Len(rules)
  OBVIOUS
<1>6. /\ n \in Nat /\ rules \in [1 .. n -> Rule \ tried]
      /\ \A i, j \in 1 .. n : i < j => rules[i] < rules[j]
  BY <1>5, BatchIs, Bounds
<1>7. PICK b : b = [ i \in 1 .. n |-> [ strategy |-> last + i, rule |-> rules[i] ] ]
  OBVIOUS
<1>8. Len(b) = n /\ \A i \in 1 .. n : b[i].rule = rules[i]
  BY <1>3, <1>4, <1>5, <1>6, <1>7, HypothesesAre
<1>9. PICK v : v = [worker[p] EXCEPT !.stage = "evaluating", !.loaded = TRUE, !.tried = tried,
                                    !.strategySeq = last + n, !.batch = b]
  OBVIOUS
<1>10. worker'[p] = v
  <2>1. Goto(p, v)
    BY <1>4, <1>5, <1>7, <1>9
  <2> QED
    BY <2>1, GotoIs DEF IInv
<1>11. /\ v.stage = "evaluating" /\ v.loaded = TRUE /\ v.tried = tried /\ v.batch = b
       /\ v.dataset = worker[p].dataset
  BY <1>9, WorkerIs DEF Worker
<1>12. Untested(v, 1) /\ Untested(v, 2)
  <2>1. ASSUME NEW i \in 1 .. n, NEW j \in 1 .. n
        PROVE  b[i].rule \notin tried /\ (i # j => b[i].rule # b[j].rule)
    <3>1. rules[i] \in Rule \ tried /\ rules[j] \in Rule
      BY <1>6
    <3>2. i # j => rules[i] # rules[j]
      <4>1. rules[i] \in Nat /\ rules[j] \in Nat
        BY <3>1, Bounds DEF Rule
      <4>2. i # j => i < j \/ j < i
        BY <1>6
      <4> QED
        BY <1>6, <4>1, <4>2
    <3> QED
      BY <1>8, <3>1, <3>2
  <2> QED
    BY <1>6, <1>8, <1>11, <2>1 DEF Untested
<1>13. TestedOver(experiment, v.dataset) \subseteq v.tried
  <2>1. worker[p].dataset \in Dataset
    BY WorkerIs DEF Sound, GenerateHypotheses, At
  <2> QED
    BY <1>2, <1>11, <2>1, TriedCovers
<1>14. UNCHANGED experiment
  BY DEF GenerateHypotheses, tables
<1>15. Fresh(v, experiment)
  BY <1>11, <1>12, <1>13, Zenon DEF Fresh
<1> QED
  BY <1>10, <1>14, <1>15

\* What a numbering that fails has read covers the table too.
LEMMA GenerationFailsFresh ==
  ASSUME IInv, NEW p \in Proc, Fresh(worker[p], experiment), GenerationFails(p)
  PROVE  UNCHANGED experiment /\ Fresh(worker'[p], experiment)
<1>1. PICK w \in Worker :
        /\ Raise(p, w)
        /\ w.stage = "generating" /\ w.dataset = worker[p].dataset
        /\ w.loaded /\ w.tried = Tried(p)
  BY GenerationFailsIs
<1>2. worker[p].dataset \in Dataset /\ UNCHANGED experiment
  BY WorkerIs DEF Sound, GenerationFails, At, tables
<1>3. TestedOver(experiment, w.dataset) \subseteq w.tried
  BY <1>1, <1>2, TriedCovers
<1>4. w.stage # "evaluating" /\ w.stage # "registering" /\ ~ InCycle(w)
  BY <1>1 DEF InCycle
<1>5. Fresh(w, experiment)
  BY <1>3, <1>4, Zenon DEF Fresh
<1>6. Apart(worker'[p], w)
  BY <1>1, RaiseOutside
<1> QED
  BY <1>2, <1>5, <1>6, FreshOutside, Zenon DEF Apart

LEMMA SkipFresh ==
  ASSUME IInv, NEW p \in Proc, Fresh(worker[p], experiment), InCycle(worker[p]),
         worker[p].batch # << >>,
         NEW v, Goto(p, v), v.stage = "evaluating", v.batch = Tail(worker[p].batch),
         v.loaded = worker[p].loaded, v.tried = worker[p].tried,
         v.dataset = worker[p].dataset
  PROVE  Fresh(worker'[p], experiment)
<1>1. PICK w : w = worker[p]
  OBVIOUS
<1>2. /\ w \in Worker /\ Fresh(w, experiment) /\ InCycle(w) /\ w.batch # << >>
      /\ v.batch = Tail(w.batch) /\ v.loaded = w.loaded /\ v.tried = w.tried
      /\ v.dataset = w.dataset
  BY <1>1, WorkerIs
<1>3. Fresh(v, experiment)
  BY <1>2, FreshTail
<1>4. worker'[p] = v
  BY GotoIs DEF IInv
<1> QED
  BY <1>3, <1>4

\* Skip, of the process as it is or with another identifier counted.
LEMMA SkippedFresh ==
  ASSUME IInv, NEW p \in Proc, Fresh(worker[p], experiment), InCycle(worker[p]),
         worker[p].batch # << >>, NEW n,
         Skip(p, [worker[p] EXCEPT !.experimentSeq = n])
  PROVE  Fresh(worker'[p], experiment)
<1>1. PICK v : v = [[worker[p] EXCEPT !.experimentSeq = n]
                      EXCEPT !.stage = "evaluating", !.batch = Tail(@), !.failed = Count(@ + 1)]
  OBVIOUS
<1>2. Goto(p, v)
  BY <1>1 DEF Skip
<1>3. /\ v.stage = "evaluating" /\ v.batch = Tail(worker[p].batch)
      /\ v.loaded = worker[p].loaded /\ v.tried = worker[p].tried
      /\ v.dataset = worker[p].dataset
  BY <1>1, WorkerIs DEF Worker
<1> QED
  BY <1>2, <1>3, SkipFresh

LEMMA SkippedAsIs ==
  ASSUME IInv, NEW p \in Proc, Fresh(worker[p], experiment),
         worker[p].stage \in {"registering", "initializing", "judging"}, Skip(p, worker[p])
  PROVE  Fresh(worker'[p], experiment)
<1>1. worker[p].batch # << >> /\ InCycle(worker[p])
  BY WorkerIs DEF Sound, InCycle
<1>2. PICK n : n = worker[p].experimentSeq
  OBVIOUS
<1>3. worker[p] = [worker[p] EXCEPT !.experimentSeq = n]
  BY <1>2, WorkerIs DEF Worker
<1>4. Skip(p, [worker[p] EXCEPT !.experimentSeq = n])
  BY <1>3
<1> QED
  BY <1>1, <1>4, SkippedFresh

\* The permission is where a rule comes to count as tried.
LEMMA RequestFresh ==
  ASSUME IInv, NEW p \in Proc, Fresh(worker[p], experiment), RequestPermission(p)
  PROVE  UNCHANGED experiment /\ Fresh(worker'[p], experiment)
<1>1. /\ worker[p].stage = "evaluating" /\ worker[p].batch # << >> /\ UNCHANGED experiment
  BY DEF RequestPermission, At, tables
<1>2. PICK n : n = worker[p].experimentSeq + 1
  OBVIOUS
<1>3. [worker[p] EXCEPT !.experimentSeq = @ + 1] = [worker[p] EXCEPT !.experimentSeq = n]
  BY <1>2
<1>4. CASE ~ Granted(p)
  <2>1. Skip(p, [worker[p] EXCEPT !.experimentSeq = n])
    BY <1>3, <1>4 DEF RequestPermission
  <2> QED
    BY <1>1, <2>1, SkippedFresh DEF InCycle
<1>5. CASE Granted(p)
  <2>1. PICK r : r = worker[p].batch[1].rule
    OBVIOUS
  <2>2. /\ Current(p).rule = r /\ worker[p].batch \in Seq(Hypothesis)
        /\ Len(worker[p].batch) \in Nat \ {0}
    BY <1>1, <2>1, WorkerIs, TailOfBatch DEF Current
  <2>3. PICK v : v = [[worker[p] EXCEPT !.experimentSeq = n]
                        EXCEPT !.stage = "registering", !.tried = @ \cup {r}]
    OBVIOUS
  <2>4. Goto(p, v)
    BY <1>3, <1>5, <2>2, <2>3 DEF RequestPermission
  <2>5. /\ v.stage = "registering" /\ v.batch = worker[p].batch
        /\ v.loaded = worker[p].loaded /\ v.tried = worker[p].tried \cup {r}
        /\ v.dataset = worker[p].dataset
    BY <2>3, WorkerIs DEF Worker
  <2>6. worker'[p] = v
    BY <2>4, GotoIs DEF IInv
  <2>7. worker[p].loaded /\ Untested(worker[p], 1)
    BY <1>1 DEF Fresh, InCycle
  <2>8. TestedOver(experiment, v.dataset) \subseteq worker[p].tried
    BY <2>5, <2>7 DEF Fresh
  <2>9. r \notin worker[p].tried
    BY <2>1, <2>2, <2>7 DEF Untested
  <2>10. Untested(v, 2)
    <3>1. ASSUME NEW i \in 2 .. Len(v.batch), NEW j \in 2 .. Len(v.batch)
          PROVE  v.batch[i].rule \notin v.tried /\ (i # j => v.batch[i].rule # v.batch[j].rule)
      <4>1. /\ i \in 1 .. Len(worker[p].batch) /\ j \in 1 .. Len(worker[p].batch)
            /\ 1 \in 1 .. Len(worker[p].batch) /\ i # 1
        BY <2>2, <2>5
      <4>2. worker[p].batch[i].rule # r /\ worker[p].batch[i].rule \notin worker[p].tried
        BY <2>1, <2>7, <4>1 DEF Untested
      <4> QED
        BY <2>5, <2>7, <4>1, <4>2 DEF Untested
    <3> QED
      BY <3>1 DEF Untested
  <2>11. InCycle(v) /\ v.stage # "evaluating" /\ v.loaded
    BY <2>5, <2>7 DEF InCycle
  <2>12. /\ TestedOver(experiment, v.dataset) \subseteq v.tried
         /\ v.batch[1].rule \in v.tried
         /\ v.batch[1].rule \notin TestedOver(experiment, v.dataset)
    BY <2>1, <2>5, <2>8, <2>9
  <2>13. Fresh(v, experiment)
    BY <2>10, <2>11, <2>12, Zenon DEF Fresh
  <2> QED
    BY <1>1, <2>6, <2>13
<1> QED
  BY <1>4, <1>5

LEMMA JudgeFresh ==
  ASSUME IInv, NEW p \in Proc, Fresh(worker[p], experiment),
         \/ InitializeStrategyState(p) \/ EvaluationFails(p)
         \/ RejectVague(p) \/ ReturnUntraded(p) \/ Decide(p)
  PROVE  UNCHANGED experiment /\ Fresh(worker'[p], experiment)
<1>1. CASE EvaluationFails(p)
  <2>1. UNCHANGED experiment
    BY <1>1 DEF EvaluationFails, tables
  <2>2. CASE /\ worker[p].stage \in {"registering", "initializing", "judging"}
             /\ Skip(p, worker[p])
    BY <2>1, <2>2, SkippedAsIs
  <2>3. CASE /\ worker[p].stage = "evaluating" /\ worker[p].batch # << >>
             /\ Skip(p, [worker[p] EXCEPT !.experimentSeq = @ + 1])
    <3>1. PICK n : n = worker[p].experimentSeq + 1
      OBVIOUS
    <3>2. Skip(p, [worker[p] EXCEPT !.experimentSeq = n])
      BY <2>3, <3>1
    <3> QED
      BY <2>1, <2>3, <3>2, SkippedFresh DEF InCycle
  <2> QED
    BY <1>1, <2>2, <2>3 DEF EvaluationFails, At
<1>2. CASE InitializeStrategyState(p)
  <2>1. worker[p].stage = "initializing" /\ UNCHANGED experiment
    BY <1>2 DEF InitializeStrategyState, At
  <2>2. CASE Skip(p, worker[p])
    BY <2>1, <2>2, SkippedAsIs
  <2>3. CASE Goto(p, [worker[p] EXCEPT !.stage = "judging"])
    <3>1. PICK v : v = [worker[p] EXCEPT !.stage = "judging"]
      OBVIOUS
    <3>2. /\ v.stage = "judging" /\ v.batch = worker[p].batch /\ v.loaded = worker[p].loaded
          /\ v.tried = worker[p].tried /\ v.dataset = worker[p].dataset
      BY <3>1, WorkerIs DEF Worker
    <3>3. /\ worker[p].loaded /\ Untested(worker[p], 2)
          /\ TestedOver(experiment, worker[p].dataset) \subseteq worker[p].tried
      BY <2>1 DEF Fresh, InCycle
    <3>4. /\ v.loaded /\ Untested(v, 2)
          /\ TestedOver(experiment, v.dataset) \subseteq v.tried
      <4>1. v.loaded /\ TestedOver(experiment, v.dataset) \subseteq v.tried
        BY <3>2, <3>3, Zenon
      <4> QED
        BY <3>2, <3>3, <4>1 DEF Untested
    <3>5. Fresh(v, experiment)
      <4>1. InCycle(v) /\ v.stage # "evaluating" /\ v.stage # "registering"
        BY <3>2 DEF InCycle
      <4> QED
        BY <3>4, <4>1, Zenon DEF Fresh
    <3>6. worker'[p] = v
      BY <2>3, <3>1, GotoIs DEF IInv
    <3> QED
      BY <2>1, <3>5, <3>6
  <2> QED
    BY <1>2, <2>2, <2>3 DEF InitializeStrategyState
<1>3. ASSUME NEW verdict, Settle(p, verdict)
      PROVE  UNCHANGED experiment /\ Fresh(worker'[p], experiment)
  <2>1. worker[p].stage = "judging" /\ UNCHANGED experiment
    BY <1>3 DEF Settle, At
  <2>2. InCycle(worker[p]) /\ worker[p].batch # << >>
    BY <2>1, WorkerIs DEF InCycle, Sound
  <2>3. PICK v : v = [worker[p] EXCEPT !.stage = "evaluating", !.batch = Tail(@)]
    OBVIOUS
  <2>4. Goto(p, v)
    BY <1>3, <2>3 DEF Settle
  <2>5. /\ v.stage = "evaluating" /\ v.batch = Tail(worker[p].batch)
        /\ v.loaded = worker[p].loaded /\ v.tried = worker[p].tried
        /\ v.dataset = worker[p].dataset
    BY <2>3, WorkerIs DEF Worker
  <2> QED
    BY <2>1, <2>2, <2>4, <2>5, SkipFresh
<1> QED
  BY <1>1, <1>2, <1>3 DEF RejectVague, ReturnUntraded, Decide

\* The one step that writes an experiment: its rule counts as tried, and no
\* experiment over the dataset has it.
LEMMA AppendOnce ==
  ASSUME IInv, NEW p \in Proc, Fresh(worker[p], experiment), NoRuleTestedTwice,
         AppendExperiment(p)
  PROVE  Fresh(worker'[p], experiment') /\ NoRuleTestedTwice'
<1>1. worker[p].stage = "registering"
  BY DEF AppendExperiment, At
<1>2. PICK i : i = worker[p].experimentSeq
  OBVIOUS
<1>3. CASE experiment[i] # NoExperiment /\ Skip(p, worker[p]) /\ UNCHANGED <<experiment, late>>
  BY <1>1, <1>3, SkippedAsIs DEF NoRuleTestedTwice
<1>4. CASE /\ experiment[i] = NoExperiment
           /\ experiment' = [experiment EXCEPT ![i] =
                [ strategy |-> Current(p).strategy, dataset |-> worker[p].dataset,
                  rule |-> Current(p).rule ]]
           /\ Goto(p, [worker[p] EXCEPT !.stage = "initializing"])
  <2>1. PICK r : r = worker[p].batch[1].rule
    OBVIOUS
  <2>2. PICK d : d = worker[p].dataset
    OBVIOUS
  <2>3. PICK e : e = [ strategy |-> Current(p).strategy, dataset |-> d, rule |-> r ]
    OBVIOUS
  <2>4. Current(p).rule = r
    BY <1>1, <2>1, WorkerIs, TailOfBatch DEF Sound, Current
  <2>5. experiment' = [experiment EXCEPT ![i] = e] /\ e.dataset = d /\ e.rule = r
    BY <1>4, <2>2, <2>3, <2>4
  <2>6. \A n \in Id : experiment'[n] = IF n = i THEN e ELSE experiment[n]
    BY <2>5 DEF IInv, TypeOK
  <2>7. /\ worker[p].loaded /\ Untested(worker[p], 2)
        /\ TestedOver(experiment, d) \subseteq worker[p].tried
        /\ r \in worker[p].tried /\ r \notin TestedOver(experiment, d)
    BY <1>1, <2>1, <2>2 DEF Fresh, InCycle
  <2>8. ASSUME NEW n \in Id, n # i, experiment[n] # NoExperiment, experiment[n].dataset = d
        PROVE  experiment[n].rule # r
    BY <2>7, <2>8 DEF TestedOver
  <2>9. NoRuleTestedTwice'
    <3>1. ASSUME NEW m \in Id, NEW n \in Id, m # n,
                 experiment'[m] # NoExperiment, experiment'[n] # NoExperiment,
                 experiment'[m].dataset = experiment'[n].dataset
          PROVE  experiment'[m].rule # experiment'[n].rule
      <4>1. CASE m = i
        BY <2>5, <2>6, <2>8, <3>1, <4>1
      <4>2. CASE n = i
        BY <2>5, <2>6, <2>8, <3>1, <4>2
      <4>3. CASE m # i /\ n # i
        BY <2>6, <3>1, <4>3 DEF NoRuleTestedTwice
      <4> QED
        BY <4>1, <4>2, <4>3
    <3> QED
      BY <3>1 DEF NoRuleTestedTwice
  <2>10. TestedOver(experiment', d) \subseteq worker[p].tried
    <3>1. ASSUME NEW n \in Id, experiment'[n] # NoExperiment, experiment'[n].dataset = d
          PROVE  experiment'[n].rule \in worker[p].tried
      <4>1. CASE n = i
        BY <2>5, <2>6, <2>7, <4>1
      <4>2. CASE n # i
        <5>1. experiment[n] # NoExperiment /\ experiment[n].dataset = d
              /\ experiment'[n].rule = experiment[n].rule
          BY <2>6, <3>1, <4>2
        <5>2. experiment[n].rule \in TestedOver(experiment, d)
          BY <5>1 DEF TestedOver
        <5> QED
          BY <2>7, <5>1, <5>2
      <4> QED
        BY <4>1, <4>2
    <3> QED
      BY <3>1 DEF TestedOver
  <2>11. PICK v : v = [worker[p] EXCEPT !.stage = "initializing"]
    OBVIOUS
  <2>12. /\ v.stage = "initializing" /\ v.batch = worker[p].batch
         /\ v.loaded = worker[p].loaded /\ v.tried = worker[p].tried
         /\ v.dataset = worker[p].dataset
    BY <2>11, WorkerIs DEF Worker
  <2>13. PICK table : table = experiment'
    OBVIOUS
  <2>14. Fresh(v, table)
    <3>1. v.loaded /\ TestedOver(table, v.dataset) \subseteq v.tried
      BY <2>2, <2>7, <2>10, <2>12, <2>13, Zenon
    <3>2. Untested(v, 2)
      BY <2>7, <2>12 DEF Untested
    <3>3. InCycle(v) /\ v.stage # "evaluating" /\ v.stage # "registering"
      BY <2>12 DEF InCycle
    <3> QED
      BY <3>1, <3>2, <3>3, Zenon DEF Fresh
  <2>15. worker'[p] = v
    BY <1>4, <2>11, GotoIs DEF IInv
  <2> QED
    BY <2>9, <2>13, <2>14, <2>15
<1> QED
  BY <1>2, <1>3, <1>4 DEF AppendExperiment

OnceInv ==
  /\ IInv
  /\ NoRuleTestedTwice
  /\ \A p \in Proc : Fresh(worker[p], experiment)

LEMMA InitOnce == Init => OnceInv
<1> SUFFICES ASSUME Init PROVE OnceInv
  OBVIOUS
<1>1. NoRuleTestedTwice
  BY DEF Init, NoRuleTestedTwice
<1>2. Fresh(Off, experiment)
  <2>1. ~ InCycle(Off) /\ Off.stage # "evaluating" /\ Off.stage # "registering"
        /\ Off.loaded = FALSE
    BY DEF Off, InCycle
  <2> QED
    BY <2>1, Zenon DEF Fresh
<1>3. \A p \in Proc : worker[p] = Off
  BY DEF Init
<1> QED
  BY <1>1, <1>2, <1>3, InitInv DEF OnceInv

LEMMA NextOnce ==
  ASSUME \A p, q \in Proc : p = q, OnceInv, [Next]_vars PROVE OnceInv'
<1>1. IInv /\ IInv'
  BY NextInv DEF OnceInv
<1>2. CASE UNCHANGED <<worker, experiment>>
  BY <1>1, <1>2 DEF OnceInv, NoRuleTestedTwice, Fresh, InCycle, Untested, TestedOver
<1>3. ASSUME NEW p \in Proc,
             UNCHANGED experiment /\ Fresh(worker'[p], experiment)
      PROVE  OnceInv'
  <2>1. NoRuleTestedTwice'
    BY <1>3 DEF OnceInv, NoRuleTestedTwice
  <2>2. PICK table : table = experiment /\ table = experiment'
    BY <1>3
  <2>3. \A q \in Proc : Fresh(worker'[q], table)
    BY <1>3, <2>2
  <2>4. \A q \in Proc : Fresh(worker'[q], experiment')
    BY <2>2, <2>3
  <2> QED
    BY <1>1, <2>1, <2>4 DEF OnceInv, Fresh, InCycle, Untested, TestedOver
<1>4. ASSUME NEW p \in Proc, AppendExperiment(p) PROVE OnceInv'
  <2>1. Fresh(worker'[p], experiment') /\ NoRuleTestedTwice'
    BY <1>4, AppendOnce DEF OnceInv
  <2>2. \A q \in Proc : Fresh(worker'[q], experiment')
    BY <2>1
  <2> QED
    BY <1>1, <2>1, <2>2 DEF OnceInv, Fresh, InCycle, Untested, TestedOver
<1>5. ASSUME NEW p \in Proc,
             \/ StartRuntime(p) \/ Work(p)
             \/ CycleFails(p) \/ GenerationFails(p) \/ EvaluationFails(p)
             \/ TimeUp(p) \/ Crash(p)
      PROVE  OnceInv'
  <2>1. IInv /\ Fresh(worker[p], experiment)
    BY DEF OnceInv
  <2>2. CASE AppendExperiment(p)
    BY <1>4, <2>2
  <2>3. CASE ~ AppendExperiment(p)
    <3>1. UNCHANGED experiment /\ Fresh(worker'[p], experiment)
      BY <1>5, <2>1, <2>3, OutsideFresh, GenerateFresh, GenerationFailsFresh, RequestFresh,
         JudgeFresh DEF Work
    <3> QED
      BY <1>3, <3>1
  <2> QED
    BY <2>2, <2>3
<1>6. CASE EmergencyStop \/ ClearEmergencyStop \/ Stop \/ Reset
  BY <1>2, <1>6 DEF EmergencyStop, ClearEmergencyStop, Stop, Reset, Command, tables
<1> QED
  BY <1>2, <1>5, <1>6 DEF Next, vars, tables

\* NoRuleTestedTwice: a campaign that is stopped, killed or failed anywhere and
\* started again tests no rule over a dataset twice, as long as there is one at
\* a time (_load_tried_signatures, _evaluate_hypothesis).
THEOREM TestedOnce ==
  ASSUME \A p, q \in Proc : p = q
  PROVE  Spec => []NoRuleTestedTwice
<1>1. OnceInv /\ [Next]_vars => OnceInv'
  BY NextOnce
<1>2. OnceInv => NoRuleTestedTwice
  BY DEF OnceInv
<1> QED
  BY <1>1, <1>2, InitOnce, PTL DEF Spec
=============================================================================
