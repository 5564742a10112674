------------------------- MODULE StrategyPipelineProofs -------------------------
(***************************************************************************)
(* Proofs about StrategyPipeline, for any sets of processes, strategies    *)
(* and requests, and any policy given to the managers.                     *)
(***************************************************************************)
EXTENDS StrategyPipeline, TLAPS

-----------------------------------------------------------------------------
(* The inductive invariant *)

\* A transition on its way was validated against the status it loaded.
PendingLegal ==
  \A p \in Proc :
    op[p].stage \in {"approving", "transitioning"}
      => ValidStrategyTransition(op[p].expected, op[p].target)

\* Only a pending request has no decider.
Decided ==
  \A r \in Request :
    promotion[r].status \in {"APPROVED", "REJECTED"} => promotion[r].decider = "HUMAN"

IInv ==
  /\ TypeOK
  /\ PendingLegal
  /\ Decided
  /\ NoStageSkipped
  /\ RequestsFollowReview
  /\ RolesSeparated

-----------------------------------------------------------------------------
(* The vocabulary *)

\* The pipeline has nine different stages, none of them a discard.
LEMMA Stages ==
  /\ Len(STRATEGY_SEQUENCE) = 9
  /\ \A i, j \in 1 .. 9 : STRATEGY_SEQUENCE[i] = STRATEGY_SEQUENCE[j] => i = j
  /\ \A i \in 1 .. 9 : STRATEGY_SEQUENCE[i] \notin Discarded \cup {None}
  /\ \A i \in 1 .. 9 : STRATEGY_SEQUENCE[i] \in StrategyStatus
  /\ STRATEGY_SEQUENCE[1] = "IDEA"
  /\ STRATEGY_SEQUENCE[8] = "HUMAN_REVIEW"
  /\ STRATEGY_SEQUENCE[9] = "REAL"
  /\ Discarded \subseteq StrategyStatus
  /\ None \notin StrategyStatus
<1>1. /\ Len(STRATEGY_SEQUENCE) = 9
      /\ STRATEGY_SEQUENCE[1] = "IDEA"
      /\ STRATEGY_SEQUENCE[2] = "BACKTEST"
      /\ STRATEGY_SEQUENCE[3] = "VALIDATION"
      /\ STRATEGY_SEQUENCE[4] = "OUT_OF_SAMPLE"
      /\ STRATEGY_SEQUENCE[5] = "MONTE_CARLO"
      /\ STRATEGY_SEQUENCE[6] = "DEMO_CANDIDATE"
      /\ STRATEGY_SEQUENCE[7] = "DEMO"
      /\ STRATEGY_SEQUENCE[8] = "HUMAN_REVIEW"
      /\ STRATEGY_SEQUENCE[9] = "REAL"
  BY DEF STRATEGY_SEQUENCE
<1>2. \A i \in 1 .. 9 : i \in {1, 2, 3, 4, 5, 6, 7, 8, 9}
  OBVIOUS
<1>3. \A i, j \in 1 .. 9 : STRATEGY_SEQUENCE[i] = STRATEGY_SEQUENCE[j] => i = j
  BY <1>1, <1>2
<1>4. \A i \in 1 .. 9 : STRATEGY_SEQUENCE[i] \notin Discarded \cup {None}
  BY <1>1, <1>2 DEF Discarded, None
<1>5. /\ \A i \in 1 .. 9 : STRATEGY_SEQUENCE[i] \in StrategyStatus
      /\ Discarded \subseteq StrategyStatus
  BY <1>1 DEF StrategyStatus
<1>6. None \notin StrategyStatus
  BY <1>1, <1>4 DEF StrategyStatus, Discarded, None
<1> QED
  BY <1>1, <1>3, <1>4, <1>5, <1>6

\* The allowlist: one stage up, or a discard.
LEMMA Moves ==
  ASSUME NEW current, NEW target, ValidStrategyTransition(current, target)
  PROVE  /\ \E i \in 1 .. 8 :
              /\ current = STRATEGY_SEQUENCE[i]
              /\ target \in {STRATEGY_SEQUENCE[i + 1]} \cup Discarded
         /\ current \in StrategyStatus \ Discarded
         /\ current # None
         /\ target \in StrategyStatus
<1>1. PICK i \in 1 .. 8 :
         /\ current = STRATEGY_SEQUENCE[i]
         /\ target \in {STRATEGY_SEQUENCE[i + 1]} \cup Discarded
  BY Stages DEF ValidStrategyTransition, STRATEGY_TRANSITIONS
<1>2. i \in 1 .. 9 /\ i + 1 \in 1 .. 9
  OBVIOUS
<1> QED
  BY <1>1, <1>2, Stages

-----------------------------------------------------------------------------
(* What a step may rely on *)

\* A legal write of a row, whose event names the status it replaces, extends the
\* trail of that strategy by one stage.
LEMMA PersistExtends ==
  ASSUME TypeOK, NoStageSkipped,
         NEW s \in Strategy, NEW role \in ActorRole, NEW target,
         NEW previous, previous = strategy[s],
         Persist(s, role, previous, target),
         \/ strategy[s] = None /\ target = "IDEA"
         \/ ValidStrategyTransition(strategy[s], target)
  PROVE  /\ strategy' \in [Strategy -> StrategyStatus \cup {None}]
         /\ trail' \in [Strategy -> Seq(TrailEvent)]
         /\ NoStageSkipped'
         /\ \A q \in Strategy \ {s} : trail'[q] = trail[q]
         /\ Len(trail[s]) \in Nat
         /\ Len(trail'[s]) = Len(trail[s]) + 1
         /\ \A i \in 1 .. Len(trail[s]) : trail'[s][i] = trail[s][i]
         /\ trail'[s][Len(trail[s]) + 1].role = role
<1> DEFINE event == [ role |-> role, previous |-> previous, status |-> target ]
           n == Len(trail[s])
<1>1. target \in StrategyStatus
  BY Stages, Moves
<1>2. /\ strategy' = [strategy EXCEPT ![s] = target]
      /\ trail' = [trail EXCEPT ![s] = Append(trail[s], event)]
  BY DEF Persist
<1>3. /\ strategy \in [Strategy -> StrategyStatus \cup {None}]
      /\ trail \in [Strategy -> Seq(TrailEvent)]
  BY DEF TypeOK
<1>4. /\ strategy' \in [Strategy -> StrategyStatus \cup {None}]
      /\ strategy'[s] = target
      /\ \A q \in Strategy \ {s} : strategy'[q] = strategy[q]
  BY <1>1, <1>2, <1>3
<1>5. event \in TrailEvent
  BY <1>1, <1>3 DEF TrailEvent
<1>6. event.role = role /\ event.previous = strategy[s] /\ event.status = target
  OBVIOUS
<1> HIDE DEF event
<1>7. /\ trail' \in [Strategy -> Seq(TrailEvent)]
      /\ trail'[s] = Append(trail[s], event)
      /\ \A q \in Strategy \ {s} : trail'[q] = trail[q]
  BY <1>2, <1>3, <1>5
<1>8. /\ n \in Nat
      /\ Len(trail'[s]) = n + 1
      /\ trail'[s][n + 1] = event
      /\ \A i \in 1 .. n : trail'[s][i] = trail[s][i]
  BY <1>3, <1>5, <1>7
<1> HIDE DEF n
<1>9. /\ n = 0 <=> strategy[s] = None
      /\ n > 0 => trail[s][n].status = strategy[s]
      /\ \A i \in 1 .. n :
           /\ trail[s][i].previous = IF i = 1 THEN None ELSE trail[s][i - 1].status
           /\ \/ i \in 1 .. 9 /\ trail[s][i].status = STRATEGY_SEQUENCE[i]
              \/ i = n /\ i > 1 /\ trail[s][i].status \in Discarded
  BY Stages DEF NoStageSkipped, FollowsPipeline, n
\* The row that is written over is no discard, so the trail has none.
<1>10. n > 0 => n \in 1 .. 8 /\ strategy[s] = STRATEGY_SEQUENCE[n]
               /\ target \in {STRATEGY_SEQUENCE[n + 1]} \cup Discarded
  <2> SUFFICES ASSUME n > 0
               PROVE  n \in 1 .. 8 /\ strategy[s] = STRATEGY_SEQUENCE[n]
                      /\ target \in {STRATEGY_SEQUENCE[n + 1]} \cup Discarded
    OBVIOUS
  <2>1. ValidStrategyTransition(strategy[s], target)
    BY <1>8, <1>9
  <2>2. PICK j \in 1 .. 8 :
           /\ strategy[s] = STRATEGY_SEQUENCE[j]
           /\ target \in {STRATEGY_SEQUENCE[j + 1]} \cup Discarded
    BY <2>1, Moves
  <2>3. strategy[s] \notin Discarded
    BY <2>1, Moves
  <2>4. n \in 1 .. 9 /\ strategy[s] = STRATEGY_SEQUENCE[n]
    BY <1>8, <1>9, <2>3
  <2>5. j \in 1 .. 9 /\ STRATEGY_SEQUENCE[n] = STRATEGY_SEQUENCE[j]
    BY <2>2, <2>4
  <2>6. n = j
    BY <2>4, <2>5, Stages
  <2> QED
    BY <2>2, <2>6
<1>11. NoStageSkipped'
  <2> SUFFICES ASSUME NEW q \in Strategy
               PROVE  FollowsPipeline(trail'[q], strategy'[q])
    BY DEF NoStageSkipped
  <2>1. CASE q # s
    BY <2>1, <1>4, <1>7 DEF NoStageSkipped
  <2>2. CASE q = s
    <3>1. target # None
      BY <1>1, Stages
    <3>2. /\ n + 1 # 0 /\ strategy'[s] # None
          /\ trail'[s][n + 1].status = strategy'[s]
      BY <1>4, <1>6, <1>8, <3>1
    <3>3. ASSUME NEW i \in 1 .. n
          PROVE  /\ trail'[s][i].previous = IF i = 1 THEN None ELSE trail'[s][i - 1].status
                 /\ i \in 1 .. 9 /\ trail'[s][i].status = STRATEGY_SEQUENCE[i]
      <4>1. i # 1 => i - 1 \in 1 .. n
        BY <1>8
      <4>2. trail'[s][i].previous = IF i = 1 THEN None ELSE trail'[s][i - 1].status
        BY <4>1, <1>8, <1>9
      <4>3. i = n => trail[s][i].status \notin Discarded
        BY <1>8, <1>9, <1>10, Stages
      <4> QED
        BY <4>2, <4>3, <1>8, <1>9
    <3>4. /\ trail'[s][n + 1].previous = IF n + 1 = 1 THEN None ELSE trail'[s][n].status
          /\ \/ n + 1 \in 1 .. 9 /\ trail'[s][n + 1].status = STRATEGY_SEQUENCE[n + 1]
             \/ n + 1 > 1 /\ trail'[s][n + 1].status \in Discarded
      <4>1. CASE n = 0
        <5>1. strategy[s] = None /\ target = "IDEA"
          BY <4>1, <1>9, Moves
        <5> QED
          BY <4>1, <5>1, <1>6, <1>8, Stages
      <4>2. CASE n > 0
        <5>1. n \in 1 .. n
          BY <4>2, <1>8
        <5> QED
          BY <4>2, <5>1, <1>6, <1>8, <1>9, <1>10
      <4> QED
        BY <4>1, <4>2, <1>8
    <3>5. ASSUME NEW i \in 1 .. n + 1
          PROVE  /\ trail'[s][i].previous = IF i = 1 THEN None ELSE trail'[s][i - 1].status
                 /\ \/ i \in 1 .. 9 /\ trail'[s][i].status = STRATEGY_SEQUENCE[i]
                    \/ i = n + 1 /\ i > 1 /\ trail'[s][i].status \in Discarded
      <4>1. CASE i \in 1 .. n
        BY <4>1, <3>3
      <4>2. CASE i = n + 1
        <5>1. i - 1 = n /\ (i = 1 <=> n + 1 = 1) /\ (i > 1 <=> n + 1 > 1)
          BY <4>2, <1>8
        <5>2. /\ trail'[s][i].previous = IF i = 1 THEN None ELSE trail'[s][i - 1].status
              /\ \/ i \in 1 .. 9 /\ trail'[s][i].status = STRATEGY_SEQUENCE[i]
                 \/ i > 1 /\ trail'[s][i].status \in Discarded
          BY <4>2, <5>1, <3>4
        <5> QED
          BY <4>2, <5>2
      <4> QED
        BY <4>1, <4>2, <1>8
    <3>6. FollowsPipeline(trail'[s], strategy'[s])
      BY <3>2, <3>5, <1>8, Stages DEF FollowsPipeline
    <3> QED
      BY <2>2, <3>6
  <2> QED
    BY <2>1, <2>2
<1> QED
  BY <1>4, <1>6, <1>7, <1>8, <1>11 DEF n

LEMMA GotoType ==
  ASSUME TypeOK, NEW p \in Proc, NEW o \in Operation \cup {NoOperation}, Goto(p, o)
  PROVE  /\ op' \in [Proc -> Operation \cup {NoOperation}]
         /\ op'[p] = o
         /\ \A q \in Proc \ {p} : op'[q] = op[q]
BY DEF TypeOK, Goto

\* The calls of each stage, by their fields.
LEMMA CallType ==
  ASSUME TypeOK, NEW p \in Proc
  PROVE  /\ op[p].stage \in {"approving", "transitioning"} =>
              op[p] \in [ stage : {"approving", "transitioning"}, role : ActorRole,
                          strategy : Strategy, expected : StrategyStatus,
                          target : StrategyStatus ]
         /\ op[p].stage = "requesting" =>
              op[p] \in [ stage : {"requesting"}, role : ActorRole,
                          strategy : Strategy, request : Request ]
<1>1. op[p] \in Operation \cup {NoOperation}
  BY DEF TypeOK
<1>2. NoOperation.stage = "ready"
  BY DEF NoOperation
<1> QED
  BY <1>1, <1>2 DEF Operation

\* A step that changes no table: the new call of its process must be sound.
LEMMA QuietStep ==
  ASSUME IInv, NEW p \in Proc, NEW o \in Operation \cup {NoOperation}, Goto(p, o),
         UNCHANGED <<strategy, promotion, trail>>, refusals' \in 0 .. MaxRefusals,
         o.stage \in {"approving", "transitioning"}
           => ValidStrategyTransition(o.expected, o.target)
  PROVE  IInv'
<1>1. /\ op' \in [Proc -> Operation \cup {NoOperation}]
      /\ op'[p] = o
      /\ \A q \in Proc \ {p} : op'[q] = op[q]
  BY GotoType DEF IInv
<1>2. TypeOK'
  BY <1>1 DEF IInv, TypeOK
<1>3. PendingLegal'
  BY <1>1 DEF IInv, PendingLegal
<1>4. Decided' /\ NoStageSkipped' /\ RequestsFollowReview' /\ RolesSeparated'
  BY DEF IInv, Decided, NoStageSkipped, RequestsFollowReview, RolesSeparated
<1> QED
  BY <1>2, <1>3, <1>4 DEF IInv

\* A step that writes the row of a strategy, in the role the store asks for.
LEMMA PersistStep ==
  ASSUME IInv, NEW s \in Strategy, NEW role \in ActorRole, NEW target,
         NEW previous, previous = strategy[s],
         Persist(s, role, previous, target),
         \/ strategy[s] = None /\ target = "IDEA" /\ role = "SUPERVISOR"
         \/ ValidStrategyTransition(strategy[s], target) /\ role = "VALIDATOR",
         UNCHANGED <<promotion, refusals>>,
         op' \in [Proc -> Operation \cup {NoOperation}], PendingLegal'
  PROVE  IInv'
<1>1. /\ strategy' \in [Strategy -> StrategyStatus \cup {None}]
      /\ trail' \in [Strategy -> Seq(TrailEvent)]
      /\ NoStageSkipped'
      /\ \A q \in Strategy \ {s} : trail'[q] = trail[q]
      /\ Len(trail[s]) \in Nat
      /\ Len(trail'[s]) = Len(trail[s]) + 1
      /\ \A i \in 1 .. Len(trail[s]) : trail'[s][i] = trail[s][i]
      /\ trail'[s][Len(trail[s]) + 1].role = role
  BY PersistExtends DEF IInv
<1>2. TypeOK'
  BY <1>1 DEF IInv, TypeOK
<1>3. Decided'
  BY DEF IInv, Decided
<1>4. RequestsFollowReview'
  <2> SUFFICES ASSUME NEW r \in Request, promotion[r] # NoRequest
               PROVE  /\ promotion[r].asked \in 1 .. Len(trail'[promotion[r].strategy])
                      /\ trail'[promotion[r].strategy][promotion[r].asked].status
                           = "HUMAN_REVIEW"
    BY DEF RequestsFollowReview
  <2>1. promotion[r].strategy \in Strategy
    BY DEF IInv, TypeOK, PromotionRow
  <2>2. /\ promotion[r].asked \in 1 .. Len(trail[promotion[r].strategy])
        /\ trail[promotion[r].strategy][promotion[r].asked].status = "HUMAN_REVIEW"
    BY DEF IInv, RequestsFollowReview
  <2>3. CASE promotion[r].strategy = s
    <3>1. promotion[r].asked \in 1 .. Len(trail'[s])
      BY <2>2, <2>3, <1>1
    <3> QED
      BY <2>2, <2>3, <3>1, <1>1
  <2>4. CASE promotion[r].strategy # s
    BY <2>1, <2>2, <2>4, <1>1
  <2> QED
    BY <2>3, <2>4
<1>5. RolesSeparated'
  <2>1. ASSUME NEW i \in 1 .. Len(trail'[s])
        PROVE  trail'[s][i].role = IF i = 1 THEN "SUPERVISOR" ELSE "VALIDATOR"
    <3>1. CASE i \in 1 .. Len(trail[s])
      BY <3>1, <1>1 DEF IInv, RolesSeparated
    <3>2. CASE i = Len(trail[s]) + 1
      <4>1. Len(trail[s]) = 0 <=> strategy[s] = None
        BY DEF IInv, NoStageSkipped, FollowsPipeline
      <4>2. strategy[s] = None <=> role = "SUPERVISOR"
        BY Moves
      <4>3. role \in {"SUPERVISOR", "VALIDATOR"}
        OBVIOUS
      <4> QED
        BY <3>2, <4>1, <4>2, <4>3, <1>1
    <3> QED
      BY <3>1, <3>2, <1>1
  <2>2. \A q \in Strategy \ {s} : trail'[q] = trail[q]
    BY <1>1
  <2>3. \A q \in Strategy : \A i \in 1 .. Len(trail'[q]) :
          trail'[q][i].role = IF i = 1 THEN "SUPERVISOR" ELSE "VALIDATOR"
    BY <2>1, <2>2 DEF IInv, RolesSeparated
  <2> QED
    BY <2>3 DEF IInv, RolesSeparated
<1> QED
  BY <1>1, <1>2, <1>3, <1>4, <1>5 DEF IInv

\* A step that writes a promotion request of a strategy that has come to the
\* review.
LEMMA PromotionStep ==
  ASSUME IInv, NEW r \in Request, NEW t \in PromotionRow,
         promotion' = [promotion EXCEPT ![r] = t],
         t.asked \in 1 .. Len(trail[t.strategy]),
         trail[t.strategy][t.asked].status = "HUMAN_REVIEW",
         t.requester = "SUPERVISOR",
         t.decider \in {None, "HUMAN"},
         t.status \in {"APPROVED", "REJECTED"} => t.decider = "HUMAN",
         UNCHANGED <<strategy, trail, refusals>>,
         op' \in [Proc -> Operation \cup {NoOperation}], PendingLegal'
  PROVE  IInv'
<1>1. /\ promotion' \in [Request -> PromotionRow \cup {NoRequest}]
      /\ promotion'[r] = t
      /\ \A q \in Request \ {r} : promotion'[q] = promotion[q]
  BY DEF IInv, TypeOK
<1>2. TypeOK'
  BY <1>1 DEF IInv, TypeOK
<1>3. Decided'
  BY <1>1 DEF IInv, Decided
<1>4. RequestsFollowReview'
  BY <1>1 DEF IInv, RequestsFollowReview
<1>5. NoStageSkipped'
  BY DEF IInv, NoStageSkipped
<1>6. RolesSeparated'
  BY <1>1 DEF IInv, RolesSeparated
<1> QED
  BY <1>2, <1>3, <1>4, <1>5, <1>6 DEF IInv

-----------------------------------------------------------------------------
(* The invariant is inductive *)

LEMMA InitIInv == Init => IInv
<1> SUFFICES ASSUME Init PROVE IInv
  OBVIOUS
<1>1. NoOperation.stage = "ready" /\ NoRequest.status = None /\ NoRequest.decider = None
  BY DEF NoOperation, NoRequest
<1>2. TypeOK
  BY MaxRefusalsAssumption DEF Init, TypeOK
<1>3. PendingLegal /\ Decided
  BY <1>1 DEF Init, PendingLegal, Decided, None
<1>4. NoStageSkipped /\ RolesSeparated
  BY <1>1 DEF Init, NoStageSkipped, FollowsPipeline, RolesSeparated
<1>5. RequestsFollowReview
  BY DEF Init, RequestsFollowReview
<1> QED
  BY <1>2, <1>3, <1>4, <1>5 DEF IInv

LEMMA RefuseType ==
  ASSUME IInv, Refuse
  PROVE  refusals' \in 0 .. MaxRefusals
BY MaxRefusalsAssumption DEF IInv, TypeOK, Refuse

\* The calls that are one transaction, or none.
LEMMA CallInv ==
  ASSUME IInv, NEW p \in Proc,
         Deny(p) \/ InitializeStrategyState(p) \/ DecidePromotionRequest(p)
  PROVE  IInv'
<1>1. CASE Deny(p)
  <2>1. refusals' \in 0 .. MaxRefusals
    BY <1>1, RefuseType DEF Deny
  <2>2. UNCHANGED <<strategy, promotion, trail, op>>
    BY <1>1 DEF Deny
  <2>3. TypeOK' /\ PendingLegal' /\ Decided'
    BY <2>1, <2>2 DEF IInv, TypeOK, PendingLegal, Decided
  <2>4. NoStageSkipped' /\ RequestsFollowReview' /\ RolesSeparated'
    BY <2>2 DEF IInv, NoStageSkipped, RequestsFollowReview, RolesSeparated
  <2> QED
    BY <2>3, <2>4 DEF IInv
<1>2. CASE InitializeStrategyState(p)
  <2>1. PICK role \in ActorRole, s \in Strategy :
           /\ Authorized(role, "INITIALIZE_STRATEGY")
           /\ strategy[s] = None
           /\ Persist(s, role, None, "IDEA")
    BY <1>2 DEF InitializeStrategyState
  <2>2. role = "SUPERVISOR"
    BY <2>1 DEF Authorized, StoreAllows, DEFAULT_GRANTS
  <2>3. UNCHANGED <<promotion, refusals, op>>
    BY <1>2 DEF InitializeStrategyState
  <2>4. op' \in [Proc -> Operation \cup {NoOperation}] /\ PendingLegal'
    BY <2>3 DEF IInv, TypeOK, PendingLegal
  <2> QED
    BY <2>1, <2>2, <2>3, <2>4, PersistStep
<1>3. CASE DecidePromotionRequest(p)
  <2>1. PICK role \in ActorRole, r \in Request, decision \in {"APPROVED", "REJECTED"} :
           /\ Authorized(role, "DECIDE_REAL_PROMOTION")
           /\ promotion[r].status = "PENDING"
           /\ promotion' = [promotion EXCEPT ![r] =
                [@ EXCEPT !.status = decision, !.decider = role]]
    BY <1>3 DEF DecidePromotionRequest
  <2>2. role = "HUMAN"
    BY <2>1 DEF Authorized, StoreAllows, DEFAULT_GRANTS
  <2>3. promotion \in [Request -> PromotionRow \cup {NoRequest}]
    BY DEF IInv, TypeOK
  <2>4. promotion[r] # NoRequest /\ promotion[r] \in PromotionRow
    BY <2>1, <2>3 DEF NoRequest, None
  <2> DEFINE t == [promotion[r] EXCEPT !.status = decision, !.decider = role]
  <2>5. promotion' = [promotion EXCEPT ![r] = t]
    BY <2>1, <2>3
  <2>6. /\ t \in PromotionRow
        /\ t.strategy = promotion[r].strategy
        /\ t.asked = promotion[r].asked
        /\ t.requester = promotion[r].requester
        /\ t.decider = role
    BY <2>4 DEF PromotionRow, PromotionStatus
  <2>7. /\ t.asked \in 1 .. Len(trail[t.strategy])
        /\ trail[t.strategy][t.asked].status = "HUMAN_REVIEW"
    BY <2>4, <2>6 DEF IInv, RequestsFollowReview
  <2>8. t.requester = "SUPERVISOR" /\ t.decider = "HUMAN"
    BY <2>2, <2>4, <2>6 DEF IInv, RolesSeparated
  <2>9. UNCHANGED <<strategy, trail, refusals, op>>
    BY <1>3 DEF DecidePromotionRequest
  <2>10. op' \in [Proc -> Operation \cup {NoOperation}] /\ PendingLegal'
    BY <2>9 DEF IInv, TypeOK, PendingLegal
  <2> HIDE DEF t
  <2> QED
    BY <2>5, <2>6, <2>7, <2>8, <2>9, <2>10, PromotionStep
<1> QED
  BY <1>1, <1>2, <1>3

LEMMA TransitionInv ==
  ASSUME IInv, NEW p \in Proc,
         LoadTransition(p) \/ CheckApproval(p) \/ TransitionStrategyState(p)
  PROVE  IInv'
<1>1. CASE LoadTransition(p)
  <2>1. PICK role \in ActorRole, s \in Strategy, target \in StrategyStatus :
           /\ ValidStrategyTransition(strategy[s], target)
           /\ Goto(p, [ stage |-> IF target = "REAL" THEN "approving" ELSE "transitioning",
                        role |-> role, strategy |-> s,
                        expected |-> strategy[s], target |-> target ])
    BY <1>1 DEF LoadTransition
  <2> DEFINE o == [ stage |-> IF target = "REAL" THEN "approving" ELSE "transitioning",
                    role |-> role, strategy |-> s,
                    expected |-> strategy[s], target |-> target ]
  <2>2. strategy[s] \in StrategyStatus
    BY <2>1, Moves
  <2>3. o \in Operation /\ o.expected = strategy[s] /\ o.target = target
    BY <2>2 DEF Operation
  <2>4. UNCHANGED <<strategy, promotion, trail>> /\ refusals' \in 0 .. MaxRefusals
    BY <1>1 DEF LoadTransition, IInv, TypeOK
  <2> QED
    BY <2>1, <2>3, <2>4, QuietStep
<1>2. CASE CheckApproval(p)
  <2>1. op[p] \in [ stage : {"approving", "transitioning"}, role : ActorRole,
                    strategy : Strategy, expected : StrategyStatus,
                    target : StrategyStatus ]
    BY <1>2, CallType DEF CheckApproval, IInv
  <2>2. UNCHANGED <<strategy, promotion, trail>>
    BY <1>2 DEF CheckApproval
  <2>3. CASE Goto(p, [op[p] EXCEPT !.stage = "transitioning"]) /\ UNCHANGED refusals
    <3> DEFINE o == [op[p] EXCEPT !.stage = "transitioning"]
    <3>1. /\ o \in Operation
          /\ o.expected = op[p].expected /\ o.target = op[p].target
      BY <2>1 DEF Operation
    <3>2. ValidStrategyTransition(op[p].expected, op[p].target)
      BY <1>2 DEF CheckApproval, IInv, PendingLegal
    <3>3. refusals' \in 0 .. MaxRefusals
      BY <2>3 DEF IInv, TypeOK
    <3> QED
      BY <2>2, <2>3, <3>1, <3>2, <3>3, QuietStep
  <2>4. CASE Return(p) /\ Refuse
    <3>1. NoOperation.stage = "ready"
      BY DEF NoOperation
    <3> QED
      BY <2>2, <2>4, <3>1, RefuseType, QuietStep DEF Return
  <2> QED
    BY <1>2, <2>3, <2>4 DEF CheckApproval
<1>3. CASE TransitionStrategyState(p)
  <2>1. op[p] \in [ stage : {"approving", "transitioning"}, role : ActorRole,
                    strategy : Strategy, expected : StrategyStatus,
                    target : StrategyStatus ]
    BY <1>3, CallType DEF TransitionStrategyState, InTransaction, IInv
  <2>2. op[p].role = "VALIDATOR"
    BY <1>3 DEF TransitionStrategyState, InTransaction, StoreAllows, DEFAULT_GRANTS
  <2>3. /\ ValidStrategyTransition(strategy[op[p].strategy], op[p].target)
        /\ op[p].expected = strategy[op[p].strategy]
    BY <1>3 DEF TransitionStrategyState, InTransaction, Unmoved, IInv, PendingLegal
  <2>4. /\ Persist(op[p].strategy, op[p].role, op[p].expected, op[p].target)
        /\ Goto(p, NoOperation)
        /\ UNCHANGED <<promotion, refusals>>
    BY <1>3 DEF TransitionStrategyState, Return
  <2>5. /\ op' \in [Proc -> Operation \cup {NoOperation}]
        /\ op'[p] = NoOperation
        /\ \A q \in Proc \ {p} : op'[q] = op[q]
    BY <2>4, GotoType DEF IInv
  <2>6. PendingLegal'
    BY <2>5 DEF IInv, PendingLegal, NoOperation
  <2> QED
    BY <2>1, <2>2, <2>3, <2>4, <2>5, <2>6, PersistStep
<1> QED
  BY <1>1, <1>2, <1>3

LEMMA RequestInv ==
  ASSUME IInv, NEW p \in Proc, LoadRequest(p) \/ AppendPromotionRequest(p)
  PROVE  IInv'
<1>1. CASE LoadRequest(p)
  <2>1. PICK role \in ActorRole, s \in Strategy, r \in Request :
           Goto(p, [ stage |-> "requesting", role |-> role, strategy |-> s, request |-> r ])
    BY <1>1 DEF LoadRequest
  <2> DEFINE o == [ stage |-> "requesting", role |-> role, strategy |-> s, request |-> r ]
  <2>2. o \in Operation /\ o.stage = "requesting"
    BY DEF Operation
  <2>3. UNCHANGED <<strategy, promotion, trail>> /\ refusals' \in 0 .. MaxRefusals
    BY <1>1 DEF LoadRequest, IInv, TypeOK
  <2> HIDE DEF o
  <2> QED
    BY <2>1, <2>2, <2>3, QuietStep DEF o
<1>2. CASE AppendPromotionRequest(p)
  <2>1. op[p] \in [ stage : {"requesting"}, role : ActorRole,
                    strategy : Strategy, request : Request ]
    BY <1>2, CallType DEF AppendPromotionRequest, InTransaction, IInv
  <2> DEFINE s == op[p].strategy
             t == Pending(s, op[p].role)
  <2>2. /\ strategy[s] = "HUMAN_REVIEW"
        /\ promotion' = [promotion EXCEPT ![op[p].request] = t]
        /\ Goto(p, NoOperation)
        /\ UNCHANGED <<strategy, trail, refusals>>
    BY <1>2 DEF AppendPromotionRequest, InReview, Return
  <2>3. s \in Strategy /\ op[p].request \in Request
    BY <2>1
  <2>4. /\ t \in PromotionRow /\ t.strategy = s
        /\ t.asked = Len(trail[s]) /\ t.requester = "SUPERVISOR"
        /\ t.decider = None /\ t.status = "PENDING"
    <3>1. Len(trail[s]) \in Nat
      BY <2>3 DEF IInv, TypeOK
    <3>2. op[p].role = "SUPERVISOR"
      BY <1>2 DEF AppendPromotionRequest, InTransaction, StoreAllows, DEFAULT_GRANTS
    <3> QED
      BY <2>1, <2>3, <3>1, <3>2 DEF Pending, PromotionRow, PromotionStatus
  <2>5. /\ t.asked \in 1 .. Len(trail[s])
        /\ trail[s][t.asked].status = "HUMAN_REVIEW"
    <3>1. Len(trail[s]) \in Nat
      BY <2>3 DEF IInv, TypeOK
    <3>2. Len(trail[s]) > 0 => trail[s][Len(trail[s])].status = "HUMAN_REVIEW"
      BY <2>2, <2>3 DEF IInv, NoStageSkipped, FollowsPipeline
    <3>3. Len(trail[s]) # 0
      BY <2>2, <2>3 DEF IInv, NoStageSkipped, FollowsPipeline, None
    <3> QED
      BY <2>4, <3>1, <3>2, <3>3
  <2>6. /\ op' \in [Proc -> Operation \cup {NoOperation}]
        /\ op'[p] = NoOperation
        /\ \A q \in Proc \ {p} : op'[q] = op[q]
    BY <2>2, GotoType DEF IInv
  <2>7. PendingLegal'
    BY <2>6 DEF IInv, PendingLegal, NoOperation
  <2> HIDE DEF s, t
  <2> QED
    BY <2>2, <2>3, <2>4, <2>5, <2>6, <2>7, PromotionStep
<1> QED
  BY <1>1, <1>2

LEMMA EndInv ==
  ASSUME IInv, NEW p \in Proc, StoreDenies(p) \/ Abandon(p)
  PROVE  IInv'
<1>1. NoOperation.stage = "ready"
  BY DEF NoOperation
<1>2. UNCHANGED <<strategy, promotion, trail>> /\ Goto(p, NoOperation)
  BY DEF StoreDenies, Abandon, Return
<1>3. refusals' \in 0 .. MaxRefusals
  BY RefuseType DEF StoreDenies, Abandon, IInv, TypeOK
<1> QED
  BY <1>1, <1>2, <1>3, QuietStep

LEMMA NextIInv == IInv /\ [Next]_vars => IInv'
<1> SUFFICES ASSUME IInv, [Next]_vars PROVE IInv'
  OBVIOUS
<1>1. CASE UNCHANGED vars
  <2>1. TypeOK' /\ PendingLegal' /\ Decided'
    BY <1>1 DEF IInv, TypeOK, PendingLegal, Decided, vars
  <2>2. NoStageSkipped' /\ RequestsFollowReview' /\ RolesSeparated'
    BY <1>1 DEF IInv, NoStageSkipped, RequestsFollowReview, RolesSeparated, vars
  <2> QED
    BY <2>1, <2>2 DEF IInv
<1>2. ASSUME NEW p \in Proc,
             \/ Deny(p) \/ InitializeStrategyState(p) \/ DecidePromotionRequest(p)
             \/ LoadTransition(p) \/ CheckApproval(p) \/ TransitionStrategyState(p)
             \/ LoadRequest(p) \/ AppendPromotionRequest(p)
             \/ StoreDenies(p) \/ Abandon(p)
      PROVE  IInv'
  BY <1>2, CallInv, TransitionInv, RequestInv, EndInv
<1> QED
  BY <1>1, <1>2 DEF Next

LEMMA Invariance == Spec => []IInv
<1>1. Init => IInv
  BY InitIInv
<1>2. IInv /\ [Next]_vars => IInv'
  BY NextIInv
<1> QED
  BY <1>1, <1>2, PTL DEF Spec

-----------------------------------------------------------------------------
(* The invariants *)

\* Every variable keeps its type, for any sets of processes, strategies and
\* requests.
THEOREM TypeCorrect == Spec => []TypeOK
<1>1. IInv => TypeOK
  BY DEF IInv
<1> QED
  BY <1>1, Invariance, PTL

\* However the calls of the processes interleave, the audited life of every
\* strategy is the pipeline, stage by stage, and its row is the last of them.
THEOREM PipelineInOrder == Spec => []NoStageSkipped
<1>1. IInv => NoStageSkipped
  BY DEF IInv
<1> QED
  BY <1>1, Invariance, PTL

\* No promotion request is made for a strategy that has not come to the review,
\* or has left it.
THEOREM ReviewFirst == Spec => []RequestsFollowReview
<1>1. IInv => RequestsFollowReview
  BY DEF IInv
<1> QED
  BY <1>1, Invariance, PTL

\* The separation of roles holds under any policy given to the managers, for
\* the store has its own.
THEOREM RolesKept == Spec => []RolesSeparated
<1>1. IInv => RolesSeparated
  BY DEF IInv
<1> QED
  BY <1>1, Invariance, PTL

-----------------------------------------------------------------------------
(* The actions *)

\* What each call does to the requests: nothing, a decision or a new request.
LEMMA PromotionSteps ==
  ASSUME IInv, [Next]_vars
  PROVE  \/ UNCHANGED promotion
         \/ \E r \in Request, decision \in {"APPROVED", "REJECTED"} :
              /\ promotion[r].status = "PENDING"
              /\ promotion' = [promotion EXCEPT ![r] =
                   [@ EXCEPT !.status = decision, !.decider = "HUMAN"]]
              /\ UNCHANGED strategy
         \/ \E r \in Request, s \in Strategy :
              /\ promotion[r] = NoRequest
              /\ promotion' = [promotion EXCEPT ![r] =
                   Pending(s, "SUPERVISOR")]
              /\ UNCHANGED strategy
<1>1. CASE UNCHANGED vars
  BY <1>1 DEF vars
<1>2. ASSUME NEW p \in Proc, DecidePromotionRequest(p)
      PROVE  \E r \in Request, decision \in {"APPROVED", "REJECTED"} :
               /\ promotion[r].status = "PENDING"
               /\ promotion' = [promotion EXCEPT ![r] =
                    [@ EXCEPT !.status = decision, !.decider = "HUMAN"]]
               /\ UNCHANGED strategy
  BY <1>2 DEF DecidePromotionRequest, Authorized, StoreAllows, DEFAULT_GRANTS
<1>3. ASSUME NEW p \in Proc, AppendPromotionRequest(p)
      PROVE  \E r \in Request, s \in Strategy :
               /\ promotion[r] = NoRequest
               /\ promotion' = [promotion EXCEPT ![r] =
                    Pending(s, "SUPERVISOR")]
               /\ UNCHANGED strategy
  <2>1. op[p].strategy \in Strategy /\ op[p].request \in Request
    BY <1>3, CallType DEF AppendPromotionRequest, InTransaction, IInv
  <2>2. op[p].role = "SUPERVISOR"
    BY <1>3 DEF AppendPromotionRequest, InTransaction, StoreAllows, DEFAULT_GRANTS
  <2> QED
    BY <1>3, <2>1, <2>2 DEF AppendPromotionRequest
<1>4. ASSUME NEW p \in Proc,
             \/ Deny(p) \/ InitializeStrategyState(p)
             \/ LoadTransition(p) \/ CheckApproval(p) \/ TransitionStrategyState(p)
             \/ LoadRequest(p) \/ StoreDenies(p) \/ Abandon(p)
      PROVE  UNCHANGED promotion
  BY <1>4 DEF Deny, InitializeStrategyState, LoadTransition, CheckApproval,
              TransitionStrategyState, LoadRequest, StoreDenies, Abandon
<1> QED
  BY <1>1, <1>2, <1>3, <1>4 DEF Next

\* A decision is never taken back, whoever else decides the same request.
THEOREM DecisionsStand == Spec => DecisionsFinal
<1> DEFINE Final == \A r \in Request :
              promotion[r].status \in {"APPROVED", "REJECTED"} =>
                promotion'[r] = promotion[r] /\ promotion[r].decider = "HUMAN"
<1>1. ASSUME IInv, [Next]_vars PROVE Final \/ UNCHANGED promotion
  <2>1. \A r \in Request :
          promotion[r].status \in {"APPROVED", "REJECTED"} => promotion[r].decider = "HUMAN"
    BY <1>1 DEF IInv, Decided
  <2>2. promotion \in [Request -> PromotionRow \cup {NoRequest}]
    BY <1>1 DEF IInv, TypeOK
  <2>3. NoRequest.status = "NONE"
    BY DEF NoRequest, None
  <2>4. ASSUME NEW r \in Request,
               promotion[r].status \notin {"APPROVED", "REJECTED"},
               \A q \in Request \ {r} : promotion'[q] = promotion[q]
        PROVE  Final
    BY <2>1, <2>4
  <2>5. ASSUME NEW r \in Request, NEW decision \in {"APPROVED", "REJECTED"},
               promotion[r].status = "PENDING",
               promotion' = [promotion EXCEPT ![r] =
                 [@ EXCEPT !.status = decision, !.decider = "HUMAN"]]
        PROVE  Final
    <3>1. \A q \in Request \ {r} : promotion'[q] = promotion[q]
      BY <2>2, <2>5
    <3> QED
      BY <3>1, <2>4, <2>5
  <2>6. ASSUME NEW r \in Request, NEW s \in Strategy,
               promotion[r] = NoRequest,
               promotion' = [promotion EXCEPT ![r] =
                 Pending(s, "SUPERVISOR")]
        PROVE  Final
    <3>1. \A q \in Request \ {r} : promotion'[q] = promotion[q]
      BY <2>2, <2>6
    <3> QED
      BY <3>1, <2>3, <2>4, <2>6
  <2> HIDE DEF Final
  <2> QED
    BY <1>1, <2>5, <2>6, PromotionSteps
<1> HIDE DEF Final
<1>2. ASSUME IInv, [Next]_vars PROVE [Final]_promotion
  BY <1>1, <1>2
<1>3. Spec => [][Final]_promotion
  BY <1>2, Invariance, PTL DEF Spec
<1> QED
  BY <1>3 DEF DecisionsFinal, Final

-----------------------------------------------------------------------------
(* The refinement *)

LEMMA SameVocabulary ==
  /\ Gate!None = None
  /\ Gate!Discarded = Discarded
  /\ Gate!STRATEGY_SEQUENCE = STRATEGY_SEQUENCE
BY DEF Gate!None, None, Gate!Discarded, Discarded,
       Gate!STRATEGY_SEQUENCE, STRATEGY_SEQUENCE

\* A strategy that has been to the review is there still, or beyond it.
LEMMA AfterReview ==
  ASSUME IInv, NEW r \in Request, promotion[r] # NoRequest
  PROVE  /\ promotion[r].strategy \in Strategy
         /\ strategy[promotion[r].strategy] \in {"HUMAN_REVIEW", "REAL"} \cup Discarded
<1> DEFINE s == promotion[r].strategy
           n == Len(trail[s])
<1>1. s \in Strategy
  BY DEF IInv, TypeOK, PromotionRow
<1>2. PICK i \in 1 .. n : trail[s][i].status = "HUMAN_REVIEW"  \* where it was asked for
  BY DEF IInv, RequestsFollowReview
<1>3. n \in Nat
  BY <1>1 DEF IInv, TypeOK
<1> HIDE DEF s, n
<1>4. /\ n > 0 => trail[s][n].status = strategy[s]
      /\ \A j \in 1 .. n :
           \/ j \in 1 .. 9 /\ trail[s][j].status = STRATEGY_SEQUENCE[j]
           \/ j = n /\ j > 1 /\ trail[s][j].status \in Discarded
  BY <1>1, Stages DEF IInv, NoStageSkipped, FollowsPipeline, n
<1>5. i = 8
  <2>1. "HUMAN_REVIEW" \notin Discarded
    BY DEF Discarded
  <2>2. i \in 1 .. 9 /\ STRATEGY_SEQUENCE[i] = STRATEGY_SEQUENCE[8]
    BY <1>2, <1>4, <2>1, Stages
  <2> QED
    BY <2>2, Stages
<1>6. n \in 1 .. n /\ n >= 8
  BY <1>2, <1>3, <1>5
<1>7. n \in 1 .. 9 => n = 8 \/ n = 9
  BY <1>6
<1>8. strategy[s] \in {"HUMAN_REVIEW", "REAL"} \cup Discarded
  BY <1>4, <1>6, <1>7, Stages
<1> QED
  BY <1>1, <1>8 DEF s

\* Only a decision changes who is approved, and adds at most its own strategy.
LEMMA ApprovalSteps ==
  ASSUME IInv, [Next]_vars
  PROVE  \/ UNCHANGED promotion /\ Approved' = Approved
         \/ UNCHANGED strategy /\ Approved' = Approved
         \/ /\ UNCHANGED strategy
            /\ \E s \in Strategy :
                 /\ strategy[s] \in {"HUMAN_REVIEW", "REAL"} \cup Discarded
                 /\ Approved' = Approved \cup {s}
<1>1. promotion \in [Request -> PromotionRow \cup {NoRequest}]
  BY DEF IInv, TypeOK
<1>2. NoRequest.status = "NONE"
  BY DEF NoRequest, None
<1>3. CASE UNCHANGED promotion
  BY <1>3 DEF Approved
<1>4. ASSUME NEW r \in Request, NEW decision \in {"APPROVED", "REJECTED"},
             promotion[r].status = "PENDING",
             promotion' = [promotion EXCEPT ![r] =
               [@ EXCEPT !.status = decision, !.decider = "HUMAN"]]
      PROVE  \/ Approved' = Approved
             \/ \E s \in Strategy :
                  /\ strategy[s] \in {"HUMAN_REVIEW", "REAL"} \cup Discarded
                  /\ Approved' = Approved \cup {s}
  <2>1. promotion[r] # NoRequest
    BY <1>2, <1>4
  <2>2. /\ promotion'[r].strategy = promotion[r].strategy
        /\ promotion'[r].status = decision
        /\ \A q \in Request \ {r} : promotion'[q] = promotion[q]
    BY <1>1, <1>4
  <2>3. CASE decision = "APPROVED"
    <3>1. Approved' = Approved \cup {promotion[r].strategy}
      BY <1>4, <2>1, <2>2, <2>3, AfterReview DEF Approved
    <3> QED
      BY <2>1, <3>1, AfterReview
  <2>4. CASE decision = "REJECTED"
    BY <1>4, <2>2, <2>4 DEF Approved
  <2> QED
    BY <2>3, <2>4
<1>5. ASSUME NEW r \in Request, NEW s \in Strategy,
             promotion[r] = NoRequest,
             promotion' = [promotion EXCEPT ![r] =
               Pending(s, "SUPERVISOR")]
      PROVE  Approved' = Approved
  <2>1. /\ promotion'[r].status = "PENDING"
        /\ \A q \in Request \ {r} : promotion'[q] = promotion[q]
    BY <1>1, <1>5 DEF Pending
  <2> QED
    BY <1>2, <1>5, <2>1 DEF Approved
<1> QED
  BY <1>3, <1>4, <1>5, PromotionSteps

\* A step of any process is a step of the gate or leaves it alone.
LEMMA StepRefines == IInv /\ [Next]_vars => [Gate!Next]_(Gate!vars)
<1> SUFFICES ASSUME IInv, [Next]_vars PROVE [Gate!Next]_(Gate!vars)
  OBVIOUS
<1>1. CASE UNCHANGED strategy
  <2>1. CASE Approved' = Approved
    BY <1>1, <2>1 DEF Gate!vars
  <2>2. ASSUME NEW s \in Strategy,
               strategy[s] \in {"HUMAN_REVIEW", "REAL"} \cup Discarded,
               Approved' = Approved \cup {s}
        PROVE  Gate!Next
    BY <1>1, <2>2, SameVocabulary DEF Gate!Next, Gate!Approve
  <2> QED
    BY <2>1, <2>2, ApprovalSteps
<1>2. ASSUME NEW p \in Proc, InitializeStrategyState(p)
      PROVE  Gate!Next
  <2>1. PICK s \in Strategy : strategy[s] = None /\ strategy' = [strategy EXCEPT ![s] = "IDEA"]
    BY <1>2 DEF InitializeStrategyState, Persist
  <2>2. Approved' = Approved
    BY <1>2 DEF InitializeStrategyState, Approved
  <2> QED
    BY <2>1, <2>2, SameVocabulary DEF Gate!Next, Gate!Create
<1>3. ASSUME NEW p \in Proc, TransitionStrategyState(p)
      PROVE  Gate!Next
  <2> DEFINE s == op[p].strategy
             target == op[p].target
  <2>1. s \in Strategy
    BY <1>3, CallType DEF TransitionStrategyState, InTransaction, IInv
  <2>2. ValidStrategyTransition(strategy[s], target)
    BY <1>3 DEF TransitionStrategyState, InTransaction, Unmoved, IInv, PendingLegal
  <2>3. /\ strategy' = [strategy EXCEPT ![s] = target]
        /\ target = "REAL" => s \in Approved
    BY <1>3, <2>1
    DEF TransitionStrategyState, Persist, HasApprovedPromotion, Approved
  <2>4. Approved' = Approved
    BY <1>3 DEF TransitionStrategyState, Approved
  <2> HIDE DEF s, target
  <2>5. PICK i \in 1 .. 8 :
           /\ strategy[s] = STRATEGY_SEQUENCE[i]
           /\ target \in {STRATEGY_SEQUENCE[i + 1]} \cup Discarded
    BY <2>2, Moves
  <2>6. CASE target = STRATEGY_SEQUENCE[i + 1]
    <3>1. i \in 1 .. Len(STRATEGY_SEQUENCE) - 1
      BY Stages
    <3>2. Gate!Climb(s)
      BY <2>3, <2>4, <2>5, <2>6, <3>1, SameVocabulary DEF Gate!Climb
    <3> QED
      BY <2>1, <3>2 DEF Gate!Next
  <2>7. CASE target \in Discarded
    <3>1. i \in 1 .. 9 /\ i # 9 /\ 9 \in 1 .. 9
      OBVIOUS
    <3>2. strategy[s] \notin {None, "REAL"} \cup Discarded
      BY <2>5, <3>1, Stages
    <3>3. Gate!Discard(s)
      BY <2>3, <2>4, <2>7, <3>2, SameVocabulary DEF Gate!Discard
    <3> QED
      BY <2>1, <3>3 DEF Gate!Next
  <2> QED
    BY <2>5, <2>6, <2>7
<1>4. ASSUME NEW p \in Proc,
             \/ Deny(p) \/ DecidePromotionRequest(p)
             \/ LoadTransition(p) \/ CheckApproval(p)
             \/ LoadRequest(p) \/ AppendPromotionRequest(p)
             \/ StoreDenies(p) \/ Abandon(p)
      PROVE  UNCHANGED strategy
  BY <1>4 DEF Deny, DecidePromotionRequest, LoadTransition, CheckApproval,
              LoadRequest, AppendPromotionRequest, StoreDenies, Abandon
<1>5. UNCHANGED vars => UNCHANGED strategy
  BY DEF vars
<1> QED
  BY <1>1, <1>2, <1>3, <1>4, <1>5 DEF Next

\* The tables, whatever calls interleave over them, implement the promotion
\* gate: in particular no strategy becomes REAL without a human's approval.
THEOREM Implements == Spec => ImplementsGate
<1>1. Init => Gate!Init
  <2>1. Init => Approved = {}
    BY DEF Init, Approved, NoRequest, None
  <2> QED
    BY <2>1, SameVocabulary DEF Init, Gate!Init
<1>2. Spec => [][Gate!Next]_(Gate!vars)
  BY StepRefines, Invariance, PTL DEF Spec
<1>3. Spec => Gate!Init
  BY <1>1 DEF Spec
<1> QED
  BY <1>2, <1>3, PTL DEF ImplementsGate, Gate!Spec
=============================================================================
