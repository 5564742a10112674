---------------------------- MODULE StrategyPipeline ----------------------------
(***************************************************************************)
(* The strategies and their promotion: tables strategy_state and           *)
(* promotion_requests with the audit rows about them, and the processes    *)
(* that change them through StrategyStateManager and PromotionManager      *)
(* (state.py, persistence.py).                                             *)
(*                                                                         *)
(* initialize and decide are one transaction; transition and request read  *)
(* first, outside the transaction that writes. Neither manager caches.     *)
(* The triggers on strategy_state repeat checks of the transaction they    *)
(* run in and are left out: nothing here relies on them.                   *)
(***************************************************************************)
EXTENDS Lifecycle

CONSTANTS
  Proc,        \* processes, each in at most one call at a time
  Strategy,    \* strategy identifiers
  Request,     \* promotion request identifiers
  Policy,      \* the AuthorizationPolicy given to the managers
  MaxRefusals  \* bound: refusals audited in a behaviour

ASSUME PolicyAssumption == Policy \in [Capability -> SUBSET ActorRole]
ASSUME MaxRefusalsAssumption == MaxRefusals \in Nat

VARIABLES
  strategy,   \* strategy_state.status of each strategy, None without a row
  promotion,  \* promotion_requests, NoRequest without a row
  trail,      \* the audited statuses of each strategy, oldest first
  refusals,   \* permission_denied and strategy_transition_blocked events
  op          \* the call each process is in

vars == <<strategy, promotion, trail, refusals, op>>

\* The row of a request, with what its event promotion_requested records: the
\* role that asked, and how many events of the strategy stand before it.
PromotionRow ==
  [ strategy : Strategy, status : PromotionStatus, requester : ActorRole,
    asked : Nat, decider : ActorRole \cup {None} ]

NoRequest == [ strategy |-> None, status |-> None, requester |-> None,
               asked |-> 0, decider |-> None ]

TrailEvent ==
  [ role : ActorRole, previous : StrategyStatus \cup {None}, status : StrategyStatus ]

Operation ==
  [ stage : {"approving", "transitioning"}, role : ActorRole,
    strategy : Strategy, expected : StrategyStatus, target : StrategyStatus ]
  \cup
  [ stage : {"requesting"}, role : ActorRole, strategy : Strategy, request : Request ]

NoOperation == [ stage |-> "ready" ]

-----------------------------------------------------------------------------
(* Helpers *)

\* The manager asks its policy, the store the default one; a refusal by either
\* is audited and raises.
Allowed(role, capability) == role \in Policy[capability]

\* Mutant: a store that trusts the manager's policy.
StoreTrustsManager(role, capability) == TRUE

StoreAllows(role, capability) == role \in DEFAULT_GRANTS[capability]

Authorized(role, capability) ==
  Allowed(role, capability) /\ StoreAllows(role, capability)

Refuse ==
  /\ refusals < MaxRefusals
  /\ refusals' = refusals + 1

\* Mutants of the approval query: a request that is only not rejected counts;
\* the request of any strategy counts.
HasOpenPromotion(s) ==
  \E r \in Request : promotion[r].strategy = s /\ promotion[r].status # "REJECTED"

HasAnyApproval(s) == \E r \in Request : promotion[r].status = "APPROVED"

HasApprovedPromotion(s) ==
  \E r \in Request : promotion[r].strategy = s /\ promotion[r].status = "APPROVED"

InReview(s) == strategy[s] = "HUMAN_REVIEW"

\* The write of a strategy's row and the INSERT of its event, in one
\* transaction. The previous status of the event is what the manager says.
Persist(s, role, previous, target) ==
  /\ strategy' = [strategy EXCEPT ![s] = target]
  /\ trail' = [trail EXCEPT ![s] =
       Append(@, [ role |-> role, previous |-> previous, status |-> target ])]

\* The row of a request that role makes for s now.
Pending(s, role) ==
  [ strategy |-> s, status |-> "PENDING", requester |-> role,
    asked |-> Len(trail[s]), decider |-> None ]

Goto(p, o) == op' = [op EXCEPT ![p] = o]

Return(p) == Goto(p, NoOperation)

\* p waits in a stage whose transaction the store lets its actor run.
InTransaction(p, stage, capability) ==
  /\ op[p].stage = stage
  /\ StoreAllows(op[p].role, capability)

\* Mutant: an UPDATE without AND status = expected.
AlwaysUnmoved(p) == TRUE

\* The compare-and-swap of p finds the status p loaded.
Unmoved(p) == strategy[op[p].strategy] = op[p].expected

-----------------------------------------------------------------------------
(* Calls of one transaction *)

Init ==
  /\ strategy = [s \in Strategy |-> None]
  /\ promotion = [r \in Request |-> NoRequest]
  /\ trail = [s \in Strategy |-> << >>]
  /\ refusals = 0
  /\ op = [p \in Proc |-> NoOperation]

\* A refusal before anything is read or written.
Deny(p) ==
  /\ op[p].stage = "ready"
  /\ \E role \in ActorRole :
       \/ \E c \in {"INITIALIZE_STRATEGY", "DECIDE_REAL_PROMOTION"} : ~ Authorized(role, c)
       \/ \E c \in {"TRANSITION_STRATEGY", "REQUEST_REAL_PROMOTION"} : ~ Allowed(role, c)
  /\ Refuse
  /\ UNCHANGED <<strategy, promotion, trail, op>>

\* A strategy_id that has a row is an IntegrityError, and nothing changes.
InitializeStrategyState(p) ==
  /\ op[p].stage = "ready"
  /\ \E role \in ActorRole, s \in Strategy :
       /\ Authorized(role, "INITIALIZE_STRATEGY")
       /\ strategy[s] = None
       /\ Persist(s, role, None, "IDEA")
  /\ UNCHANGED <<promotion, refusals, op>>

\* Mutant: the UPDATE without AND status = PENDING.
DecideAnyRequest(p) ==
  /\ op[p].stage = "ready"
  /\ \E role \in ActorRole, r \in Request, decision \in {"APPROVED", "REJECTED"} :
       /\ Authorized(role, "DECIDE_REAL_PROMOTION")
       /\ promotion[r] # NoRequest
       /\ promotion' = [promotion EXCEPT ![r] =
            [@ EXCEPT !.status = decision, !.decider = role]]
  /\ UNCHANGED <<strategy, trail, refusals, op>>

\* UPDATE ... WHERE request_id = r AND status = PENDING, whatever has become of
\* the strategy.
DecidePromotionRequest(p) ==
  /\ op[p].stage = "ready"
  /\ \E role \in ActorRole, r \in Request, decision \in {"APPROVED", "REJECTED"} :
       /\ Authorized(role, "DECIDE_REAL_PROMOTION")
       /\ promotion[r].status = "PENDING"
       /\ promotion' = [promotion EXCEPT ![r] =
            [@ EXCEPT !.status = decision, !.decider = role]]
  /\ UNCHANGED <<strategy, trail, refusals, op>>

-----------------------------------------------------------------------------
(* StrategyStateManager.transition *)

\* The load and the validation; an absent row or a move off the allowlist
\* raises before anything changes.
LoadTransition(p) ==
  /\ op[p].stage = "ready"
  /\ \E role \in ActorRole, s \in Strategy, target \in StrategyStatus :
       /\ Allowed(role, "TRANSITION_STRATEGY")
       /\ ValidStrategyTransition(strategy[s], target)
       /\ Goto(p, [ stage |-> IF target = "REAL" THEN "approving" ELSE "transitioning",
                    role |-> role, strategy |-> s,
                    expected |-> strategy[s], target |-> target ])
  /\ UNCHANGED <<strategy, promotion, trail, refusals>>

\* REAL needs an approval: without one the attempt is audited and raises.
CheckApproval(p) ==
  /\ op[p].stage = "approving"
  /\ \/ /\ HasApprovedPromotion(op[p].strategy)
        /\ Goto(p, [op[p] EXCEPT !.stage = "transitioning"])
        /\ UNCHANGED refusals
     \/ /\ ~ HasApprovedPromotion(op[p].strategy)
        /\ Return(p)
        /\ Refuse
  /\ UNCHANGED <<strategy, promotion, trail>>

\* The transaction asks for the approval again, and for the status it expects.
\* The event was made by the manager, with the status it had loaded.
TransitionStrategyState(p) ==
  /\ InTransaction(p, "transitioning", "TRANSITION_STRATEGY")
  /\ op[p].target = "REAL" => HasApprovedPromotion(op[p].strategy)
  /\ Unmoved(p)
  /\ Persist(op[p].strategy, op[p].role, op[p].expected, op[p].target)
  /\ Return(p)
  /\ UNCHANGED <<promotion, refusals>>

-----------------------------------------------------------------------------
(* PromotionManager.request *)

LoadRequest(p) ==
  /\ op[p].stage = "ready"
  /\ \E role \in ActorRole, s \in Strategy, r \in Request :
       /\ Allowed(role, "REQUEST_REAL_PROMOTION")
       /\ InReview(s)
       /\ Goto(p, [ stage |-> "requesting", role |-> role, strategy |-> s, request |-> r ])
  /\ UNCHANGED <<strategy, promotion, trail, refusals>>

\* Mutant: a status outside the enumeration; the table has no CHECK.
AppendOpenRequest(p) ==
  /\ InTransaction(p, "requesting", "REQUEST_REAL_PROMOTION")
  /\ InReview(op[p].strategy)
  /\ promotion[op[p].request] = NoRequest
  /\ promotion' = [promotion EXCEPT ![op[p].request] =
       [Pending(op[p].strategy, op[p].role) EXCEPT !.status = "OPEN"]]
  /\ Return(p)
  /\ UNCHANGED <<strategy, trail, refusals>>

\* Mutant: a transaction that trusts the status the manager loaded.
AppendAsLoaded(p) ==
  /\ InTransaction(p, "requesting", "REQUEST_REAL_PROMOTION")
  /\ promotion[op[p].request] = NoRequest
  /\ promotion' = [promotion EXCEPT ![op[p].request] = Pending(op[p].strategy, op[p].role)]
  /\ Return(p)
  /\ UNCHANGED <<strategy, trail, refusals>>

\* The transaction reads the strategy again; a request_id that has a row is an
\* IntegrityError.
AppendPromotionRequest(p) ==
  /\ InTransaction(p, "requesting", "REQUEST_REAL_PROMOTION")
  /\ InReview(op[p].strategy)
  /\ promotion[op[p].request] = NoRequest
  /\ promotion' = [promotion EXCEPT ![op[p].request] = Pending(op[p].strategy, op[p].role)]
  /\ Return(p)
  /\ UNCHANGED <<strategy, trail, refusals>>

-----------------------------------------------------------------------------
(* Calls that end without an effect *)

\* _require of the store.
StoreDenies(p) ==
  /\ \/ /\ op[p].stage = "transitioning"
        /\ ~ StoreAllows(op[p].role, "TRANSITION_STRATEGY")
     \/ /\ op[p].stage = "requesting"
        /\ ~ StoreAllows(op[p].role, "REQUEST_REAL_PROMOTION")
  /\ Return(p)
  /\ Refuse
  /\ UNCHANGED <<strategy, promotion, trail>>

\* ConcurrentStateUpdate, PromotionRequestError, a DatabaseError that rolls the
\* transaction back, or the death of the process between its steps.
Abandon(p) ==
  /\ op[p].stage # "ready"
  /\ Return(p)
  /\ UNCHANGED <<strategy, promotion, trail, refusals>>

Next ==
  \E p \in Proc :
    \/ Deny(p) \/ InitializeStrategyState(p) \/ DecidePromotionRequest(p)
    \/ LoadTransition(p) \/ CheckApproval(p) \/ TransitionStrategyState(p)
    \/ LoadRequest(p) \/ AppendPromotionRequest(p)
    \/ StoreDenies(p) \/ Abandon(p)

Spec == Init /\ [][Next]_vars

-----------------------------------------------------------------------------
(* Properties *)

\* Every variable has its type.
TypeOK ==
  /\ strategy \in [Strategy -> StrategyStatus \cup {None}]
  /\ promotion \in [Request -> PromotionRow \cup {NoRequest}]
  /\ trail \in [Strategy -> Seq(TrailEvent)]
  /\ refusals \in 0 .. MaxRefusals
  /\ op \in [Proc -> Operation \cup {NoOperation}]

FollowsPipeline(events, status) ==
  LET n == Len(events)
  IN  /\ n = 0 <=> status = None
      /\ n > 0 => events[n].status = status
      /\ \A i \in 1 .. n :
           /\ events[i].previous = IF i = 1 THEN None ELSE events[i - 1].status
           /\ \/ i \in 1 .. Len(STRATEGY_SEQUENCE) /\ events[i].status = STRATEGY_SEQUENCE[i]
              \/ i = n /\ i > 1 /\ events[i].status \in Discarded

\* The audited life of a strategy is the pipeline from its start, without a gap
\* and without a repeated stage, ended at most once by a discard; and the row is
\* its last status. Two validators that read the same status cannot both move
\* it, nor one take it from where the other has put it.
NoStageSkipped == \A s \in Strategy : FollowsPipeline(trail[s], strategy[s])

\* In the audit trail the event of a request comes right after the one that
\* brought its strategy to the human review: nobody asks for a strategy that has
\* not come there, nor for one that has left. request checks the stage before
\* and again inside its transaction, because the strategy may leave the review
\* in between.
RequestsFollowReview ==
  \A r \in Request : promotion[r] # NoRequest =>
    /\ promotion[r].asked \in 1 .. Len(trail[promotion[r].strategy])
    /\ trail[promotion[r].strategy][promotion[r].asked].status = "HUMAN_REVIEW"

\* A decision is final and a human's: two people who decide the same request do
\* not overwrite each other, and no request is asked again under its identifier.
DecisionsFinal ==
  [][ \A r \in Request :
        promotion[r].status \in {"APPROVED", "REJECTED"} =>
          promotion'[r] = promotion[r] /\ promotion[r].decider = "HUMAN" ]_promotion

\* Whatever policy the managers are given, a strategy is created by the
\* Supervisor and moved by the Validator only, the Supervisor asks for its
\* promotion and a human decides on it: the store asks its own policy again
\* (SQLiteStore._require).
RolesSeparated ==
  /\ \A s \in Strategy : \A i \in 1 .. Len(trail[s]) :
       trail[s][i].role = IF i = 1 THEN "SUPERVISOR" ELSE "VALIDATOR"
  /\ \A r \in Request : promotion[r] # NoRequest =>
       /\ promotion[r].requester = "SUPERVISOR"
       /\ promotion[r].decider \in {None, "HUMAN"}

Approved ==
  { s \in Strategy : \E r \in Request :
      promotion[r].strategy = s /\ promotion[r].status = "APPROVED" }

Gate == INSTANCE PromotionGate WITH stage <- strategy, approved <- Approved

\* The tables and the processes do no more than the promotion gate does; above
\* all, no strategy becomes REAL without an approval (has_approved_promotion
\* outside the transaction, the same query and the compare-and-swap inside).
ImplementsGate == Gate!Spec
=============================================================================
