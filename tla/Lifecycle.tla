------------------------------ MODULE Lifecycle ------------------------------
(***************************************************************************)
(* The vocabularies and allowlists that every component of the lab shares: *)
(* statuses and roles (models.py), the two transition tables              *)
(* (transitions.py) and the capability grants (authorization.py).         *)
(***************************************************************************)
EXTENDS Naturals, Sequences

\* No row, no cached value, no operation.
None == "NONE"

-----------------------------------------------------------------------------
(* The global state machine. *)

SystemStatus ==
  {"IDLE", "RUNNING", "PAUSED", "ERROR", "STOPPED", "EMERGENCY_STOPPED"}

\* The allowlist of ordinary moves. EMERGENCY_STOPPED has neither an entry nor
\* an exit in it: both have a path of their own.
SYSTEM_TRANSITIONS ==
  { <<"IDLE", "RUNNING">>,   <<"IDLE", "STOPPED">>,
    <<"RUNNING", "PAUSED">>, <<"RUNNING", "ERROR">>, <<"RUNNING", "STOPPED">>,
    <<"PAUSED", "RUNNING">>, <<"PAUSED", "STOPPED">>,
    <<"ERROR", "RUNNING">>,  <<"ERROR", "STOPPED">>,
    <<"STOPPED", "IDLE">> }

ValidSystemTransition(current, target) ==
  <<current, target>> \in SYSTEM_TRANSITIONS

-----------------------------------------------------------------------------
(* The strategy state machine. *)

STRATEGY_SEQUENCE ==
  << "IDEA", "BACKTEST", "VALIDATION", "OUT_OF_SAMPLE", "MONTE_CARLO",
     "DEMO_CANDIDATE", "DEMO", "HUMAN_REVIEW", "REAL" >>

\* Outcomes any stage but REAL may fall to, and that nothing leaves.
Discarded == {"REJECTED", "NEEDS_RESEARCH"}

StrategyStatus ==
  { STRATEGY_SEQUENCE[i] : i \in 1 .. Len(STRATEGY_SEQUENCE) } \cup Discarded

STRATEGY_TRANSITIONS ==
  UNION { {STRATEGY_SEQUENCE[i]} \X ({STRATEGY_SEQUENCE[i + 1]} \cup Discarded)
          : i \in 1 .. Len(STRATEGY_SEQUENCE) - 1 }

ValidStrategyTransition(current, target) ==
  <<current, target>> \in STRATEGY_TRANSITIONS

-----------------------------------------------------------------------------
(* Promotion requests. EXPIRED is in the enumeration; nothing ever writes it. *)

PromotionStatus == {"PENDING", "APPROVED", "REJECTED", "EXPIRED"}

-----------------------------------------------------------------------------
(* Actors and capabilities. *)

ActorRole == {"SYSTEM", "SUPERVISOR", "VALIDATOR", "HUMAN"}

Capability ==
  { "MANAGE_SYSTEM_STATE", "EMERGENCY_STOP", "CLEAR_EMERGENCY_STOP",
    "INITIALIZE_STRATEGY", "TRANSITION_STRATEGY",
    "REQUEST_REAL_PROMOTION", "DECIDE_REAL_PROMOTION" }

\* The closed allowlist AuthorizationPolicy uses unless it is given another.
DEFAULT_GRANTS ==
  [ MANAGE_SYSTEM_STATE    |-> {"SYSTEM", "SUPERVISOR", "HUMAN"},
    EMERGENCY_STOP         |-> {"SYSTEM", "HUMAN"},
    CLEAR_EMERGENCY_STOP   |-> {"HUMAN"},
    INITIALIZE_STRATEGY    |-> {"SUPERVISOR"},
    TRANSITION_STRATEGY    |-> {"VALIDATOR"},
    REQUEST_REAL_PROMOTION |-> {"SUPERVISOR"},
    DECIDE_REAL_PROMOTION  |-> {"HUMAN"} ]
=============================================================================
