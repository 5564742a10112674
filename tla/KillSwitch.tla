------------------------------ MODULE KillSwitch ------------------------------
(***************************************************************************)
(* What the store promises about the global state, whatever the number of  *)
(* processes that write it: one status that moves atomically, every move   *)
(* legal from the status it really leaves, made by a role that may make    *)
(* it, and logged in the same step. The emergency stop wins over every     *)
(* status and is left only to STOPPED, by a human.                         *)
(***************************************************************************)
EXTENDS Lifecycle

VARIABLES
  status,  \* the global status, None before the database is initialised
  log      \* the moves made so far

vars == <<status, log>>

Move(type, role, target) ==
  /\ status' = target
  /\ log' = Append(log, [ type |-> type, role |-> role,
                          previous |-> status, status |-> target ])

Init == status = None /\ log = << >>

Start == status = None /\ Move("system_initialized", "SYSTEM", "IDLE")

Change(role, target) ==
  /\ role \in DEFAULT_GRANTS["MANAGE_SYSTEM_STATE"]
  /\ ValidSystemTransition(status, target)
  /\ Move("system_state_changed", role, target)

Halt(role) ==
  /\ role \in DEFAULT_GRANTS["EMERGENCY_STOP"]
  /\ status \notin {None, "EMERGENCY_STOPPED"}
  /\ Move("emergency_stop", role, "EMERGENCY_STOPPED")

Release(role) ==
  /\ role \in DEFAULT_GRANTS["CLEAR_EMERGENCY_STOP"]
  /\ status = "EMERGENCY_STOPPED"
  /\ Move("emergency_stop_cleared", role, "STOPPED")

Next ==
  \/ Start
  \/ \E role \in ActorRole :
       \/ \E target \in SystemStatus : Change(role, target)
       \/ Halt(role)
       \/ Release(role)

Spec == Init /\ [][Next]_vars
=============================================================================
