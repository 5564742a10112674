------------------------------ MODULE SystemState ------------------------------
(***************************************************************************)
(* The global state of the lab: the one row of table system_state, its     *)
(* audit trail, and the StateManager of every process that opened the      *)
(* database (state.py, persistence.py).                                    *)
(*                                                                         *)
(* A call of a manager is two or three steps, because the manager reads    *)
(* the row before the transaction that writes it: a load, the transaction  *)
(* and, after a lost compare-and-swap, a second load. Other processes run  *)
(* between them. Every BEGIN IMMEDIATE transaction is one step, and may    *)
(* roll back instead.                                                      *)
(***************************************************************************)
EXTENDS Lifecycle

CONSTANTS
  Proc,    \* processes that open the database, one StateManager each
  Policy,  \* the AuthorizationPolicy given to the managers
  MaxOps   \* bound: calls of the managers in a behaviour

ASSUME PolicyAssumption == Policy \in [Capability -> SUBSET ActorRole]
ASSUME MaxOpsAssumption == MaxOps \in Nat

VARIABLES
  row,       \* system_state.status, None when the table is empty
  guarded,   \* is trigger forbid_invalid_system_transition in the database
  history,   \* the rows of audit_events that record a status, oldest first
  denials,   \* how many permission_denied rows audit_events has
  snapshot,  \* StateManager._snapshot of each process, None when it has none
  op,        \* the call each process is in
  calls      \* calls made so far

vars == <<row, guarded, history, denials, snapshot, op, calls>>

StatusEvent ==
  [ type : {"system_initialized", "system_state_changed",
            "emergency_stop", "emergency_stop_cleared"},
    role : ActorRole, previous : SystemStatus \cup {None}, status : SystemStatus ]

Operation ==
  [ stage : {"closed", "installing", "loading", "initializing",
             "ready", "writing", "refreshing"},
    kind : {None, "transition", "emergency", "clear"},
    role : ActorRole, expected : SystemStatus \cup {None},
    target : SystemStatus \cup {None} ]

At(stage) == [ stage |-> stage, kind |-> None, role |-> "SYSTEM",
               expected |-> None, target |-> None ]

-----------------------------------------------------------------------------
(* Helpers *)

Allowed(role, capability) == role \in Policy[capability]

\* Mutant: a store that trusts the manager's policy.
StoreTrustsManager(role, capability) == TRUE

\* SQLiteStore has a policy of its own, always the default one.
StoreAllows(role, capability) == role \in DEFAULT_GRANTS[capability]

CapabilityOf(kind) ==
  [ transition |-> "MANAGE_SYSTEM_STATE",
    emergency  |-> "EMERGENCY_STOP",
    clear      |-> "CLEAR_EMERGENCY_STOP" ][kind]

\* The trigger on UPDATE of system_state: the allowlist, and both ways of the
\* emergency stop.
TriggerAllows(old, new) ==
  \/ ValidSystemTransition(old, new)
  \/ old # "EMERGENCY_STOPPED" /\ new = "EMERGENCY_STOPPED"
  \/ old = "EMERGENCY_STOPPED" /\ new = "STOPPED"

\* A write of the row and the INSERT of its event, in one transaction. The
\* previous status of the event is what its caller says it is.
Persist(type, role, previous, target) ==
  /\ row' = target
  /\ history' = Append(history, [ type |-> type, role |-> role,
                                  previous |-> previous, status |-> target ])

Update(type, role, previous, target) ==
  /\ guarded => TriggerAllows(row, target)
  /\ Persist(type, role, previous, target)

Cache(p, status) == snapshot' = [snapshot EXCEPT ![p] = status]

Goto(p, o) == op' = [op EXCEPT ![p] = o]

\* The transaction of the call p is in: its stage, its kind, and what the
\* store itself asks of the actor.
InTransaction(p, kind) ==
  /\ op[p].stage = "writing"
  /\ op[p].kind = kind
  /\ StoreAllows(op[p].role, CapabilityOf(kind))

\* Mutant: an UPDATE without WHERE status = expected.
AlwaysUnmoved(p) == TRUE

\* The compare-and-swap of p finds the status p loaded.
Unmoved(p) == row = op[p].expected

-----------------------------------------------------------------------------
(* Opening the database *)

Init ==
  /\ row = None
  /\ guarded = FALSE
  /\ history = << >>
  /\ denials = 0
  /\ snapshot = [p \in Proc |-> None]
  /\ op = [p \in Proc |-> At("closed")]
  /\ calls = 0

\* SQLiteStore.__init__ replaces the triggers. executescript commits the open
\* transaction first, so the DROP is visible to everybody before the CREATE.
DropGuards(p) ==
  /\ op[p].stage = "closed"
  /\ guarded' = FALSE
  /\ Goto(p, At("installing"))
  /\ UNCHANGED <<row, history, denials, snapshot, calls>>

\* CREATE TRIGGER fails when another process has created it meanwhile, and
\* the constructor with it.
CreateGuards(p) ==
  /\ op[p].stage = "installing"
  /\ guarded' = TRUE
  /\ Goto(p, At(IF guarded THEN "closed" ELSE "loading"))
  /\ UNCHANGED <<row, history, denials, snapshot, calls>>

\* Mutant: a constructor that leaves an empty table as it is.
OpenOnly(p) ==
  /\ op[p].stage = "loading"
  /\ Cache(p, row)
  /\ Goto(p, At("ready"))
  /\ UNCHANGED <<row, guarded, history, denials, calls>>

\* StateManager.__init__ loads the row, and initialises the table only if it
\* saw none.
Open(p) ==
  /\ op[p].stage = "loading"
  /\ Cache(p, row)
  /\ Goto(p, At(IF row = None THEN "initializing" ELSE "ready"))
  /\ UNCHANGED <<row, guarded, history, denials, calls>>

\* INSERT OR IGNORE, audited only by the process whose row went in; both get
\* the row that is there.
InitializeSystemState(p) ==
  /\ op[p].stage = "initializing"
  /\ \/ /\ row = None
        /\ Persist("system_initialized", "SYSTEM", None, "IDLE")
        /\ Cache(p, "IDLE")
     \/ /\ row # None
        /\ Cache(p, row)
        /\ UNCHANGED <<row, history>>
  /\ Goto(p, At("ready"))
  /\ UNCHANGED <<guarded, denials, calls>>

-----------------------------------------------------------------------------
(* Starting a call *)

Begin(p) ==
  /\ op[p].stage = "ready"
  /\ calls < MaxOps
  /\ calls' = calls + 1

\* _require_permission of transition and emergency_stop: a refusal is audited
\* in a transaction of its own and ends the call.
Deny(p) ==
  /\ Begin(p)
  /\ \E role \in ActorRole, kind \in {"transition", "emergency"} :
       ~ Allowed(role, CapabilityOf(kind))
  /\ denials' = denials + 1
  /\ UNCHANGED <<row, guarded, history, snapshot, op>>

\* The load of a call: the cache takes the row, and the call goes on to its
\* transaction when the row lets it, or raises InvalidStateTransition.
Load(p, kind, role, target, legal) ==
  /\ Begin(p)
  /\ Cache(p, row)
  /\ Goto(p, IF legal
               THEN [ stage |-> "writing", kind |-> kind, role |-> role,
                      expected |-> row, target |-> target ]
               ELSE At("ready"))
  /\ UNCHANGED <<row, guarded, history, denials>>

\* A target of EMERGENCY_STOPPED is handed to emergency_stop.
LoadTransition(p) ==
  \E role \in ActorRole, target \in SystemStatus \ {"EMERGENCY_STOPPED"} :
    /\ Allowed(role, "MANAGE_SYSTEM_STATE")
    /\ Load(p, "transition", role, target, ValidSystemTransition(row, target))

LoadEmergencyStop(p) ==
  \E role \in ActorRole :
    /\ Allowed(role, "EMERGENCY_STOP")
    /\ Load(p, "emergency", role, "EMERGENCY_STOPPED", row # "EMERGENCY_STOPPED")

\* The manager asks no permission here: only the store does.
LoadClear(p) ==
  \E role \in ActorRole :
    Load(p, "clear", role, "STOPPED", row = "EMERGENCY_STOPPED")

-----------------------------------------------------------------------------
(* The transaction of a call *)

\* _require of the store: the refusal is audited, the call raises.
StoreDenies(p) ==
  /\ op[p].stage = "writing"
  /\ ~ StoreAllows(op[p].role, CapabilityOf(op[p].kind))
  /\ denials' = denials + 1
  /\ Goto(p, At("ready"))
  /\ UNCHANGED <<row, guarded, history, snapshot, calls>>

\* UPDATE ... WHERE status = expected. The event was made by the manager, with
\* the status it had loaded.
TransitionSystemState(p) ==
  /\ InTransaction(p, "transition")
  /\ Unmoved(p)
  /\ Update("system_state_changed", op[p].role, op[p].expected, op[p].target)
  /\ Cache(p, op[p].target)
  /\ Goto(p, At("ready"))
  /\ UNCHANGED <<guarded, denials, calls>>

\* No row matched: ConcurrentStateUpdate, rolled back; the manager reads again.
LoseRace(p) ==
  /\ InTransaction(p, "transition")
  /\ ~ Unmoved(p)
  /\ Goto(p, At("refreshing"))
  /\ UNCHANGED <<row, guarded, history, denials, snapshot, calls>>

Refresh(p) ==
  /\ op[p].stage = "refreshing"
  /\ Cache(p, row)
  /\ Goto(p, At("ready"))
  /\ UNCHANGED <<row, guarded, history, denials, calls>>

\* The transaction reads the row again, so it wins over any status, and puts
\* what it read in the event; a second emergency stop changes nothing and
\* audits nothing.
EmergencyStopSystem(p) ==
  /\ InTransaction(p, "emergency")
  /\ \/ /\ row # "EMERGENCY_STOPPED"
        /\ Update("emergency_stop", op[p].role, row, "EMERGENCY_STOPPED")
     \/ /\ row = "EMERGENCY_STOPPED"
        /\ UNCHANGED <<row, history>>
  /\ Cache(p, "EMERGENCY_STOPPED")
  /\ Goto(p, At("ready"))
  /\ UNCHANGED <<guarded, denials, calls>>

\* UPDATE ... WHERE status = 'EMERGENCY_STOPPED'. The previous status of the
\* event is that constant, whatever the transaction finds.
ClearEmergencyStop(p) ==
  /\ InTransaction(p, "clear")
  /\ row = "EMERGENCY_STOPPED"
  /\ Update("emergency_stop_cleared", op[p].role, "EMERGENCY_STOPPED", "STOPPED")
  /\ Cache(p, "STOPPED")
  /\ Goto(p, At("ready"))
  /\ UNCHANGED <<guarded, denials, calls>>

\* Somebody cleared it first: InvalidStateTransition, and nothing refreshes
\* the cache.
ClearTooLate(p) ==
  /\ InTransaction(p, "clear")
  /\ row # "EMERGENCY_STOPPED"
  /\ Goto(p, At("ready"))
  /\ UNCHANGED <<row, guarded, history, denials, snapshot, calls>>

\* A DatabaseError anywhere in a transaction rolls it back as PersistenceError;
\* in the constructor it leaves no manager.
RollBack(p) ==
  /\ op[p].stage \in {"initializing", "writing"}
  /\ Goto(p, At(IF op[p].stage = "writing" THEN "ready" ELSE "closed"))
  /\ UNCHANGED <<row, guarded, history, denials, snapshot, calls>>

\* The process ends or dies; only what was committed survives it.
Crash(p) ==
  /\ op[p].stage # "closed"
  /\ Cache(p, None)
  /\ Goto(p, At("closed"))
  /\ UNCHANGED <<row, guarded, history, denials, calls>>

-----------------------------------------------------------------------------

Next ==
  \E p \in Proc :
    \/ DropGuards(p) \/ CreateGuards(p) \/ Open(p)
    \/ InitializeSystemState(p)
    \/ Deny(p)
    \/ LoadTransition(p) \/ LoadEmergencyStop(p) \/ LoadClear(p)
    \/ StoreDenies(p)
    \/ TransitionSystemState(p) \/ LoseRace(p) \/ Refresh(p)
    \/ EmergencyStopSystem(p)
    \/ ClearEmergencyStop(p) \/ ClearTooLate(p)
    \/ RollBack(p) \/ Crash(p)

Spec == Init /\ [][Next]_vars

-----------------------------------------------------------------------------
(* Properties *)

\* Every variable has its type; a manager that answers has a cached status.
TypeOK ==
  /\ row \in SystemStatus \cup {None}
  /\ guarded \in BOOLEAN
  /\ history \in Seq(StatusEvent)
  /\ denials \in Nat
  /\ snapshot \in [Proc -> SystemStatus \cup {None}]
  /\ op \in [Proc -> Operation]
  /\ calls \in 0 .. MaxOps
  /\ \A p \in Proc :
       op[p].stage \in {"ready", "writing", "refreshing"} => snapshot[p] # None

\* The audit trail replays the row: it starts with the one initialisation,
\* each event leaves the status the event before it reached, and the last one
\* reached the status of the row. The previous_status of a transition is the
\* one its manager loaded before the transaction, that of a clear a constant:
\* they are what the write replaced only because its UPDATE asks for the very
\* same status (transition_system_state, clear_emergency_stop). Only an
\* emergency stop audits what its own transaction has read.
AuditReplaysRow ==
  /\ row = None <=> history = << >>
  /\ history # << >> =>
       /\ history[1].previous = None
       /\ history[Len(history)].status = row
  /\ \A i \in 2 .. Len(history) : history[i].previous = history[i - 1].status

\* A system in EMERGENCY_STOPPED stays there until a human clears it, and is
\* then STOPPED: no writer that read the row before the emergency stop takes
\* it back, with the trigger installed or not.
EmergencyLatched ==
  [][ row = "EMERGENCY_STOPPED" /\ row' # row =>
        /\ row' = "STOPPED"
        /\ history'[Len(history')].type = "emergency_stop_cleared"
        /\ history'[Len(history')].role = "HUMAN" ]_<<row, history>>

\* The processes together do no more than the atomic kill switch does: every
\* committed write is legal from the status it really replaces and is made by
\* a role the store's own policy grants it to, and everything else (loads,
\* refusals, lost races, roll backs, crashes) leaves row and trail alone.
KS == INSTANCE KillSwitch WITH status <- row, log <- history
ImplementsKillSwitch == KS!Spec
=============================================================================
