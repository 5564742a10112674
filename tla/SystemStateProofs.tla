--------------------------- MODULE SystemStateProofs ---------------------------
(***************************************************************************)
(* Proofs about SystemState, for any set of processes, any policy given to *)
(* the managers and any bound on the calls.                                *)
(***************************************************************************)
EXTENDS SystemState, TLAPS

-----------------------------------------------------------------------------
(* The inductive invariant *)

\* A transition waiting for its transaction was validated against the status
\* its compare-and-swap expects.
PendingLegal ==
  \A p \in Proc :
    op[p].stage = "writing" /\ op[p].kind = "transition"
      => ValidSystemTransition(op[p].expected, op[p].target)

\* A manager exists only over an initialised table.
Initialized ==
  \A p \in Proc :
    op[p].stage \in {"ready", "writing", "refreshing"} => row # None

IInv == TypeOK /\ PendingLegal /\ Initialized /\ AuditReplaysRow

-----------------------------------------------------------------------------
(* Lemmas *)

\* The calls between two calls are well-formed.
LEMMA AtType ==
  ASSUME NEW stage \in {"closed", "installing", "loading", "initializing",
                        "ready", "writing", "refreshing"}
  PROVE  /\ At(stage) \in Operation
         /\ At(stage).stage = stage
         /\ At(stage).kind = None
BY DEF At, Operation, ActorRole

\* The allowlist relates statuses, and never the emergency stop.
LEMMA TransitionStatuses ==
  ASSUME NEW current, NEW target, ValidSystemTransition(current, target)
  PROVE  /\ current \in SystemStatus \ {"EMERGENCY_STOPPED"}
         /\ target \in SystemStatus \ {"EMERGENCY_STOPPED"}
BY DEF ValidSystemTransition, SYSTEM_TRANSITIONS, SystemStatus

LEMMA NoneIsNoStatus == None \notin SystemStatus
BY DEF None, SystemStatus

\* A well-typed write whose event names the status it replaces extends a
\* well-typed trail, and keeps it a replay of the row.
LEMMA PersistReplays ==
  ASSUME TypeOK, AuditReplaysRow,
         NEW type \in {"system_initialized", "system_state_changed",
                       "emergency_stop", "emergency_stop_cleared"},
         NEW role \in ActorRole, NEW target \in SystemStatus,
         NEW previous, previous = row,
         Persist(type, role, previous, target)
  PROVE  /\ row' \in SystemStatus
         /\ history' \in Seq(StatusEvent)
         /\ AuditReplaysRow'
<1> DEFINE event == [ type |-> type, role |-> role,
                      previous |-> previous, status |-> target ]
<1>1. row' = target /\ history' = Append(history, event)
  BY DEF Persist
<1>2. event \in StatusEvent
  BY DEF StatusEvent, TypeOK
<1>3. history \in Seq(StatusEvent)
  BY DEF TypeOK
<1> HIDE DEF event
<1>4. history' \in Seq(StatusEvent)
  BY <1>1, <1>2, <1>3
<1>5. /\ Len(history') = Len(history) + 1
      /\ Len(history) \in Nat
      /\ history'[Len(history) + 1] = event
      /\ \A i \in 1 .. Len(history) : history'[i] = history[i]
  BY <1>1, <1>2, <1>3
<1>6. event.previous = row /\ event.status = target
  BY DEF event
<1>7. history' # << >> /\ row' # None
  BY <1>1, <1>4, <1>5, NoneIsNoStatus
<1>8. history'[Len(history')].status = row'
  BY <1>1, <1>5, <1>6
<1>9. history'[1].previous = None
  <2>1. CASE history = << >>
    BY <2>1, <1>5, <1>6 DEF AuditReplaysRow
  <2>2. CASE history # << >>
    <3>1. 1 \in 1 .. Len(history)
      BY <2>2, <1>3
    <3> QED
      BY <2>2, <3>1, <1>5 DEF AuditReplaysRow
  <2> QED
    BY <2>1, <2>2
<1>10. ASSUME NEW i \in 2 .. Len(history')
       PROVE  history'[i].previous = history'[i - 1].status
  <2>1. CASE i \in 2 .. Len(history)
    <3>1. i \in 1 .. Len(history) /\ i - 1 \in 1 .. Len(history)
      BY <2>1, <1>5
    <3> QED
      BY <2>1, <3>1, <1>5 DEF AuditReplaysRow
  <2>2. CASE i = Len(history) + 1
    <3>1. /\ Len(history) \in 1 .. Len(history)
          /\ i - 1 = Len(history)
      BY <2>2, <1>5
    <3>2. history # << >>
      BY <3>1, <1>3
    <3>3. history[Len(history)].status = row
      BY <3>2 DEF AuditReplaysRow
    <3> QED
      BY <2>2, <3>1, <3>3, <1>5, <1>6
  <2> QED
    BY <2>1, <2>2, <1>5
<1> QED
  BY <1>1, <1>4, <1>7, <1>8, <1>9, <1>10 DEF AuditReplaysRow

\* A step of one process changes its own call and cache only.
LEMMA GotoType ==
  ASSUME TypeOK, NEW p \in Proc, NEW o \in Operation, Goto(p, o)
  PROVE  /\ op' \in [Proc -> Operation]
         /\ op'[p] = o
         /\ \A q \in Proc \ {p} : op'[q] = op[q]
BY DEF TypeOK, Goto

LEMMA CacheType ==
  ASSUME TypeOK, NEW p \in Proc, NEW s \in SystemStatus \cup {None}, Cache(p, s)
  PROVE  /\ snapshot' \in [Proc -> SystemStatus \cup {None}]
         /\ snapshot'[p] = s
         /\ \A q \in Proc \ {p} : snapshot'[q] = snapshot[q]
BY DEF TypeOK, Cache

\* What a step must show for the invariant when it leaves the row alone: the
\* new call of its process is sound, and everything else keeps its type.
LEMMA QuietStep ==
  ASSUME IInv, NEW p \in Proc, NEW o \in Operation, Goto(p, o),
         UNCHANGED <<row, history>>,
         guarded' \in BOOLEAN, denials' \in Nat, calls' \in 0 .. MaxOps,
         snapshot' \in [Proc -> SystemStatus \cup {None}],
         \A q \in Proc \ {p} : snapshot'[q] = snapshot[q],
         o.stage \in {"ready", "writing", "refreshing"}
           => row # None /\ snapshot'[p] # None,
         o.stage = "writing" /\ o.kind = "transition"
           => ValidSystemTransition(o.expected, o.target)
  PROVE  IInv'
<1>1. /\ op' \in [Proc -> Operation]
      /\ op'[p] = o
      /\ \A q \in Proc \ {p} : op'[q] = op[q]
  BY GotoType DEF IInv
<1>2. TypeOK'
  BY <1>1 DEF IInv, TypeOK
<1>3. PendingLegal'
  BY <1>1 DEF IInv, PendingLegal
<1>4. Initialized'
  BY <1>1 DEF IInv, Initialized
<1>5. AuditReplaysRow'
  BY DEF IInv, AuditReplaysRow
<1> QED
  BY <1>2, <1>3, <1>4, <1>5 DEF IInv

\* The same for a step that writes the row and caches what it wrote.
LEMMA WritingStep ==
  ASSUME IInv, NEW p \in Proc,
         NEW type \in {"system_initialized", "system_state_changed",
                       "emergency_stop", "emergency_stop_cleared"},
         NEW role \in ActorRole, NEW target \in SystemStatus,
         NEW previous, previous = row,
         Persist(type, role, previous, target), Cache(p, target),
         Goto(p, At("ready")),
         UNCHANGED <<guarded, denials, calls>>
  PROVE  IInv'
<1>1. /\ row' \in SystemStatus
      /\ history' \in Seq(StatusEvent)
      /\ AuditReplaysRow'
  BY PersistReplays DEF IInv
<1>2. /\ At("ready") \in Operation
      /\ At("ready").stage = "ready"
  BY AtType
<1>3. /\ op' \in [Proc -> Operation]
      /\ op'[p] = At("ready")
      /\ \A q \in Proc \ {p} : op'[q] = op[q]
  BY <1>2, GotoType DEF IInv
<1>4. /\ snapshot' \in [Proc -> SystemStatus \cup {None}]
      /\ snapshot'[p] = target
      /\ \A q \in Proc \ {p} : snapshot'[q] = snapshot[q]
  BY CacheType DEF IInv
<1>5. TypeOK'
  BY <1>1, <1>3, <1>4, NoneIsNoStatus DEF IInv, TypeOK
<1>6. PendingLegal'
  BY <1>2, <1>3 DEF IInv, PendingLegal
<1>7. Initialized'
  BY <1>1, NoneIsNoStatus DEF Initialized
<1> QED
  BY <1>1, <1>5, <1>6, <1>7 DEF IInv

-----------------------------------------------------------------------------
(* The invariant is inductive *)

LEMMA InitIInv == Init => IInv
<1> SUFFICES ASSUME Init PROVE IInv
  OBVIOUS
<1>1. At("closed") \in Operation /\ At("closed").stage = "closed"
  BY AtType
<1>2. TypeOK
  <2>1. guarded \in BOOLEAN
    BY DEF Init
  <2>2. history \in Seq(StatusEvent) /\ denials \in Nat /\ calls \in 0 .. MaxOps
    BY MaxOpsAssumption DEF Init
  <2>3. row \in SystemStatus \cup {None}
    BY DEF Init
  <2>4. /\ snapshot \in [Proc -> SystemStatus \cup {None}]
        /\ op \in [Proc -> Operation]
        /\ \A p \in Proc : op[p].stage \in {"ready", "writing", "refreshing"}
                             => snapshot[p] # None
    BY <1>1 DEF Init
  <2> QED
    BY <2>1, <2>2, <2>3, <2>4 DEF TypeOK
<1>3. PendingLegal /\ Initialized
  BY <1>1 DEF Init, PendingLegal, Initialized
<1>4. AuditReplaysRow
  BY DEF Init, AuditReplaysRow
<1> QED
  BY <1>2, <1>3, <1>4 DEF IInv

LEMMA OpeningInv ==
  ASSUME IInv, NEW p \in Proc,
         \/ DropGuards(p) \/ CreateGuards(p) \/ Open(p)
         \/ InitializeSystemState(p)
  PROVE  IInv'
<1>1. CASE DropGuards(p)
  BY <1>1, AtType, QuietStep DEF DropGuards, IInv, TypeOK
<1>2. CASE CreateGuards(p)
  BY <1>2, AtType, QuietStep DEF CreateGuards, IInv, TypeOK
<1>3. CASE Open(p)
  <2>1. row \in SystemStatus \cup {None}
    BY DEF IInv, TypeOK
  <2>2. /\ snapshot' \in [Proc -> SystemStatus \cup {None}]
        /\ snapshot'[p] = row
        /\ \A q \in Proc \ {p} : snapshot'[q] = snapshot[q]
    BY <1>3, <2>1, CacheType DEF Open, IInv
  <2> QED
    BY <1>3, <2>2, AtType, QuietStep DEF Open, IInv, TypeOK
<1>4. CASE InitializeSystemState(p)
  <2>1. CASE row = None
    <3>1. /\ Persist("system_initialized", "SYSTEM", None, "IDLE")
          /\ Cache(p, "IDLE")
          /\ Goto(p, At("ready"))
          /\ UNCHANGED <<guarded, denials, calls>>
      BY <1>4, <2>1 DEF InitializeSystemState
    <3> QED
      BY <2>1, <3>1, WritingStep DEF ActorRole, SystemStatus
  <2>2. CASE row # None
    <3>1. row \in SystemStatus \cup {None} /\ Cache(p, row)
      BY <1>4, <2>2 DEF InitializeSystemState, IInv, TypeOK
    <3>2. /\ snapshot' \in [Proc -> SystemStatus \cup {None}]
          /\ snapshot'[p] = row
          /\ \A q \in Proc \ {p} : snapshot'[q] = snapshot[q]
      BY <3>1, CacheType DEF IInv
    <3> QED
      BY <1>4, <2>2, <3>2, AtType, QuietStep
      DEF InitializeSystemState, IInv, TypeOK
  <2> QED
    BY <2>1, <2>2
<1> QED
  BY <1>1, <1>2, <1>3, <1>4

\* The start of a call: a refusal, or the load.
LEMMA LoadInv ==
  ASSUME IInv, NEW p \in Proc, NEW kind \in {"transition", "emergency", "clear"},
         NEW role \in ActorRole, NEW target \in SystemStatus, NEW legal \in BOOLEAN,
         legal /\ kind = "transition" => ValidSystemTransition(row, target),
         Load(p, kind, role, target, legal)
  PROVE  IInv'
<1> DEFINE o == IF legal
                  THEN [ stage |-> "writing", kind |-> kind, role |-> role,
                         expected |-> row, target |-> target ]
                  ELSE At("ready")
<1>1. op[p].stage = "ready" /\ calls' = calls + 1 /\ calls < MaxOps
  BY DEF Load, Begin
<1>2. row \in SystemStatus
  BY <1>1 DEF IInv, TypeOK, Initialized
<1>3. o \in Operation
  BY <1>2, AtType DEF Operation
<1>4. /\ o.stage \in {"ready", "writing"}
      /\ legal => o.kind = kind /\ o.expected = row /\ o.target = target
      /\ ~ legal => o.kind = None
  BY AtType
<1>5. /\ snapshot' \in [Proc -> SystemStatus \cup {None}]
      /\ snapshot'[p] = row
      /\ \A q \in Proc \ {p} : snapshot'[q] = snapshot[q]
  BY <1>2, CacheType DEF Load, IInv
<1>6. Goto(p, o) /\ UNCHANGED <<row, guarded, history, denials>>
  BY DEF Load
<1>7. calls' \in 0 .. MaxOps
  BY <1>1, MaxOpsAssumption DEF IInv, TypeOK
<1>8. o.stage = "writing" /\ o.kind = "transition"
        => ValidSystemTransition(o.expected, o.target)
  BY <1>4 DEF None
<1>9. /\ guarded' \in BOOLEAN
      /\ denials' \in Nat
  BY <1>6 DEF IInv, TypeOK
<1>10. row # None
  BY <1>2, NoneIsNoStatus
<1> HIDE DEF o
<1> QED
  BY <1>3, <1>5, <1>6, <1>7, <1>8, <1>9, <1>10, QuietStep

LEMMA CallInv ==
  ASSUME IInv, NEW p \in Proc,
         \/ Deny(p) \/ LoadTransition(p) \/ LoadEmergencyStop(p)
         \/ LoadClear(p)
  PROVE  IInv'
<1>1. CASE Deny(p)
  <2>1. /\ calls' \in 0 .. MaxOps
        /\ denials' \in Nat
    BY <1>1, MaxOpsAssumption DEF Deny, Begin, IInv, TypeOK
  <2>2. UNCHANGED <<row, guarded, history, snapshot, op>>
    BY <1>1 DEF Deny
  <2>3. TypeOK'
    BY <2>1, <2>2 DEF IInv, TypeOK
  <2> QED
    BY <2>2, <2>3 DEF IInv, PendingLegal, Initialized, AuditReplaysRow
<1>2. CASE LoadTransition(p)
  <2>1. PICK role \in ActorRole, target \in SystemStatus :
          Load(p, "transition", role, target, ValidSystemTransition(row, target))
    BY <1>2 DEF LoadTransition
  <2>2. ValidSystemTransition(row, target) \in BOOLEAN
    BY DEF ValidSystemTransition
  <2> QED
    BY <2>1, <2>2, LoadInv
<1>3. CASE LoadEmergencyStop(p)
  <2>1. PICK role \in ActorRole :
          Load(p, "emergency", role, "EMERGENCY_STOPPED", row # "EMERGENCY_STOPPED")
    BY <1>3 DEF LoadEmergencyStop
  <2> QED
    BY <2>1, LoadInv DEF SystemStatus
<1>4. CASE LoadClear(p)
  <2>1. PICK role \in ActorRole :
          Load(p, "clear", role, "STOPPED", row = "EMERGENCY_STOPPED")
    BY <1>4 DEF LoadClear
  <2> QED
    BY <2>1, LoadInv DEF SystemStatus
<1> QED
  BY <1>1, <1>2, <1>3, <1>4

\* The end of a call: its transaction, in each of its outcomes.
LEMMA TransactionInv ==
  ASSUME IInv, NEW p \in Proc,
         \/ StoreDenies(p) \/ TransitionSystemState(p) \/ LoseRace(p)
         \/ EmergencyStopSystem(p)
         \/ ClearEmergencyStop(p) \/ ClearTooLate(p) \/ RollBack(p)
  PROVE  IInv'
<1>1. /\ snapshot \in [Proc -> SystemStatus \cup {None}]
      /\ guarded \in BOOLEAN /\ denials \in Nat /\ calls \in 0 .. MaxOps
      /\ op[p] \in Operation
  BY DEF IInv, TypeOK
<1>2. op[p].stage = "writing" => row # None /\ snapshot[p] # None
  BY DEF IInv, Initialized, TypeOK
<1>3. /\ At("ready") \in Operation /\ At("ready").stage = "ready"
      /\ At("refreshing") \in Operation /\ At("refreshing").stage = "refreshing"
      /\ At("closed") \in Operation /\ At("closed").stage = "closed"
  BY AtType
<1>4. CASE StoreDenies(p)
  BY <1>1, <1>2, <1>3, <1>4, QuietStep DEF StoreDenies
<1>5. CASE TransitionSystemState(p)
  <2>1. ValidSystemTransition(op[p].expected, op[p].target)
    BY <1>5 DEF TransitionSystemState, Unmoved, InTransaction, IInv, PendingLegal
  <2>2. op[p].target \in SystemStatus /\ op[p].role \in ActorRole
    BY <1>1, <2>1, TransitionStatuses DEF Operation
  <2>3. /\ op[p].expected = row
        /\ Persist("system_state_changed", op[p].role, op[p].expected, op[p].target)
        /\ Cache(p, op[p].target)
        /\ Goto(p, At("ready"))
        /\ UNCHANGED <<guarded, denials, calls>>
    BY <1>5 DEF TransitionSystemState, Unmoved, Update
  <2> QED
    BY <2>2, <2>3, WritingStep
<1>6. CASE LoseRace(p)
  BY <1>1, <1>2, <1>3, <1>6, QuietStep DEF LoseRace, InTransaction
<1>7. CASE EmergencyStopSystem(p)
  <2>1. CASE row # "EMERGENCY_STOPPED"
    <3>1. op[p].role \in ActorRole
      BY <1>1 DEF Operation
    <3>2. /\ Persist("emergency_stop", op[p].role, row, "EMERGENCY_STOPPED")
          /\ Cache(p, "EMERGENCY_STOPPED")
          /\ Goto(p, At("ready"))
          /\ UNCHANGED <<guarded, denials, calls>>
      BY <1>7, <2>1 DEF EmergencyStopSystem, Update
    <3> QED
      BY <3>1, <3>2, WritingStep DEF SystemStatus
  <2>2. CASE row = "EMERGENCY_STOPPED"
    <3>1. /\ UNCHANGED <<row, history, guarded, denials, calls>>
          /\ Cache(p, "EMERGENCY_STOPPED")
          /\ Goto(p, At("ready"))
      BY <1>7, <2>2 DEF EmergencyStopSystem
    <3>2. "EMERGENCY_STOPPED" \in SystemStatus
      BY DEF SystemStatus
    <3>3. /\ snapshot' \in [Proc -> SystemStatus \cup {None}]
          /\ snapshot'[p] = "EMERGENCY_STOPPED"
          /\ \A q \in Proc \ {p} : snapshot'[q] = snapshot[q]
      BY <3>1, <3>2, CacheType DEF IInv
    <3>4. row # None /\ snapshot'[p] # None
      BY <2>2, <3>2, <3>3, NoneIsNoStatus
    <3> QED
      BY <1>1, <1>3, <3>1, <3>3, <3>4, QuietStep
  <2> QED
    BY <2>1, <2>2
<1>8. CASE ClearEmergencyStop(p)
  <2>1. op[p].role \in ActorRole
    BY <1>1 DEF Operation
  <2>2. /\ row = "EMERGENCY_STOPPED"
        /\ Persist("emergency_stop_cleared", op[p].role, "EMERGENCY_STOPPED", "STOPPED")
        /\ Cache(p, "STOPPED")
        /\ Goto(p, At("ready"))
        /\ UNCHANGED <<guarded, denials, calls>>
    BY <1>8 DEF ClearEmergencyStop, Update
  <2> QED
    BY <2>1, <2>2, WritingStep DEF SystemStatus
<1>9. CASE ClearTooLate(p)
  BY <1>1, <1>2, <1>3, <1>9, QuietStep DEF ClearTooLate, InTransaction
<1>10. CASE RollBack(p)
  <2>1. CASE op[p].stage = "writing"
    BY <1>1, <1>2, <1>3, <1>10, <2>1, QuietStep DEF RollBack
  <2>2. CASE op[p].stage # "writing"
    BY <1>1, <1>3, <1>10, <2>2, QuietStep DEF RollBack
  <2> QED
    BY <2>1, <2>2
<1> QED
  BY <1>4, <1>5, <1>6, <1>7, <1>8, <1>9, <1>10

\* What a process does outside a call.
LEMMA OutsideInv ==
  ASSUME IInv, NEW p \in Proc, Refresh(p) \/ Crash(p)
  PROVE  IInv'
<1>1. row \in SystemStatus \cup {None}
  BY DEF IInv, TypeOK
<1>2. CASE Refresh(p)
  <2>1. /\ snapshot' \in [Proc -> SystemStatus \cup {None}]
        /\ snapshot'[p] = row
        /\ \A q \in Proc \ {p} : snapshot'[q] = snapshot[q]
    BY <1>1, <1>2, CacheType DEF Refresh, IInv
  <2>2. row # None
    BY <1>2 DEF Refresh, IInv, Initialized
  <2> QED
    BY <1>2, <2>1, <2>2, AtType, QuietStep DEF Refresh, IInv, TypeOK
<1>3. CASE Crash(p)
  <2>1. /\ snapshot' \in [Proc -> SystemStatus \cup {None}]
        /\ \A q \in Proc \ {p} : snapshot'[q] = snapshot[q]
    BY <1>3, CacheType DEF Crash, IInv
  <2> QED
    BY <1>3, <2>1, AtType, QuietStep DEF Crash, IInv, TypeOK
<1> QED
  BY <1>2, <1>3

LEMMA NextIInv == IInv /\ [Next]_vars => IInv'
<1> SUFFICES ASSUME IInv, [Next]_vars PROVE IInv'
  OBVIOUS
<1>1. CASE Next
  <2>1. PICK p \in Proc :
          \/ DropGuards(p) \/ CreateGuards(p) \/ Open(p)
          \/ InitializeSystemState(p)
          \/ Deny(p)
          \/ LoadTransition(p) \/ LoadEmergencyStop(p) \/ LoadClear(p)
          \/ StoreDenies(p)
          \/ TransitionSystemState(p) \/ LoseRace(p) \/ Refresh(p)
          \/ EmergencyStopSystem(p)
          \/ ClearEmergencyStop(p) \/ ClearTooLate(p)
          \/ RollBack(p) \/ Crash(p)
    BY <1>1 DEF Next
  <2> QED
    BY <2>1, OpeningInv, CallInv, TransactionInv, OutsideInv
<1>2. CASE UNCHANGED vars
  <2>1. TypeOK'
    BY <1>2 DEF vars, IInv, TypeOK
  <2> QED
    BY <1>2, <2>1 DEF vars, IInv, PendingLegal, Initialized, AuditReplaysRow
<1> QED
  BY <1>1, <1>2

\* The strengthened invariant holds in every reachable state.
LEMMA Invariance == Spec => []IInv
BY InitIInv, NextIInv, PTL DEF Spec

-----------------------------------------------------------------------------
(* Safety *)

\* Every variable keeps its type, and an open manager its cached status.
THEOREM TypeCorrect == Spec => []TypeOK
BY Invariance, PTL DEF IInv

\* The audit trail of the global state is a replay of it, although a transition
\* and a clear audit what their manager believed: the row their UPDATE found is
\* the one the event names.
THEOREM AuditCorrect == Spec => []AuditReplaysRow
BY Invariance, PTL DEF IInv

-----------------------------------------------------------------------------
(* Refinement of KillSwitch *)

\* The two modules speak of the same statuses, roles and grants.
LEMMA SameVocabulary ==
  /\ KS!None = None
  /\ KS!ActorRole = ActorRole
  /\ KS!SystemStatus = SystemStatus
  /\ KS!DEFAULT_GRANTS = DEFAULT_GRANTS
  /\ \A current, target :
       KS!ValidSystemTransition(current, target) <=> ValidSystemTransition(current, target)
<1>1. /\ KS!None = None
      /\ KS!ActorRole = ActorRole
      /\ KS!SystemStatus = SystemStatus
      /\ KS!SYSTEM_TRANSITIONS = SYSTEM_TRANSITIONS
  BY DEF KS!None, None, KS!ActorRole, ActorRole, KS!SystemStatus, SystemStatus,
         KS!SYSTEM_TRANSITIONS, SYSTEM_TRANSITIONS
<1>2. KS!DEFAULT_GRANTS = DEFAULT_GRANTS
  BY DEF KS!DEFAULT_GRANTS, DEFAULT_GRANTS
<1> QED
  BY <1>1, <1>2 DEF KS!ValidSystemTransition, ValidSystemTransition

\* A step of any process is a step of the kill switch or leaves it alone.
LEMMA StepRefines == IInv /\ [Next]_vars => [KS!Next]_(KS!vars)
<1> SUFFICES ASSUME IInv, [Next]_vars PROVE [KS!Next]_(KS!vars)
  OBVIOUS
<1>1. CASE UNCHANGED vars
  BY <1>1 DEF vars, KS!vars
<1>2. ASSUME NEW p \in Proc, InitializeSystemState(p)
      PROVE  [KS!Next]_(KS!vars)
  <2>1. CASE row = None
    <3>1. Persist("system_initialized", "SYSTEM", None, "IDLE")
      BY <1>2, <2>1 DEF InitializeSystemState
    <3>2. KS!Start
      BY <2>1, <3>1, SameVocabulary DEF KS!Start, KS!Move, Persist
    <3> QED
      BY <3>2, SameVocabulary DEF KS!Next
  <2>2. CASE row # None
    BY <1>2, <2>2 DEF InitializeSystemState, KS!vars
  <2> QED
    BY <2>1, <2>2
<1>3. ASSUME NEW p \in Proc, TransitionSystemState(p)
      PROVE  [KS!Next]_(KS!vars)
  <2>1. /\ row = op[p].expected
        /\ ValidSystemTransition(row, op[p].target)
        /\ op[p].role \in DEFAULT_GRANTS["MANAGE_SYSTEM_STATE"]
        /\ Persist("system_state_changed", op[p].role, row, op[p].target)
    BY <1>3 DEF TransitionSystemState, Unmoved, InTransaction, StoreAllows, CapabilityOf,
                Update, IInv, PendingLegal
  <2>2. op[p].target \in SystemStatus /\ op[p].role \in ActorRole
    BY <2>1, TransitionStatuses DEF IInv, TypeOK, Operation
  <2>3. KS!Change(op[p].role, op[p].target)
    BY <2>1, SameVocabulary DEF KS!Change, KS!Move, Persist
  <2> QED
    BY <2>2, <2>3, SameVocabulary DEF KS!Next
<1>4. ASSUME NEW p \in Proc, EmergencyStopSystem(p)
      PROVE  [KS!Next]_(KS!vars)
  <2>1. /\ op[p].role \in DEFAULT_GRANTS["EMERGENCY_STOP"]
        /\ op[p].stage = "writing"
    BY <1>4 DEF EmergencyStopSystem, InTransaction, StoreAllows, CapabilityOf
  <2>2. op[p].role \in ActorRole
    BY DEF IInv, TypeOK, Operation
  <2>3. CASE row # "EMERGENCY_STOPPED"
    <3>1. Persist("emergency_stop", op[p].role, row, "EMERGENCY_STOPPED")
      BY <1>4, <2>3 DEF EmergencyStopSystem, Update
    <3>2. row # None
      BY <2>1 DEF IInv, Initialized
    <3>3. KS!Halt(op[p].role)
      BY <2>1, <2>3, <3>1, <3>2, SameVocabulary DEF KS!Halt, KS!Move, Persist
    <3> QED
      BY <2>2, <3>3, SameVocabulary DEF KS!Next
  <2>4. CASE row = "EMERGENCY_STOPPED"
    BY <1>4, <2>4 DEF EmergencyStopSystem, KS!vars
  <2> QED
    BY <2>3, <2>4
<1>5. ASSUME NEW p \in Proc, ClearEmergencyStop(p)
      PROVE  [KS!Next]_(KS!vars)
  <2>1. /\ op[p].role \in DEFAULT_GRANTS["CLEAR_EMERGENCY_STOP"]
        /\ row = "EMERGENCY_STOPPED"
        /\ Persist("emergency_stop_cleared", op[p].role, row, "STOPPED")
    BY <1>5 DEF ClearEmergencyStop, InTransaction, StoreAllows, CapabilityOf, Update
  <2>2. op[p].role \in ActorRole
    BY DEF IInv, TypeOK, Operation
  <2>3. KS!Release(op[p].role)
    BY <2>1, SameVocabulary DEF KS!Release, KS!Move, Persist
  <2> QED
    BY <2>2, <2>3, SameVocabulary DEF KS!Next
<1>6. ASSUME NEW p \in Proc,
             \/ DropGuards(p) \/ CreateGuards(p) \/ Open(p)
             \/ Deny(p)
             \/ LoadTransition(p) \/ LoadEmergencyStop(p) \/ LoadClear(p)
             \/ StoreDenies(p) \/ LoseRace(p) \/ Refresh(p)
             \/ ClearTooLate(p) \/ RollBack(p) \/ Crash(p)
      PROVE  UNCHANGED KS!vars
  BY <1>6 DEF DropGuards, CreateGuards, Open, Deny, LoadTransition,
              LoadEmergencyStop, LoadClear, Load, StoreDenies, LoseRace, Refresh,
              ClearTooLate, RollBack, Crash, KS!vars
<1> QED
  BY <1>1, <1>2, <1>3, <1>4, <1>5, <1>6 DEF Next

\* The processes implement the kill switch: what they commit is always legal
\* from the status it replaces and made by a role the store allows, whatever
\* policy the managers were given, and with the trigger or without it.
THEOREM Implements == Spec => ImplementsKillSwitch
<1>1. Init => KS!Init
  BY SameVocabulary DEF Init, KS!Init
<1> QED
  BY <1>1, StepRefines, Invariance, PTL DEF Spec, ImplementsKillSwitch, KS!Spec

\* The emergency stop is left only to STOPPED, and only by a human's clear.
THEOREM Latched == Spec => EmergencyLatched
<1>1. ASSUME IInv, [Next]_vars, row = "EMERGENCY_STOPPED", row' # row
      PROVE  /\ row' = "STOPPED"
             /\ history'[Len(history')].type = "emergency_stop_cleared"
             /\ history'[Len(history')].role = "HUMAN"
  <2>1. KS!Next
    BY <1>1, StepRefines DEF KS!vars
  <2>2. PICK role \in ActorRole : KS!Release(role)
    <3>1. ~ KS!Start
      BY <1>1, SameVocabulary DEF KS!Start, None
    <3>2. ASSUME NEW role \in ActorRole, NEW target \in SystemStatus
          PROVE  ~ KS!Change(role, target)
      BY <1>1, TransitionStatuses, SameVocabulary DEF KS!Change
    <3>3. ASSUME NEW role \in ActorRole
          PROVE  ~ KS!Halt(role)
      BY <1>1 DEF KS!Halt
    <3> QED
      BY <2>1, <3>1, <3>2, <3>3, SameVocabulary DEF KS!Next
  <2>3. /\ role = "HUMAN"
        /\ row' = "STOPPED"
        /\ history' = Append(history, [ type |-> "emergency_stop_cleared",
             role |-> role, previous |-> row, status |-> "STOPPED" ])
    BY <2>2, SameVocabulary DEF KS!Release, KS!Move, DEFAULT_GRANTS
  <2>4. history \in Seq(StatusEvent)
    BY <1>1 DEF IInv, TypeOK
  <2> QED
    BY <2>3, <2>4
<1>2. IInv /\ [Next]_vars =>
        [ row = "EMERGENCY_STOPPED" /\ row' # row =>
            /\ row' = "STOPPED"
            /\ history'[Len(history')].type = "emergency_stop_cleared"
            /\ history'[Len(history')].role = "HUMAN" ]_<<row, history>>
  BY <1>1
<1> QED
  BY <1>2, Invariance, PTL DEF Spec, EmergencyLatched
=============================================================================
