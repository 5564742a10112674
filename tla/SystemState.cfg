CONSTANTS
  Proc = {p1, p2}
  Policy <- Lenient
  MaxOps = 4
SPECIFICATION Spec
SYMMETRY Symmetry
INVARIANTS TypeOK AuditReplaysRow
PROPERTIES EmergencyLatched ImplementsKillSwitch
