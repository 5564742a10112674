CONSTANTS
  Proc = {p1, p2}
  Strategy = {s1, s2}
  Request = {r1}
  Policy <- Lenient
  MaxRefusals = 1
SPECIFICATION Spec
CHECK_DEADLOCK FALSE
SYMMETRY Symmetry
INVARIANTS TypeOK NoStageSkipped RequestsFollowReview RolesSeparated
PROPERTIES DecisionsFinal ImplementsGate
