CONSTANTS
  Proc = {p1, p2, p3}
  Dataset = {d1}
  Series = {a, b}
  Time = {t1}
  MaxVersion = 3
  None = None
SPECIFICATION Spec
SYMMETRY Symmetry
INVARIANTS TypeOK CycleSeesOneVersion
PROPERTIES ImplementsLog
