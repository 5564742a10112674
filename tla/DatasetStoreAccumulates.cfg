CONSTANTS
  Proc = {p1, p2}
  Dataset = {d1}
  Series = {a}
  Time = {t1, t2}
  MaxVersion = 2
  None = None
SPECIFICATION Spec
SYMMETRY Symmetry
INVARIANTS CollectionAccumulates
