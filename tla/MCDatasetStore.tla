---------------------------- MODULE MCDatasetStore ----------------------------
(* Instances of DatasetStore for TLC. *)
EXTENDS DatasetStore, TLC

Symmetry ==
  Permutations(Proc) \cup Permutations(Dataset)
    \cup Permutations(Series) \cup Permutations(Time)
=============================================================================
