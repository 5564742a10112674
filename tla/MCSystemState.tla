---------------------------- MODULE MCSystemState ----------------------------
(* Instances of SystemState for TLC. *)
EXTENDS SystemState, TLC

\* A policy given to the managers that is wider than the default one the store
\* keeps: some calls are refused by the manager, some by the store.
Lenient == [c \in Capability |-> DEFAULT_GRANTS[c] \cup {"VALIDATOR"}]

Symmetry == Permutations(Proc)
=============================================================================
