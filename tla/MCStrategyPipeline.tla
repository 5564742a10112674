-------------------------- MODULE MCStrategyPipeline --------------------------
(* Instances of StrategyPipeline for TLC. *)
EXTENDS StrategyPipeline, TLC

\* A policy given to the managers that is wider than the default one the store
\* keeps: some calls are refused by the manager, some by the store.
Lenient == [c \in Capability |-> DEFAULT_GRANTS[c] \cup {"SYSTEM"}]

Symmetry == Permutations(Proc) \cup Permutations(Strategy) \cup Permutations(Request)
=============================================================================
