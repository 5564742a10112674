----------------------------- MODULE PromotionGate -----------------------------
(***************************************************************************)
(* What the strategy pipeline promises: a strategy is created as an idea,  *)
(* climbs the stages one at a time or is discarded for good, and takes the *)
(* last step, to REAL, only once a human has approved it, which can happen *)
(* only to a strategy that has come as far as the human review.            *)
(***************************************************************************)
EXTENDS Lifecycle

CONSTANT Strategy  \* strategy identifiers

VARIABLES
  stage,    \* where each strategy is, None before it is created
  approved  \* the strategies a human has approved

vars == <<stage, approved>>

Init ==
  /\ stage = [s \in Strategy |-> None]
  /\ approved = {}

Create(s) ==
  /\ stage[s] = None
  /\ stage' = [stage EXCEPT ![s] = "IDEA"]
  /\ UNCHANGED approved

Climb(s) ==
  \E i \in 1 .. Len(STRATEGY_SEQUENCE) - 1 :
    /\ stage[s] = STRATEGY_SEQUENCE[i]
    /\ STRATEGY_SEQUENCE[i + 1] = "REAL" => s \in approved
    /\ stage' = [stage EXCEPT ![s] = STRATEGY_SEQUENCE[i + 1]]
    /\ UNCHANGED approved

Discard(s) ==
  /\ stage[s] \notin {None, "REAL"} \cup Discarded
  /\ \E outcome \in Discarded : stage' = [stage EXCEPT ![s] = outcome]
  /\ UNCHANGED approved

\* The decision may come after the review is over: it then changes nothing,
\* unless the strategy is still there to be promoted.
Approve(s) ==
  /\ stage[s] \in {"HUMAN_REVIEW", "REAL"} \cup Discarded
  /\ approved' = approved \cup {s}
  /\ UNCHANGED stage

Next == \E s \in Strategy : Create(s) \/ Climb(s) \/ Discard(s) \/ Approve(s)

Spec == Init /\ [][Next]_vars
=============================================================================
