------------------------------ MODULE DatasetLog ------------------------------
(***************************************************************************)
(* What the dataset store promises: a dataset is a log of versions that    *)
(* only grows, one version at a time. A version is ingested, at the stage  *)
(* its caller asks for, or promoted: then it is PROCESSED and repeats the  *)
(* content of a VALIDATED version that is already in the log.              *)
(***************************************************************************)
EXTENDS Naturals, Sequences

CONSTANTS
  Dataset,  \* dataset identifiers
  Content   \* what a version may hold

VARIABLE log  \* the versions of each dataset, version 1 first

\* A version with the one it was promoted from, 0 for an ingestion.
Entry(stage, content, source) ==
  [ stage |-> stage, content |-> content, source |-> source ]

Init == log = [d \in Dataset |-> << >>]

Ingest(d) ==
  \E stage \in {"VALIDATED", "PROCESSED"}, c \in Content :
    log' = [log EXCEPT ![d] = Append(@, Entry(stage, c, 0))]

Promote(d) ==
  \E i \in 1 .. Len(log[d]) :
    /\ log[d][i].stage = "VALIDATED"
    /\ log' = [log EXCEPT ![d] = Append(@, Entry("PROCESSED", log[d][i].content, i))]

Next == \E d \in Dataset : Ingest(d) \/ Promote(d)

Spec == Init /\ [][Next]_log
=============================================================================
