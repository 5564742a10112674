----------------------------- MODULE DatasetStore -----------------------------
(***************************************************************************)
(* The versions of the datasets: tables dataset_versions and               *)
(* dataset_points (data_persistence.py), the pipeline that appends to them *)
(* (data_ingestion.py) and the research cycle that reads them              *)
(* (runtime.py).                                                           *)
(*                                                                         *)
(* Only the INSERT of a version with its points is a transaction. The      *)
(* number it inserts, the version it promotes and all that a cycle reads   *)
(* come from queries of their own, and other processes append in between.  *)
(*                                                                         *)
(* A batch is what its validation has left of it, see DataValidation: one  *)
(* series and some candles. A batch with none is a DataQualityError and    *)
(* leaves no trace. The hash of a version is a copy of its content.        *)
(***************************************************************************)
EXTENDS Naturals, Sequences, FiniteSetsExt

CONSTANTS
  Proc,        \* processes, each in at most one call at a time
  Dataset,     \* dataset identifiers
  Series,      \* broker, asset, timeframe and origin of a candle
  Time,        \* timestamps of candles
  MaxVersion,  \* bound: versions of a dataset
  None         \* no row

Number == 1 .. MaxVersion

\* The stages of the versions that are stored. DatasetStage has RAW too, which
\* ingest_raw_batch is not documented to take.
Stage == {"VALIDATED", "PROCESSED"}

Content == [ series : Series, times : SUBSET Time \ {{}} ]

ASSUME BoundAssumption == MaxVersion \in Nat
ASSUME NoneAssumption ==
  None \notin Content \cup [ stage : Stage, hash : Content ]

VARIABLES
  version,  \* dataset_versions: stage and content_hash, None without a row
  points,   \* dataset_points: the content of each version, None without rows
  source,   \* history variable: the version each was promoted from, 0 for an
            \* ingestion; no row records it
  op        \* the call each process is in

tables == <<version, points, source>>

vars == <<version, points, source, op>>

VersionRow == [ stage : Stage, hash : Content ]

Operation ==
  [ stage : {"copying", "describing"}, dataset : Dataset, number : Number ]
  \cup
  [ stage : {"numbering"}, dataset : Dataset, target : Stage,
    content : Content, source : Number \cup {0} ]
  \cup
  [ stage : {"appending"}, dataset : Dataset, target : Stage,
    content : Content, source : Number \cup {0}, number : Number ]
  \cup
  [ stage : {"fetching"}, dataset : Dataset, number : Number, metadata : VersionRow ]
  \cup
  [ stage : {"evaluating"}, dataset : Dataset, number : Number,
    metadata : VersionRow, sample : Content ]

NoOperation == [ stage |-> "ready" ]

-----------------------------------------------------------------------------
(* Helpers *)

At(p, stage) == op[p].stage = stage

Goto(p, o) == op' = [op EXCEPT ![p] = o]

Exists(d, n) == version[d][n] # None

LatestVersionNumber(d) == Max({0} \cup { n \in Number : Exists(d, n) })

\* Mutant: the number of the latest version, not the one after it.
LatestNumber(d) == LatestVersionNumber(d)

NextNumber(d) == LatestVersionNumber(d) + 1

-----------------------------------------------------------------------------
(* Appending a version *)

Init ==
  /\ version = [d \in Dataset |-> [n \in Number |-> None]]
  /\ points = [d \in Dataset |-> [n \in Number |-> None]]
  /\ source = [d \in Dataset |-> [n \in Number |-> 0]]
  /\ op = [p \in Proc |-> NoOperation]

\* The caller chooses the stage, VALIDATED unless it says otherwise.
IngestRawBatch(p) ==
  /\ At(p, "ready")
  /\ \E d \in Dataset, stage \in Stage, c \in Content :
       Goto(p, [ stage |-> "numbering", dataset |-> d, target |-> stage,
                 content |-> c, source |-> 0 ])
  /\ UNCHANGED tables

\* promote_to_processed refuses a version that does not exist and one that is
\* not VALIDATED.
PromoteToProcessed(p) ==
  /\ At(p, "ready")
  /\ \E d \in Dataset, n \in Number :
       /\ Exists(d, n)
       /\ version[d][n].stage = "VALIDATED"
       /\ Goto(p, [ stage |-> "copying", dataset |-> d, number |-> n ])
  /\ UNCHANGED tables

LoadSource(p) ==
  /\ At(p, "copying")
  /\ Goto(p, [ stage |-> "numbering", dataset |-> op[p].dataset,
               target |-> "PROCESSED",
               content |-> points[op[p].dataset][op[p].number],
               source |-> op[p].number ])
  /\ UNCHANGED tables

ReadLatest(p) ==
  /\ At(p, "numbering")
  /\ LatestVersionNumber(op[p].dataset) < MaxVersion
  /\ Goto(p, [ stage |-> "appending", dataset |-> op[p].dataset,
               target |-> op[p].target, content |-> op[p].content,
               source |-> op[p].source, number |-> NextNumber(op[p].dataset) ])
  /\ UNCHANGED tables

Insert(p) ==
  LET o == op[p]
  IN  /\ version' = [version EXCEPT ![o.dataset][o.number] =
                       [ stage |-> o.target, hash |-> o.content ]]
      /\ points' = [points EXCEPT ![o.dataset][o.number] = o.content]
      /\ source' = [source EXCEPT ![o.dataset][o.number] = o.source]
      /\ Goto(p, NoOperation)

\* Mutant: INSERT OR REPLACE.
AppendOrReplace(p) == At(p, "appending") /\ Insert(p)

\* One transaction; the primary key refuses a number another process has taken.
AppendDatasetVersion(p) ==
  /\ At(p, "appending")
  /\ ~ Exists(op[p].dataset, op[p].number)
  /\ Insert(p)

-----------------------------------------------------------------------------
(* Reading the latest version, in a cycle *)

\* The health check has seen a version; a cycle takes the latest.
StartCycle(p) ==
  /\ At(p, "ready")
  /\ \E d \in Dataset :
       /\ LatestVersionNumber(d) > 0
       /\ Goto(p, [ stage |-> "describing", dataset |-> d,
                    number |-> LatestVersionNumber(d) ])
  /\ UNCHANGED tables

LoadDatasetVersion(p) ==
  /\ At(p, "describing")
  /\ Goto(p, [ stage |-> "fetching", dataset |-> op[p].dataset, number |-> op[p].number,
               metadata |-> version[op[p].dataset][op[p].number] ])
  /\ UNCHANGED tables

Fetch(p, number) ==
  /\ Goto(p, [ stage |-> "evaluating", dataset |-> op[p].dataset, number |-> op[p].number,
               metadata |-> op[p].metadata,
               sample |-> points[op[p].dataset][number] ])
  /\ UNCHANGED tables

\* Mutant: the points of whatever version is the latest now.
LoadLatestPoints(p) ==
  At(p, "fetching") /\ Fetch(p, LatestVersionNumber(op[p].dataset))

LoadPoints(p) == At(p, "fetching") /\ Fetch(p, op[p].number)

-----------------------------------------------------------------------------

\* A cycle that is over, a number that was taken (PersistenceError: the batch is
\* lost), a DatabaseError that rolls back, or the death of the process.
Return(p) ==
  /\ ~ At(p, "ready")
  /\ Goto(p, NoOperation)
  /\ UNCHANGED tables

Next ==
  \E p \in Proc :
    \/ IngestRawBatch(p) \/ PromoteToProcessed(p) \/ LoadSource(p)
    \/ ReadLatest(p) \/ AppendDatasetVersion(p)
    \/ StartCycle(p) \/ LoadDatasetVersion(p) \/ LoadPoints(p)
    \/ Return(p)

Spec == Init /\ [][Next]_vars

-----------------------------------------------------------------------------
(* Properties *)

\* Every variable has its type; above all, no call works on a number no version
\* can have, or on a version without a row.
TypeOK ==
  /\ version \in [Dataset -> [Number -> VersionRow \cup {None}]]
  /\ points \in [Dataset -> [Number -> Content \cup {None}]]
  /\ source \in [Dataset -> [Number -> Number \cup {0}]]
  /\ op \in [Proc -> Operation \cup {NoOperation}]

\* The three reads of a cycle are about one version, and what it evaluates is
\* what the content_hash it reports was computed from, however many versions
\* were appended between the reads (run_cycle, append_dataset_version).
CycleSeesOneVersion ==
  \A p \in Proc : At(p, "evaluating") =>
    /\ op[p].metadata.hash = op[p].sample
    /\ op[p].metadata = version[op[p].dataset][op[p].number]

\* The rows of each dataset in the order of their numbers.
Versions ==
  [ d \in Dataset |->
      [ n \in 1 .. LatestVersionNumber(d) |->
          [ stage |-> version[d][n].stage, content |-> points[d][n],
            source |-> source[d][n] ] ] ]

Log == INSTANCE DatasetLog WITH log <- Versions

\* The tables are a log of versions: their numbers leave no gap although they
\* are read outside the transaction, no version is overwritten by a process
\* that numbered it too, and what is promoted is the content of a version that
\* is VALIDATED. What is ingested as PROCESSED need never have been VALIDATED
\* (ingest_raw_batch, promote_to_processed, append_dataset_version).
ImplementsLog == Log!Spec

\* collector_loop.py: the loop accumulates a sample much larger than any single
\* download. So a candle that is stored stays in the sample a cycle evaluates.
CollectionAccumulates ==
  \A d \in Dataset : \A n \in Number : Exists(d, n) =>
    points[d][n].times \subseteq points[d][LatestVersionNumber(d)].times
=============================================================================
