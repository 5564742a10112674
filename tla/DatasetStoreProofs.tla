-------------------------- MODULE DatasetStoreProofs --------------------------
(***************************************************************************)
(* The dataset store keeps an append-only log of versions, and a cycle     *)
(* reads one of them, for any processes, datasets, series and times.       *)
(***************************************************************************)
EXTENDS DatasetStore, Lemmas, TLAPS

-----------------------------------------------------------------------------
(* The latest number *)

\* What latest_version_number answers.
LEMMA Latest ==
  ASSUME NEW d
  PROVE  /\ LatestVersionNumber(d) \in 0 .. MaxVersion
         /\ LatestVersionNumber(d) # 0 => Exists(d, LatestVersionNumber(d))
         /\ \A n \in Number : Exists(d, n) => n <= LatestVersionNumber(d)
<1> DEFINE S == { n \in Number : Exists(d, n) }
<1>1. LatestVersionNumber(d) = Max({0} \cup S)
  BY DEF LatestVersionNumber
<1> QED
  BY <1>1, MaxOfRows, BoundAssumption DEF Number

-----------------------------------------------------------------------------
(* The inductive invariant *)

\* The numbers of a dataset leave no gap.
Contiguous ==
  \A d \in Dataset : \A n, m \in Number : Exists(d, n) /\ m < n => Exists(d, m)

\* Metadata and points were inserted together.
RowsAgree ==
  \A d \in Dataset : \A n \in Number :
    points[d][n] = IF Exists(d, n) THEN version[d][n].hash ELSE None

\* The content is that of version n, which is VALIDATED.
Attested(d, n, content) ==
  /\ Exists(d, n)
  /\ version[d][n].stage = "VALIDATED"
  /\ version[d][n].hash = content

\* What a call has read is still so: rows are never changed. Its number comes
\* at most right after the latest.
StillTrue(o) ==
  /\ o.stage \in {"copying", "describing"} => Exists(o.dataset, o.number)
  /\ o.stage = "copying" => version[o.dataset][o.number].stage = "VALIDATED"
  /\ o.stage \in {"numbering", "appending"} /\ o.source # 0 =>
       o.target = "PROCESSED" /\ Attested(o.dataset, o.source, o.content)
  /\ o.stage = "appending" =>
       \A m \in Number : m < o.number => Exists(o.dataset, m)
  /\ o.stage \in {"fetching", "evaluating"} =>
       /\ Exists(o.dataset, o.number)
       /\ o.metadata = version[o.dataset][o.number]
  /\ o.stage = "evaluating" => o.sample = o.metadata.hash

IInv ==
  /\ TypeOK
  /\ Contiguous
  /\ RowsAgree
  /\ \A p \in Proc : StillTrue(op[p])

\* The fields of a call, by its stage.
LEMMA CallType ==
  ASSUME NEW o \in Operation
  PROVE  /\ o.dataset \in Dataset
         /\ o.stage # "ready"
         /\ o.stage \in {"copying", "describing", "appending", "fetching", "evaluating"} =>
              o.number \in Number
         /\ o.stage \in {"numbering", "appending"} =>
              /\ o.target \in Stage /\ o.content \in Content
              /\ o.source \in Number \cup {0}
         /\ o.stage \in {"fetching", "evaluating"} => o.metadata \in VersionRow
         /\ o.stage = "evaluating" => o.sample \in Content
  BY DEF Operation

LEMMA RowType ==
  ASSUME TypeOK, NEW d \in Dataset, NEW n \in Number, Exists(d, n)
  PROVE  /\ version[d][n] \in VersionRow
         /\ version[d][n].stage \in Stage
         /\ version[d][n].hash \in Content
  BY DEF TypeOK, Exists, VersionRow

\* A call goes on, and the tables stay.
LEMMA GotoInv ==
  ASSUME IInv, NEW p \in Proc, NEW o \in Operation \cup {NoOperation},
         StillTrue(o), Goto(p, o), UNCHANGED tables
  PROVE  IInv'
<1>1. op' = [op EXCEPT ![p] = o] /\ op \in [Proc -> Operation \cup {NoOperation}]
  BY DEF IInv, TypeOK, Goto
<1>2. TypeOK'
  BY <1>1 DEF tables, IInv, TypeOK
<1>3. Contiguous' /\ RowsAgree'
  BY DEF tables, IInv, Contiguous, RowsAgree, Exists
<1>4. ASSUME NEW q \in Proc PROVE StillTrue(op[q])'
  <2>1. op'[q] = IF q = p THEN o ELSE op[q]
    BY <1>1
  <2>2. StillTrue(op'[q])
    BY <2>1 DEF IInv
  <2> QED
    BY <2>2 DEF tables, StillTrue, Exists, Attested
<1> QED
  BY <1>2, <1>3, <1>4 DEF IInv

LEMMA IdleTrue == NoOperation \in Operation \cup {NoOperation} /\ StillTrue(NoOperation)
  BY DEF NoOperation, StillTrue

\* The transaction that inserts a version with its points: the number is free,
\* so no row is changed.
LEMMA AppendInv ==
  ASSUME IInv, NEW p \in Proc, AppendDatasetVersion(p)
  PROVE  IInv'
<1> DEFINE o == op[p]
           row == [ stage |-> o.target, hash |-> o.content ]
<1>1. /\ o \in Operation /\ o.stage = "appending"
      /\ ~ Exists(o.dataset, o.number)
  BY DEF AppendDatasetVersion, At, IInv, TypeOK, NoOperation
<1>2. /\ o.dataset \in Dataset /\ o.number \in Number
      /\ o.target \in Stage /\ o.content \in Content
      /\ o.source \in Number \cup {0}
  BY <1>1, CallType
<1>3. /\ row \in VersionRow /\ row # None
      /\ row.stage = o.target /\ row.hash = o.content
  BY <1>2, NoneAssumption DEF VersionRow
<1>4. /\ version' = [version EXCEPT ![o.dataset][o.number] = row]
      /\ points' = [points EXCEPT ![o.dataset][o.number] = o.content]
      /\ source' = [source EXCEPT ![o.dataset][o.number] = o.source]
      /\ op' = [op EXCEPT ![p] = NoOperation]
  BY DEF AppendDatasetVersion, Insert, Goto
<1> HIDE DEF row
<1>5. ASSUME NEW d \in Dataset, NEW n \in Number
      PROVE  /\ version'[d][n] = IF d = o.dataset /\ n = o.number THEN row ELSE version[d][n]
             /\ points'[d][n] = IF d = o.dataset /\ n = o.number THEN o.content ELSE points[d][n]
  BY <1>4 DEF IInv, TypeOK
<1>6. TypeOK'
  <2>1. version' \in [Dataset -> [Number -> VersionRow \cup {None}]]
    BY <1>2, <1>3, <1>4 DEF IInv, TypeOK
  <2>2. points' \in [Dataset -> [Number -> Content \cup {None}]]
    BY <1>2, <1>4 DEF IInv, TypeOK
  <2>4. source' \in [Dataset -> [Number -> Number \cup {0}]]
    BY <1>2, <1>4 DEF IInv, TypeOK
  <2>3. op' \in [Proc -> Operation \cup {NoOperation}]
    BY <1>4 DEF IInv, TypeOK
  <2> QED
    BY <2>1, <2>2, <2>3, <2>4 DEF TypeOK
<1>7. ASSUME NEW d \in Dataset, NEW n \in Number
      PROVE  /\ Exists(d, n)' <=> Exists(d, n) \/ (d = o.dataset /\ n = o.number)
             /\ Exists(d, n) => version'[d][n] = version[d][n]
  BY <1>1, <1>3, <1>5 DEF Exists
<1>8. Contiguous'
  <2> SUFFICES ASSUME NEW d \in Dataset, NEW n \in Number, NEW m \in Number,
                      Exists(d, n)', m < n
               PROVE  Exists(d, m)'
    BY DEF Contiguous
  <2>1. CASE Exists(d, n)
    BY <1>7, <2>1 DEF IInv, Contiguous
  <2>2. CASE d = o.dataset /\ n = o.number
    BY <1>1, <1>7, <2>2 DEF IInv, StillTrue
  <2> QED
    BY <1>7, <2>1, <2>2
<1>9. RowsAgree'
  BY <1>3, <1>5, <1>7 DEF IInv, RowsAgree
<1>10. ASSUME NEW q \in Proc PROVE StillTrue(op[q])'
  <2>1. CASE q = p
    <3>1. op'[q] = NoOperation
      BY <1>4, <2>1 DEF IInv, TypeOK
    <3> QED
      BY <3>1 DEF StillTrue, NoOperation
  <2>2. CASE q # p
    <3>1. op'[q] = op[q]
      BY <1>4, <2>2 DEF IInv, TypeOK
    <3>2. CASE op[q] = NoOperation
      BY <3>1, <3>2 DEF StillTrue, NoOperation
    <3>3. CASE op[q] \in Operation
      <4>0. PICK c \in Operation : c = op[q]
        BY <3>3
      <4>1. StillTrue(c) /\ c.dataset \in Dataset
        BY <4>0, CallType DEF IInv
      <4>2. ASSUME c.stage \in {"copying", "describing", "fetching", "evaluating"}
            PROVE  /\ Exists(c.dataset, c.number) => Exists(c.dataset, c.number)'
                   /\ Exists(c.dataset, c.number) =>
                        version'[c.dataset][c.number] = version[c.dataset][c.number]
        BY <1>7, <4>1, <4>2, CallType
      <4>3. ASSUME c.source \in Number, Attested(c.dataset, c.source, c.content)
            PROVE  Attested(c.dataset, c.source, c.content)'
        BY <1>7, <4>1, <4>3 DEF Attested
      <4>4. ASSUME NEW m \in Number, Exists(c.dataset, m) PROVE Exists(c.dataset, m)'
        BY <1>7, <4>1, <4>4
      <4> QED
        BY <3>1, <4>0, <4>1, <4>2, <4>3, <4>4, CallType DEF StillTrue
    <3> QED
      BY <3>2, <3>3 DEF IInv, TypeOK
  <2> QED
    BY <2>1, <2>2
<1> QED
  BY <1>6, <1>8, <1>9, <1>10 DEF IInv

\* The calls that append: what they take down is true when they take it down.
LEMMA WritersInv ==
  ASSUME IInv, NEW p \in Proc,
         IngestRawBatch(p) \/ PromoteToProcessed(p) \/ LoadSource(p) \/ ReadLatest(p)
  PROVE  IInv'
<1>0. op[p] \in Operation \cup {NoOperation} /\ StillTrue(op[p])
  BY DEF IInv, TypeOK
<1>1. CASE IngestRawBatch(p)
  <2>1. PICK d \in Dataset, stage \in Stage, c \in Content :
          Goto(p, [ stage |-> "numbering", dataset |-> d, target |-> stage,
                    content |-> c, source |-> 0 ])
    BY <1>1 DEF IngestRawBatch
  <2> DEFINE o == [ stage |-> "numbering", dataset |-> d, target |-> stage,
                    content |-> c, source |-> 0 ]
  <2>2. o \in Operation /\ StillTrue(o)
    BY DEF Operation, StillTrue
  <2> QED
    BY <1>1, <2>1, <2>2, GotoInv DEF IngestRawBatch
<1>2. CASE PromoteToProcessed(p)
  <2>1. PICK d \in Dataset, n \in Number :
          /\ Exists(d, n)
          /\ version[d][n].stage = "VALIDATED"
          /\ Goto(p, [ stage |-> "copying", dataset |-> d, number |-> n ])
    BY <1>2 DEF PromoteToProcessed
  <2> DEFINE o == [ stage |-> "copying", dataset |-> d, number |-> n ]
  <2>2. o \in Operation /\ StillTrue(o)
    BY <2>1 DEF Operation, StillTrue
  <2> QED
    BY <1>2, <2>1, <2>2, GotoInv DEF PromoteToProcessed
<1>3. CASE LoadSource(p)
  <2> DEFINE o == [ stage |-> "numbering", dataset |-> op[p].dataset, target |-> "PROCESSED",
                    content |-> points[op[p].dataset][op[p].number],
                    source |-> op[p].number ]
  <2>1. op[p] \in Operation /\ op[p].stage = "copying"
    BY <1>0, <1>3 DEF LoadSource, At, NoOperation
  <2>2. /\ op[p].dataset \in Dataset /\ op[p].number \in Number
        /\ Exists(op[p].dataset, op[p].number)
        /\ version[op[p].dataset][op[p].number].stage = "VALIDATED"
    BY <1>0, <2>1, CallType DEF StillTrue
  <2>3. /\ o.content = version[op[p].dataset][op[p].number].hash
        /\ o.content \in Content
    BY <2>2, RowType DEF IInv, RowsAgree
  <2>4. Attested(op[p].dataset, op[p].number, o.content)
    BY <2>2, <2>3 DEF Attested
  <2>5. o \in Operation /\ StillTrue(o)
    BY <2>2, <2>3, <2>4 DEF Operation, StillTrue, Stage
  <2> QED
    BY <1>3, <2>5, GotoInv DEF LoadSource
<1>4. CASE ReadLatest(p)
  <2> DEFINE d == op[p].dataset
             o == [ stage |-> "appending", dataset |-> d, target |-> op[p].target,
                    content |-> op[p].content, source |-> op[p].source,
                    number |-> NextNumber(d) ]
  <2>1. op[p] \in Operation /\ op[p].stage = "numbering"
    BY <1>0, <1>4 DEF ReadLatest, At, NoOperation
  <2>2. /\ d \in Dataset /\ op[p].content \in Content
        /\ op[p].target \in Stage /\ op[p].source \in Number \cup {0}
        /\ op[p].source # 0 =>
             op[p].target = "PROCESSED" /\ Attested(d, op[p].source, op[p].content)
    BY <1>0, <2>1, CallType DEF StillTrue
  <2>3. /\ NextNumber(d) = LatestVersionNumber(d) + 1
        /\ NextNumber(d) \in Number
    BY <1>4, Latest, BoundAssumption DEF ReadLatest, NextNumber, Number
  <2>4. ASSUME NEW m \in Number, m < NextNumber(d)
        PROVE  Exists(d, m)
    <3>1. LatestVersionNumber(d) \in Number /\ Exists(d, LatestVersionNumber(d))
      BY <2>3, <2>4, Latest, BoundAssumption DEF Number
    <3>2. m = LatestVersionNumber(d) \/ m < LatestVersionNumber(d)
      BY <2>3, <2>4, <3>1 DEF Number
    <3> QED
      BY <2>2, <3>1, <3>2 DEF IInv, Contiguous
  <2>5. o \in Operation
    BY <2>2, <2>3 DEF Operation
  <2>6. StillTrue(o)
    BY <2>2, <2>4 DEF StillTrue
  <2> HIDE DEF o
  <2>7. Goto(p, o) /\ UNCHANGED tables
    BY <1>4 DEF ReadLatest, o
  <2> QED
    BY <2>5, <2>6, <2>7, GotoInv
<1> QED
  BY <1>1, <1>2, <1>3, <1>4

\* The cycle: the version it took the number of exists, and does not change.
LEMMA ReadersInv ==
  ASSUME IInv, NEW p \in Proc, StartCycle(p) \/ LoadDatasetVersion(p) \/ LoadPoints(p)
  PROVE  IInv'
<1>0. op[p] \in Operation \cup {NoOperation} /\ StillTrue(op[p])
  BY DEF IInv, TypeOK
<1>1. CASE StartCycle(p)
  <2>1. PICK d \in Dataset :
          /\ LatestVersionNumber(d) > 0
          /\ Goto(p, [ stage |-> "describing", dataset |-> d,
                       number |-> LatestVersionNumber(d) ])
    BY <1>1 DEF StartCycle
  <2> DEFINE o == [ stage |-> "describing", dataset |-> d, number |-> LatestVersionNumber(d) ]
  <2>2. LatestVersionNumber(d) \in Number /\ Exists(d, LatestVersionNumber(d))
    BY <2>1, Latest, BoundAssumption DEF Number
  <2>3. o \in Operation /\ StillTrue(o)
    BY <2>2 DEF Operation, StillTrue
  <2> QED
    BY <1>1, <2>1, <2>3, GotoInv DEF StartCycle
<1>2. CASE LoadDatasetVersion(p)
  <2> DEFINE row == version[op[p].dataset][op[p].number]
             o == [ stage |-> "fetching", dataset |-> op[p].dataset,
                    number |-> op[p].number, metadata |-> row ]
  <2>1. op[p] \in Operation /\ op[p].stage = "describing"
    BY <1>0, <1>2 DEF LoadDatasetVersion, At, NoOperation
  <2>2. /\ op[p].dataset \in Dataset /\ op[p].number \in Number
        /\ Exists(op[p].dataset, op[p].number)
    BY <1>0, <2>1, CallType DEF StillTrue
  <2>3. row \in VersionRow
    BY <2>2, RowType DEF IInv
  <2>4. o \in Operation /\ StillTrue(o)
    BY <2>2, <2>3 DEF Operation, StillTrue
  <2> QED
    BY <1>2, <2>4, GotoInv DEF LoadDatasetVersion
<1>3. CASE LoadPoints(p)
  <2> DEFINE o == [ stage |-> "evaluating", dataset |-> op[p].dataset,
                    number |-> op[p].number, metadata |-> op[p].metadata,
                    sample |-> points[op[p].dataset][op[p].number] ]
  <2>1. op[p] \in Operation /\ op[p].stage = "fetching"
    BY <1>0, <1>3 DEF LoadPoints, At, NoOperation
  <2>2. /\ op[p].dataset \in Dataset /\ op[p].number \in Number
        /\ op[p].metadata \in VersionRow
        /\ Exists(op[p].dataset, op[p].number)
        /\ op[p].metadata = version[op[p].dataset][op[p].number]
    BY <1>0, <2>1, CallType DEF StillTrue
  <2>3. /\ o.sample = op[p].metadata.hash
        /\ o.sample \in Content
    BY <2>2, RowType DEF IInv, RowsAgree
  <2>4. o \in Operation /\ StillTrue(o)
    BY <2>2, <2>3 DEF Operation, StillTrue
  <2> QED
    BY <1>3, <2>4, GotoInv DEF LoadPoints, Fetch
<1> QED
  BY <1>1, <1>2, <1>3

LEMMA InitInv == Init => IInv
<1> SUFFICES ASSUME Init PROVE IInv
  OBVIOUS
<1>1. \A d \in Dataset : \A n \in Number : ~ Exists(d, n) /\ points[d][n] = None
  BY DEF Init, Exists
<1>2. \A p \in Proc : op[p] = NoOperation
  BY DEF Init
<1>3. TypeOK
  BY DEF Init, TypeOK
<1> QED
  BY <1>1, <1>2, <1>3, IdleTrue DEF IInv, Contiguous, RowsAgree

LEMMA NextInv == IInv /\ [Next]_vars => IInv'
<1> SUFFICES ASSUME IInv, [Next]_vars PROVE IInv'
  OBVIOUS
<1>1. CASE UNCHANGED vars
  BY <1>1 DEF vars, tables, IInv, TypeOK, Contiguous, RowsAgree, StillTrue, Exists, Attested
<1>2. ASSUME NEW p \in Proc,
             \/ IngestRawBatch(p) \/ PromoteToProcessed(p) \/ LoadSource(p)
             \/ ReadLatest(p) \/ AppendDatasetVersion(p)
             \/ StartCycle(p) \/ LoadDatasetVersion(p) \/ LoadPoints(p)
             \/ Return(p)
      PROVE  IInv'
  BY <1>2, WritersInv, AppendInv, ReadersInv, GotoInv, IdleTrue DEF Return
<1> QED
  BY <1>1, <1>2 DEF Next

-----------------------------------------------------------------------------
(* The theorems *)

\* What holds in the tables, and of what every call has read from them.
THEOREM Inductive == Spec => []IInv
  BY InitInv, NextInv, PTL DEF Spec

\* TypeOK: versions have numbers a version can have, and a cycle never takes a
\* version without a row for one (dataset_versions, dataset_points).
THEOREM TypeCorrect == Spec => []TypeOK
<1>1. IInv => TypeOK
  BY DEF IInv
<1> QED
  BY <1>1, Inductive, PTL

\* CycleSeesOneVersion: metadata and points of a cycle are of one version,
\* though they are read one after the other (run_cycle).
THEOREM CycleConsistent == Spec => []CycleSeesOneVersion
<1>1. IInv => CycleSeesOneVersion
  <2> SUFFICES ASSUME IInv, NEW p \in Proc, At(p, "evaluating")
               PROVE  /\ op[p].metadata.hash = op[p].sample
                      /\ op[p].metadata = version[op[p].dataset][op[p].number]
    BY DEF CycleSeesOneVersion
  <2> QED
    BY DEF IInv, StillTrue, At
<1> QED
  BY <1>1, Inductive, PTL

-----------------------------------------------------------------------------
(* The refinement *)

LatestOf(rows) == Max({0} \cup { n \in Number : rows[n] # None })

LEMMA LatestIs == \A d : LatestVersionNumber(d) = LatestOf(version[d])
  BY DEF LatestVersionNumber, LatestOf, Exists

LEMMA LatestRow ==
  ASSUME NEW rows
  PROVE  /\ LatestOf(rows) \in 0 .. MaxVersion
         /\ LatestOf(rows) # 0 => rows[LatestOf(rows)] # None
         /\ \A n \in Number : rows[n] # None => n <= LatestOf(rows)
<1> DEFINE S == { n \in Number : rows[n] # None }
<1>1. LatestOf(rows) = Max({0} \cup S)
  BY DEF LatestOf
<1> QED
  BY <1>1, MaxOfRows, BoundAssumption DEF Number

\* The inserted row comes right after the latest one of its dataset.
LEMMA AppendsNext ==
  ASSUME IInv, NEW p \in Proc, AppendDatasetVersion(p)
  PROVE  /\ op[p].dataset \in Dataset
         /\ op[p].number = LatestOf(version[op[p].dataset]) + 1
         /\ LatestOf(version'[op[p].dataset]) = op[p].number
         /\ \A d \in Dataset \ {op[p].dataset} :
              /\ version'[d] = version[d] /\ points'[d] = points[d]
              /\ source'[d] = source[d]
<1> DEFINE o == op[p]
           old == LatestOf(version[o.dataset])
           new == LatestOf(version'[o.dataset])
<1>1. /\ o \in Operation /\ o.stage = "appending"
      /\ ~ Exists(o.dataset, o.number) /\ StillTrue(o)
  BY DEF AppendDatasetVersion, At, IInv, TypeOK, NoOperation
<1>2. /\ o.dataset \in Dataset /\ o.number \in Number
      /\ \A m \in Number : m < o.number => Exists(o.dataset, m)
  BY <1>1, CallType DEF StillTrue
<1>3. /\ version \in [Dataset -> [Number -> VersionRow \cup {None}]]
      /\ points \in [Dataset -> [Number -> Content \cup {None}]]
      /\ version' = [version EXCEPT ![o.dataset][o.number] =
                       [ stage |-> o.target, hash |-> o.content ]]
      /\ points' = [points EXCEPT ![o.dataset][o.number] = o.content]
      /\ source' = [source EXCEPT ![o.dataset][o.number] = o.source]
      /\ source \in [Dataset -> [Number -> Number \cup {0}]]
  BY DEF AppendDatasetVersion, Insert, IInv, TypeOK
<1>4. [ stage |-> o.target, hash |-> o.content ] # None
  BY <1>1, CallType, NoneAssumption
<1>5. \A d \in Dataset \ {o.dataset} :
        /\ version'[d] = version[d] /\ points'[d] = points[d]
        /\ source'[d] = source[d]
  BY <1>2, <1>3
<1>6. \A n \in Number : version'[o.dataset][n] # None <=>
                         Exists(o.dataset, n) \/ n = o.number
  BY <1>2, <1>3, <1>4 DEF Exists
<1>7. /\ old \in 0 .. MaxVersion
      /\ old # 0 => Exists(o.dataset, old)
      /\ \A n \in Number : Exists(o.dataset, n) => n <= old
  BY LatestRow DEF Exists
<1>8. /\ new \in 0 .. MaxVersion
      /\ new # 0 => version'[o.dataset][new] # None
      /\ \A n \in Number : version'[o.dataset][n] # None => n <= new
  BY LatestRow
<1> HIDE DEF old, new
<1>9. old < o.number
  <2> SUFFICES ASSUME old >= o.number PROVE FALSE
    BY <1>2, <1>7, BoundAssumption DEF Number
  <2>1. old \in Number /\ Exists(o.dataset, old)
    BY <1>2, <1>7, BoundAssumption DEF Number
  <2>2. o.number < old
    BY <1>1, <1>2, <2>1 DEF Number
  <2> QED
    BY <1>1, <1>2, <2>1, <2>2 DEF IInv, Contiguous
<1>10. o.number = old + 1
  <2> SUFFICES ASSUME old + 1 < o.number PROVE FALSE
    BY <1>2, <1>7, <1>9, BoundAssumption DEF Number
  <2>1. old + 1 \in Number /\ Exists(o.dataset, old + 1)
    BY <1>2, <1>7, BoundAssumption DEF Number
  <2> QED
    BY <1>7, <2>1, BoundAssumption DEF Number
<1>11. new = o.number
  <2>1. new \in Number /\ o.number <= new
    BY <1>2, <1>6, <1>8, BoundAssumption DEF Number
  <2>2. new = o.number \/ new <= old
    BY <1>6, <1>7, <1>8, <2>1, BoundAssumption DEF Number
  <2> QED
    BY <1>2, <1>7, <1>9, <2>1, <2>2, BoundAssumption DEF Number
<1> QED
  BY <1>2, <1>5, <1>10, <1>11 DEF old, new

\* The log of a dataset, of its rows, their points and where they come from.
LogOf(rows, contents, sources) ==
  [ n \in 1 .. LatestOf(rows) |->
      [ stage |-> rows[n].stage, content |-> contents[n], source |-> sources[n] ] ]

LEMMA AppendAsFunction ==
  ASSUME NEW L \in Nat, NEW s, s = [ n \in 1 .. L |-> s[n] ], NEW e
  PROVE  Append(s, e) = [ n \in 1 .. L + 1 |-> IF n = L + 1 THEN e ELSE s[n] ]
<1> DEFINE S == { s[n] : n \in 1 .. L }
<1>1. s \in [ 1 .. L -> S ]
  OBVIOUS
<1> HIDE DEF S
<1>2. s \in Seq(S) /\ Len(s) = L
  BY <1>1
<1> QED
  BY <1>2

LEMMA LogGrows ==
  ASSUME IInv, NEW p \in Proc, AppendDatasetVersion(p),
         NEW d, d = op[p].dataset
  PROVE  LogOf(version'[d], points'[d], source'[d]) =
           Append(LogOf(version[d], points[d], source[d]),
                  Log!Entry(op[p].target, op[p].content, op[p].source))
<1> DEFINE o == op[p]
           L == LatestOf(version[d])
           old == LogOf(version[d], points[d], source[d])
           new == LogOf(version'[d], points'[d], source'[d])
<1>1. /\ d \in Dataset /\ o.number = L + 1
      /\ LatestOf(version'[d]) = L + 1 /\ L \in Nat
      /\ o.number \in Number
  <2>1. o \in Operation /\ o.stage = "appending"
    BY DEF AppendDatasetVersion, At, IInv, TypeOK, NoOperation
  <2> QED
    BY <2>1, CallType, AppendsNext, LatestRow, BoundAssumption
<1>2. \A n \in 1 .. L + 1 :
        /\ version'[d][n] = IF n = L + 1 THEN [ stage |-> o.target, hash |-> o.content ]
                                         ELSE version[d][n]
        /\ points'[d][n] = IF n = L + 1 THEN o.content ELSE points[d][n]
        /\ source'[d][n] = IF n = L + 1 THEN o.source ELSE source[d][n]
  BY <1>1, BoundAssumption DEF AppendDatasetVersion, Insert, IInv, TypeOK, Number
<1>3. old = [ n \in 1 .. L |->
                [ stage |-> version[d][n].stage, content |-> points[d][n],
                  source |-> source[d][n] ] ]
  BY DEF LogOf
<1>4. new = [ n \in 1 .. L + 1 |->
                [ stage |-> version'[d][n].stage, content |-> points'[d][n],
                  source |-> source'[d][n] ] ]
  BY <1>1 DEF LogOf
<1>5. Len(old) = L
  BY <1>1, <1>3
<1>6. Append(old, Log!Entry(o.target, o.content, o.source)) =
        [ n \in 1 .. L + 1 |-> IF n = L + 1 THEN Log!Entry(o.target, o.content, o.source) ELSE old[n] ]
  <2> HIDE DEF old
  <2>1. old = [ n \in 1 .. L |-> old[n] ]
    BY <1>3
  <2>2. L \in Nat
    BY <1>1
  <2> HIDE DEF L
  <2>3. PICK e : e = Log!Entry(o.target, o.content, o.source)
    OBVIOUS
  <2>4. Append(old, e) = [ n \in 1 .. L + 1 |-> IF n = L + 1 THEN e ELSE old[n] ]
    BY <2>1, <2>2, AppendAsFunction
  <2> QED
    BY <2>3, <2>4, Zenon
<1>7. ASSUME NEW n \in 1 .. L + 1
      PROVE  new[n] = IF n = L + 1 THEN Log!Entry(o.target, o.content, o.source) ELSE old[n]
  <2>1. new[n] = [ stage |-> version'[d][n].stage, content |-> points'[d][n],
                   source |-> source'[d][n] ]
    BY <1>4
  <2>2. n # L + 1 => old[n] = [ stage |-> version[d][n].stage, content |-> points[d][n],
                                source |-> source[d][n] ]
    BY <1>1, <1>3
  <2> HIDE DEF old, new, o, L
  <2>3. CASE n = L + 1
    BY <2>1, <2>3, <1>2 DEF Log!Entry
  <2>4. CASE n # L + 1
    BY <2>1, <2>2, <2>4, <1>2
  <2> QED
    BY <2>3, <2>4
<1> HIDE DEF old, new
<1>8. new = Append(old, Log!Entry(o.target, o.content, o.source))
  BY <1>4, <1>6, <1>7
<1> QED
  BY <1>8 DEF old, new

LEMMA VersionsAre ==
  Versions = [ d \in Dataset |-> LogOf(version[d], points[d], source[d]) ]
  BY LatestIs DEF LogOf, Versions

LEMMA InitIsEmptyLog == Init => Log!Init
<1> SUFFICES ASSUME Init PROVE Log!Init
  OBVIOUS
<1>1. ASSUME NEW d \in Dataset PROVE LogOf(version[d], points[d], source[d]) = << >>
  <2>1. \A n \in Number : version[d][n] = None
    BY DEF Init
  <2>2. LatestOf(version[d]) = 0
    BY <2>1, LatestRow, BoundAssumption DEF Number
  <2> QED
    BY <2>2 DEF LogOf
<1> QED
  BY <1>1, VersionsAre DEF Log!Init

LEMMA NextVersions ==
  Versions' = [ d \in Dataset |-> LogOf(version'[d], points'[d], source'[d]) ]
  BY DEF LogOf, Versions, LatestVersionNumber, LatestOf, Exists

\* Only an insertion writes to the log; it ingests a content, or promotes that of
\* a VALIDATED version that is there.
LEMMA StepLogs == IInv /\ [Next]_vars => [Log!Next]_Versions
<1> SUFFICES ASSUME IInv, [Next]_vars PROVE [Log!Next]_Versions
  OBVIOUS
<1>1. CASE UNCHANGED tables
  BY <1>1, VersionsAre, NextVersions DEF tables
<1>2. ASSUME NEW p \in Proc, AppendDatasetVersion(p)
      PROVE  Log!Next
  <2>1. op[p] \in Operation /\ op[p].stage = "appending" /\ StillTrue(op[p])
    BY <1>2 DEF AppendDatasetVersion, At, IInv, TypeOK, NoOperation
  <2>2. PICK d \in Dataset, c \in Content, target \in Stage, n \in Number \cup {0} :
          /\ d = op[p].dataset /\ c = op[p].content
          /\ target = op[p].target /\ n = op[p].source
    BY <2>1, CallType
  <2>3. \A e \in Dataset \ {d} :
          version'[e] = version[e] /\ points'[e] = points[e] /\ source'[e] = source[e]
    BY <1>2, <2>2, AppendsNext
  <2>4. LogOf(version'[d], points'[d], source'[d]) =
          Append(LogOf(version[d], points[d], source[d]), Log!Entry(target, c, n))
    BY <1>2, <2>2, LogGrows
  <2>5. Versions' = [Versions EXCEPT ![d] = Append(@, Log!Entry(target, c, n))]
    BY <2>2, <2>3, <2>4, VersionsAre, NextVersions
  <2>6. CASE n = 0
    BY <2>2, <2>5, <2>6 DEF Log!Next, Log!Ingest, Stage
  <2>7. CASE n # 0
    <3>1. /\ target = "PROCESSED" /\ n \in Number
          /\ Exists(d, n)
          /\ version[d][n].stage = "VALIDATED"
          /\ version[d][n].hash = c
      BY <2>1, <2>2, <2>7 DEF StillTrue, Attested
    <3>2. /\ n \in 1 .. LatestOf(version[d])
          /\ points[d][n] = c
      BY <2>2, <3>1, LatestRow, BoundAssumption DEF Exists, Number, IInv, RowsAgree
    <3>3. /\ n \in 1 .. Len(Versions[d])
          /\ Versions[d][n].stage = "VALIDATED"
          /\ Versions[d][n].content = c
      <4>1. Versions[d] =
              [ m \in 1 .. LatestOf(version[d]) |->
                  [ stage |-> version[d][m].stage, content |-> points[d][m],
                    source |-> source[d][m] ] ]
        BY <2>2, VersionsAre DEF LogOf
      <4>2. Len(Versions[d]) = LatestOf(version[d])
        BY <4>1, LatestRow
      <4>3. Versions[d][n] = [ stage |-> version[d][n].stage, content |-> points[d][n],
                               source |-> source[d][n] ]
        BY <3>2, <4>1
      <4> QED
        BY <3>1, <3>2, <4>2, <4>3
    <3> QED
      BY <2>2, <2>5, <3>1, <3>3 DEF Log!Next, Log!Promote
  <2> QED
    BY <2>2, <2>6, <2>7
<1>3. ASSUME NEW p \in Proc,
             \/ IngestRawBatch(p) \/ PromoteToProcessed(p) \/ LoadSource(p)
             \/ ReadLatest(p) \/ StartCycle(p) \/ LoadDatasetVersion(p)
             \/ LoadPoints(p) \/ Return(p)
      PROVE  UNCHANGED tables
  BY <1>3 DEF IngestRawBatch, PromoteToProcessed, LoadSource, ReadLatest, StartCycle,
              LoadDatasetVersion, LoadPoints, Fetch, Return
<1>4. UNCHANGED vars => UNCHANGED tables
  BY DEF vars, tables
<1> QED
  BY <1>1, <1>2, <1>3, <1>4 DEF Next

\* ImplementsLog: the tables are a log of versions although the numbers are read
\* outside the transactions that use them (append_dataset_version).
THEOREM Implements == Spec => ImplementsLog
  BY InitIsEmptyLog, StepLogs, Inductive, PTL DEF Spec, ImplementsLog, Log!Spec
=============================================================================
