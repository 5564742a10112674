------------------------- MODULE DataValidationProofs -------------------------
(***************************************************************************)
(* The validation of a batch, for any series, times, candles and interval: *)
(* what is kept of it, and that nothing disappears.                        *)
(***************************************************************************)
EXTENDS DataValidation, FiniteSetTheorems, TLAPS

-----------------------------------------------------------------------------
(* The passes, one point at a time *)

\* The bodies of the three loops. What they are given is the series of the batch.
Admit(series, kept, p) ==
  IF p.series = series /\ ValidCandle(p.candle) /\ p.time <= Deadline
  THEN Append(kept, p) ELSE kept

Order(given, kept, p) ==
  IF kept # <<>> /\ p.time < Last(kept).time THEN kept ELSE Append(kept, p)

First(given, kept, p) ==
  IF \E q \in ToSet(kept) : q.time = p.time THEN kept ELSE Append(kept, p)

Admission == INSTANCE Lemmas WITH Body <- Admit
Ordering == INSTANCE Lemmas WITH Body <- Order
Deduplication == INSTANCE Lemmas WITH Body <- First

\* The three passes as loops.
LEMMA AdmittedIs ==
  ASSUME NEW b PROVE Admitted(b) = Admission!After(Head(b).series, <<>>, b)
  BY DEF Admitted, Admissible, Admit, Admission!After, Admission!FoldLeft,
         Admission!MapThenFoldSet, Admission!Max, FoldLeft, MapThenFoldSet, Max

LEMMA InOrderIs ==
  ASSUME NEW s PROVE InOrder(s) = Ordering!After(None, <<>>, s)
  BY DEF InOrder, Order, Ordering!After, Ordering!FoldLeft,
         Ordering!MapThenFoldSet, Ordering!Max, FoldLeft, MapThenFoldSet, Max

LEMMA DeduplicateIs ==
  ASSUME NEW s PROVE Deduplicate(s) = Deduplication!After(None, <<>>, s)
  BY DEF Deduplicate, First, Deduplication!After, Deduplication!FoldLeft,
         Deduplication!MapThenFoldSet, Deduplication!Max, FoldLeft, MapThenFoldSet, Max

Points == Seq(RawPricePoint)

\* Each pass makes a sequence of points of a sequence of points.
LEMMA PassesType ==
  ASSUME NEW s \in Points
  PROVE  Admitted(s) \in Points /\ InOrder(s) \in Points /\ Deduplicate(s) \in Points
<1>1. <<>> \in Points
  BY DEF Points
<1> DEFINE series == Head(s).series
<1>2. \A v \in Points, x \in RawPricePoint : Admit(series, v, x) \in Points
  <2> HIDE DEF series
  <2> QED
    BY DEF Admit, Points
<1>3. \A v \in Points, x \in RawPricePoint : Order(None, v, x) \in Points
  BY DEF Order, Points
<1>4. \A v \in Points, x \in RawPricePoint : First(None, v, x) \in Points
  BY DEF First, Points
<1>5. Admission!After(series, <<>>, s) \in Points
  <2> HIDE DEF series
  <2> QED
    BY <1>1, <1>2, Admission!LoopStays DEF Points
<1>6. Ordering!After(None, <<>>, s) \in Points
  BY <1>1, <1>3, Ordering!LoopStays DEF Points
<1>7. Deduplication!After(None, <<>>, s) \in Points
  BY <1>1, <1>4, Deduplication!LoopStays DEF Points
<1> QED
  BY <1>5, <1>6, <1>7, AdmittedIs, InOrderIs, DeduplicateIs

\* Nothing is made of nothing.
LEMMA PassesEmpty == Admitted(<<>>) = <<>> /\ InOrder(<<>>) = <<>> /\ Deduplicate(<<>>) = <<>>
<1>1. Admission!After(Head(<<>>).series, <<>>, <<>>) = <<>>
  BY Admission!LoopEmpty
<1>2. Ordering!After(None, <<>>, <<>>) = <<>>
  BY Ordering!LoopEmpty
<1>3. Deduplication!After(None, <<>>, <<>>) = <<>>
  BY Deduplication!LoopEmpty
<1> QED
  BY <1>1, <1>2, <1>3, AdmittedIs, InOrderIs, DeduplicateIs

\* The next point goes through each pass after all the others.
LEMMA AdmittedAppend ==
  ASSUME NEW b \in Points, NEW p \in RawPricePoint
  PROVE  Admitted(Append(b, p)) = IF Admissible(Append(b, p), p)
                                  THEN Append(Admitted(b), p) ELSE Admitted(b)
<1> DEFINE c == Append(b, p)
<1>1. Admitted(c) = Admission!After(Head(c).series, <<>>, c)
  BY AdmittedIs
<1>2. Admission!After(Head(c).series, <<>>, b) = Admitted(b)
  <2>1. CASE b = <<>>
    <3>1. Admission!After(Head(c).series, <<>>, b) = <<>>
      BY <2>1, Admission!LoopEmpty
    <3> QED
      BY <2>1, <3>1, PassesEmpty
  <2>2. CASE b # <<>>
    <3>1. Head(c) = Head(b)
      BY <2>2 DEF Points
    <3> QED
      BY <3>1, AdmittedIs
  <2> QED
    BY <2>1, <2>2
<1>3. \A series : Admission!After(series, <<>>, c) = Admit(series, Admission!After(series, <<>>, b), p)
  BY Admission!LoopAppend DEF Points
<1> QED
  BY <1>1, <1>2, <1>3 DEF Admit, Admissible

\* A point more is kept unless it is earlier than the last one kept.
LEMMA InOrderAppend ==
  ASSUME NEW s \in Points, NEW p \in RawPricePoint
  PROVE  InOrder(Append(s, p)) = IF InOrder(s) # <<>> /\ p.time < Last(InOrder(s)).time
                                 THEN InOrder(s) ELSE Append(InOrder(s), p)
<1>1. Ordering!After(None, <<>>, Append(s, p)) = Order(None, Ordering!After(None, <<>>, s), p)
  BY Ordering!LoopAppend DEF Points
<1> QED
  BY <1>1, InOrderIs DEF Order

\* A point more is kept unless its time is taken.
LEMMA DeduplicateAppend ==
  ASSUME NEW s \in Points, NEW p \in RawPricePoint
  PROVE  Deduplicate(Append(s, p)) = IF \E q \in ToSet(Deduplicate(s)) : q.time = p.time
                                     THEN Deduplicate(s) ELSE Append(Deduplicate(s), p)
<1>1. Deduplication!After(None, <<>>, Append(s, p))
        = First(None, Deduplication!After(None, <<>>, s), p)
  BY Deduplication!LoopAppend DEF Points
<1> QED
  BY <1>1, DeduplicateIs DEF First

-----------------------------------------------------------------------------
(* What is kept of a batch that grows *)

Increasing(s) == \A i, j \in 1 .. Len(s) : i < j => s[i].time < s[j].time

\* The points in order and the ones kept of them end at the same time.
InStep(s, kept) ==
  /\ s = <<>> <=> kept = <<>>
  /\ s # <<>> => Last(s).time = Last(kept).time

Later(kept, p) == kept = <<>> \/ Last(kept).time < p.time

TimesRise(b) == Increasing(Kept(b)) /\ InStep(InOrder(Admitted(b)), Kept(b))

\* Points and their times.
LEMMA PointType ==
  ASSUME NEW s \in Points
  PROVE  /\ Len(s) \in Nat
         /\ \A i \in 1 .. Len(s) : s[i] \in RawPricePoint /\ s[i].time \in Nat
         /\ s # <<>> => Last(s) = s[Len(s)] /\ Last(s) \in RawPricePoint /\ Len(s) \in 1 .. Len(s)
<1>1. Len(s) \in Nat /\ \A i \in 1 .. Len(s) : s[i] \in RawPricePoint
  BY DEF Points
<1>2. \A x \in RawPricePoint : x.time \in Nat
  BY TimeAssumption DEF RawPricePoint
<1>3. s # <<>> => Len(s) \in 1 .. Len(s)
  BY DEF Points
<1> QED
  BY <1>1, <1>2, <1>3 DEF Last

\* A batch with a point more is a batch.
LEMMA AppendType ==
  ASSUME NEW s \in Points, NEW p \in RawPricePoint
  PROVE  /\ Append(s, p) \in Points /\ Append(s, p) # <<>>
         /\ Len(Append(s, p)) = Len(s) + 1 /\ Last(Append(s, p)) = p
         /\ Append(s, p)[Len(s) + 1] = p
         /\ \A i \in 1 .. Len(s) : Append(s, p)[i] = s[i]
  BY DEF Points, Last

\* What the passes keep are points.
LEMMA KeptType ==
  ASSUME NEW b \in Points
  PROVE  Admitted(b) \in Points /\ InOrder(Admitted(b)) \in Points /\ Kept(b) \in Points
  BY PassesType DEF Kept

\* The last time is the greatest.
LEMMA LastIsLatest ==
  ASSUME NEW s \in Points, Increasing(s), s # <<>>
  PROVE  \A i \in 1 .. Len(s) : s[i].time <= Last(s).time
  BY PointType DEF Increasing

\* A later point lets the times rise on.
LEMMA IncreasingAppend ==
  ASSUME NEW s \in Points, NEW p \in RawPricePoint, Increasing(s), Later(s, p)
  PROVE  Increasing(Append(s, p))
<1> SUFFICES ASSUME NEW i \in 1 .. Len(s) + 1, NEW j \in 1 .. Len(s) + 1, i < j
             PROVE  Append(s, p)[i].time < Append(s, p)[j].time
  BY AppendType DEF Increasing
<1>1. Len(s) \in Nat /\ i \in 1 .. Len(s) /\ p.time \in Nat /\ s[i].time \in Nat
  <2>1. Len(s) \in Nat /\ i \in 1 .. Len(s)
    BY PointType
  <2>2. p.time \in Nat
    BY TimeAssumption DEF RawPricePoint
  <2> QED
    BY <2>1, <2>2, PointType
<1>2. CASE j \in 1 .. Len(s)
  BY <1>1, <1>2, AppendType DEF Increasing
<1>3. CASE j = Len(s) + 1
  <2>1. s # <<>>
    BY <1>1
  <2>2. s[i].time <= Last(s).time /\ Last(s).time < p.time /\ Last(s).time \in Nat
    BY <1>1, <2>1, LastIsLatest, PointType DEF Later
  <2> QED
    BY <1>1, <1>3, <2>2, AppendType
<1> QED
  BY <1>1, <1>2, <1>3

\* A point is kept if it is admissible and later than the last one kept.
LEMMA KeptAppend ==
  ASSUME NEW b \in Points, NEW p \in RawPricePoint, TimesRise(b)
  PROVE  /\ Kept(Append(b, p)) = IF Admissible(Append(b, p), p) /\ Later(Kept(b), p)
                                  THEN Append(Kept(b), p) ELSE Kept(b)
         /\ TimesRise(Append(b, p))
<1> DEFINE c == Append(b, p)
           o == InOrder(Admitted(b))
           k == Kept(b)
<1>1. /\ Admitted(b) \in Points /\ o \in Points /\ k \in Points /\ k = Deduplicate(o)
      /\ Increasing(k) /\ InStep(o, k) /\ p.time \in Nat
  BY KeptType, TimeAssumption DEF TimesRise, Kept, RawPricePoint
<1>2. CASE ~ Admissible(c, p)
  <2>1. Admitted(c) = Admitted(b)
    BY <1>2, AdmittedAppend
  <2> QED
    BY <1>2, <2>1 DEF Kept, TimesRise
<1>3. CASE Admissible(c, p)
  <2>1. InOrder(Admitted(c)) = IF o # <<>> /\ p.time < Last(o).time THEN o ELSE Append(o, p)
    <3>1. Admitted(c) = Append(Admitted(b), p)
      BY <1>3, AdmittedAppend
    <3> QED
      BY <1>1, <3>1, InOrderAppend
  <2>2. CASE o # <<>> /\ p.time < Last(o).time
    <3>1. InOrder(Admitted(c)) = o
      BY <2>1, <2>2
    <3>2. Kept(c) = k
      BY <3>1 DEF Kept
    <3>3. ~ Later(k, p)
      BY <1>1, <2>2, PointType DEF InStep, Later
    <3> QED
      BY <3>1, <3>2, <3>3 DEF TimesRise
  <2>3. CASE ~ (o # <<>> /\ p.time < Last(o).time)
    <3>1. InOrder(Admitted(c)) = Append(o, p)
      BY <2>1, <2>3
    <3>2. Kept(c) = IF \E q \in ToSet(k) : q.time = p.time THEN k ELSE Append(k, p)
      BY <1>1, <3>1, DeduplicateAppend DEF Kept
    <3>3. Append(o, p) # <<>> /\ Last(Append(o, p)) = p
      BY <1>1, AppendType
    <3> HIDE DEF c, o, k
    <3>4. CASE Later(k, p)
      <4>1. ~ \E q \in ToSet(k) : q.time = p.time
        <5> SUFFICES ASSUME NEW i \in DOMAIN k, k[i].time = p.time PROVE FALSE
          BY DEF ToSet
        <5>1. i \in 1 .. Len(k) /\ k # <<>>
          BY <1>1 DEF Points
        <5>2. k[i].time <= Last(k).time /\ Last(k).time < p.time /\ Last(k).time \in Nat
          BY <1>1, <3>4, <5>1, LastIsLatest, PointType DEF Later, RawPricePoint
        <5> QED
          BY <1>1, <5>2
      <4>2. Kept(c) = Append(k, p)
        BY <3>2, <4>1
      <4>3. Increasing(Append(k, p)) /\ Append(k, p) # <<>> /\ Last(Append(k, p)) = p
        BY <1>1, <3>4, IncreasingAppend, AppendType
      <4>4. TimesRise(c)
        BY <3>1, <3>3, <4>2, <4>3 DEF TimesRise, InStep
      <4> QED
        BY <1>3, <3>4, <4>2, <4>4 DEF c, k
    <3>5. CASE ~ Later(k, p)
      <4>1. k # <<>> /\ o # <<>> /\ Last(o).time = Last(k).time /\ Last(k).time = p.time
        BY <1>1, <2>3, <3>5, PointType DEF InStep, Later, o, RawPricePoint
      <4>2. Last(k) \in ToSet(k)
        BY <1>1, <4>1, PointType DEF ToSet, Points
      <4>3. Kept(c) = k
        BY <3>2, <4>1, <4>2
      <4>4. TimesRise(c)
        BY <1>1, <3>1, <3>3, <4>1, <4>3 DEF TimesRise, InStep
      <4> QED
        BY <3>5, <4>3, <4>4 DEF c, k
    <3> QED
      BY <3>4, <3>5
  <2> QED
    BY <2>2, <2>3
<1> QED
  BY <1>2, <1>3

-----------------------------------------------------------------------------
(* The gaps of a sample *)

\* Two points of the grid that are not further apart than one and a half
\* intervals are one interval apart.
LEMMA NextOnGrid ==
  ASSUME NEW n \in Interval, NEW t \in Nat, NEW u \in Nat, t < u,
         t % n = 0, u % n = 0, ~ IsGap(t, u, n)
  PROVE  u = t + n
<1> DEFINE a == t \div n
           c == u \div n
<1>1. n \in Nat /\ n > 0
  BY IntervalAssumption
<1>2. a \in Int /\ c \in Int /\ t = n * a /\ u = n * c
  BY <1>1
<1>3. 2 * (u - t) <= 3 * n
  BY <1>1 DEF IsGap
<1> HIDE DEF a, c
<1> DEFINE d == c - a
<1>4. d \in Int /\ u - t = n * d
  BY <1>1, <1>2
<1> HIDE DEF d
<1>5. d >= 1
  <2> SUFFICES ASSUME d <= 0 PROVE FALSE
    BY <1>4
  <2>1. n * d <= 0
    BY <1>1, <1>4
  <2> QED
    BY <1>1, <1>4, <2>1
<1>6. d <= 1
  <2> SUFFICES ASSUME d >= 2 PROVE FALSE
    BY <1>4
  <2>1. n * d >= n * 2
    BY <1>1, <1>4
  <2> QED
    BY <1>1, <1>3, <1>4, <2>1
<1> QED
  BY <1>1, <1>4, <1>5, <1>6

-----------------------------------------------------------------------------
(* A sample validated again *)

\* What is kept could have been the batch.
Unchanged(kept) ==
  /\ Admitted(kept) = kept
  /\ InOrder(kept) = kept
  /\ Deduplicate(kept) = kept

\* All of it is of the series that the first point of the batch names.
OneSeries(b) == \A i \in 1 .. Len(Kept(b)) : Kept(b)[i].series = Head(b).series

\* What the passes leave as it is stays so with a later sound point of its series.
LEMMA UnchangedAppend ==
  ASSUME NEW s \in Points, NEW p \in RawPricePoint, Unchanged(s), Increasing(s),
         Later(s, p), Admissible(Append(s, p), p)
  PROVE  Unchanged(Append(s, p))
<1>1. Admitted(Append(s, p)) = Append(s, p)
  BY AdmittedAppend DEF Unchanged
<1>2. InOrder(Append(s, p)) = Append(s, p)
  <2>1. p.time \in Nat /\ (s # <<>> => Last(s).time \in Nat)
    BY PointType, TimeAssumption DEF RawPricePoint
  <2>2. ~ (s # <<>> /\ p.time < Last(s).time)
    BY <2>1 DEF Later
  <2> QED
    BY <2>2, InOrderAppend DEF Unchanged
<1>3. Deduplicate(Append(s, p)) = Append(s, p)
  <2>1. ~ \E q \in ToSet(s) : q.time = p.time
    <3> SUFFICES ASSUME NEW i \in 1 .. Len(s), s[i].time = p.time PROVE FALSE
      BY DEF ToSet, Points
    <3>1. s # <<>> /\ Last(s) \in RawPricePoint /\ s[i].time \in Nat
      BY PointType DEF Points
    <3>2. s[i].time <= Last(s).time /\ Last(s).time < p.time
      BY <3>1, LastIsLatest DEF Later
    <3>3. Last(s).time \in Nat
      BY <3>1, TimeAssumption DEF RawPricePoint
    <3> QED
      BY <3>1, <3>2, <3>3
  <2> QED
    BY <2>1, DeduplicateAppend DEF Unchanged
<1> QED
  BY <1>1, <1>2, <1>3 DEF Unchanged

\* A batch goes on with its first point.
LEMMA HeadOfAppend ==
  ASSUME NEW s \in Points, NEW p \in RawPricePoint
  PROVE  Head(Append(s, p)) = IF s = <<>> THEN p ELSE s[1]
  BY DEF Points

\* The point kept last is of the series of those kept before.
LEMMA KeptUnchanged ==
  ASSUME NEW b \in Points, NEW p \in RawPricePoint,
         TimesRise(b), OneSeries(b), Unchanged(Kept(b)), b = <<>> => Kept(b) = <<>>
  PROVE  OneSeries(Append(b, p)) /\ Unchanged(Kept(Append(b, p)))
<1> DEFINE c == Append(b, p)
           k == Kept(b)
<1>1. k \in Points /\ Increasing(k)
  BY KeptType DEF TimesRise
<1>2. \A i \in 1 .. Len(k) : k[i].series = Head(c).series
  <2>1. CASE b = <<>>
    <3>1. Len(k) = 0
      BY <2>1
    <3> QED
      BY <3>1
  <2>2. CASE b # <<>>
    <3>1. Head(b) = b[1]
      BY <2>2 DEF Points
    <3>2. Head(c) = Head(b)
      BY <2>2, <3>1, HeadOfAppend
    <3> QED
      BY <3>2 DEF OneSeries
  <2> QED
    BY <2>1, <2>2
<1>3. CASE ~ (Admissible(c, p) /\ Later(k, p))
  <2>1. Kept(c) = k
    BY <1>3, KeptAppend
  <2> QED
    BY <1>2, <2>1 DEF OneSeries
<1>4. CASE Admissible(c, p) /\ Later(k, p)
  <2>1. Kept(c) = Append(k, p)
    BY <1>4, KeptAppend
  <2>2. p.series = Head(c).series /\ ValidCandle(p.candle) /\ p.time <= Deadline
    BY <1>4 DEF Admissible
  <2> HIDE DEF c, k
  <2>3. OneSeries(c)
    <3> SUFFICES ASSUME NEW i \in 1 .. Len(k) + 1
                 PROVE  Append(k, p)[i].series = Head(c).series
      BY <1>1, <2>1, AppendType DEF OneSeries
    <3>1. CASE i \in 1 .. Len(k)
      BY <1>1, <1>2, <3>1, AppendType
    <3>2. CASE i = Len(k) + 1
      BY <1>1, <2>2, <3>2, AppendType
    <3> QED
      BY <1>1, <3>1, <3>2, PointType
  <2>4. Admissible(Append(k, p), p)
    <3>1. CASE k = <<>>
      BY <1>1, <2>2, <3>1, HeadOfAppend DEF Admissible
    <3>2. CASE k # <<>>
      <4>1. Head(Append(k, p)) = k[1] /\ 1 \in 1 .. Len(k)
        BY <1>1, <3>2, HeadOfAppend DEF Points
      <4> QED
        BY <1>2, <2>2, <4>1 DEF Admissible
    <3> QED
      BY <3>1, <3>2
  <2>5. Unchanged(Append(k, p))
    BY <1>1, <1>4, <2>4, UnchangedAppend DEF k
  <2> QED
    BY <2>1, <2>3, <2>5 DEF c
<1> QED
  BY <1>3, <1>4

-----------------------------------------------------------------------------
(* The records of a batch *)

\* ValidCandle asks what Consistent says.
LEMMA ConsistentIsValid ==
  ASSUME NEW c \in Candle PROVE Consistent(c) <=> ValidCandle(c)
<1>1. /\ c.price \in Nat /\ c.open \in Nat \cup {None}
      /\ c.high \in Nat \cup {None} /\ c.low \in Nat \cup {None}
  <2>1. c \in Candles
    BY CandleAssumption
  <2> QED
    BY <2>1 DEF Candles
<1>2. ASSUME NEW price \in Nat, NEW open \in Nat \cup {None},
             NEW high \in Nat \cup {None}, NEW low \in Nat \cup {None},
             c.price = price, c.open = open, c.high = high, c.low = low
      PROVE  Consistent(c) <=> ValidCandle(c)
  <2>1. Consistent(c) <=>
          /\ price > 0 /\ (high # None => price <= high) /\ (low # None => price >= low)
          /\ open # None =>
               open > 0 /\ (high # None => open <= high) /\ (low # None => open >= low)
          /\ high # None => high > 0 /\ (low # None => high >= low)
          /\ low # None => low > 0 /\ (high # None => low <= high)
    BY <1>2, NoneAssumption DEF Consistent, Given
  <2>2. ValidCandle(c) <=>
          /\ price > 0 /\ (open # None => open > 0)
          /\ (high # None => high > 0) /\ (low # None => low > 0)
          /\ (high # None /\ low # None => high >= low)
          /\ (high # None => price <= high) /\ (low # None => price >= low)
          /\ (open # None /\ high # None => open <= high)
          /\ (open # None /\ low # None => open >= low)
    BY <1>2 DEF ValidCandle, Given, FinitePositive
  <2>3. /\ open # None => open \in Nat
        /\ high # None => high \in Nat
        /\ low # None => low \in Nat
    OBVIOUS
  <2> QED
    BY <2>1, <2>2, <2>3
<1> QED
  BY <1>1, <1>2

Records(b) ==
  { i \in Sound(b) : \A j \in Sound(b) : j < i => b[j].time < b[i].time }

UpTo(b, i) == { j \in Records(b) : j <= i }

RecordsKept(b) ==
  /\ Len(Kept(b)) = Cardinality(Records(b))
  /\ \A i \in Records(b) : Kept(b)[Cardinality(UpTo(b, i))] = b[i]

\* The last point kept is as late as the latest sound one.
KeptLast(b) ==
  /\ \A i \in Sound(b) : Kept(b) # <<>> /\ b[i].time <= Last(Kept(b)).time
  /\ Kept(b) # <<>> => \E i \in Sound(b) : b[i].time = Last(Kept(b)).time

\* A point more is sound exactly when it is admitted.
LEMMA SoundAppend ==
  ASSUME NEW b \in Points, NEW p \in RawPricePoint
  PROVE  /\ Sound(b) \subseteq 1 .. Len(b)
         /\ Sound(Append(b, p)) = Sound(b) \cup (IF Admissible(Append(b, p), p)
                                                 THEN {Len(b) + 1} ELSE {})
<1> DEFINE c == Append(b, p)
           n == Len(b)
<1>1. /\ n \in Nat /\ Len(c) = n + 1 /\ c[n + 1] = p /\ \A i \in 1 .. n : c[i] = b[i]
      /\ p.candle \in Candle
  BY AppendType, PointType DEF RawPricePoint
<1>2. Head(c) = c[1]
  BY DEF Points
<1> HIDE DEF c, n
<1>3. ASSUME NEW i \in 1 .. n PROVE i \in Sound(c) <=> i \in Sound(b)
  <2>1. c[i] = b[i] /\ c[1] = b[1] /\ i \in 1 .. n + 1
    BY <1>1
  <2> QED
    BY <1>1, <2>1 DEF Sound, n
<1>4. n + 1 \in Sound(c) <=> Admissible(c, p)
  BY <1>1, <1>2, ConsistentIsValid DEF Sound, Admissible
<1>5. Sound(b) \subseteq 1 .. n /\ Sound(c) \subseteq 1 .. n + 1
  BY <1>1 DEF Sound, n
<1>6. Sound(c) = Sound(b) \cup (IF Admissible(c, p) THEN {n + 1} ELSE {})
  BY <1>1, <1>3, <1>4, <1>5
<1> QED
  BY <1>5, <1>6 DEF c, n

\* It is a record exactly when it is also later than the last point kept.
LEMMA RecordsAppend ==
  ASSUME NEW b \in Points, NEW p \in RawPricePoint, KeptLast(b)
  PROVE  Records(Append(b, p))
           = Records(b) \cup (IF Admissible(Append(b, p), p) /\ Later(Kept(b), p)
                              THEN {Len(b) + 1} ELSE {})
<1> DEFINE c == Append(b, p)
           n == Len(b)
           k == Kept(b)
<1>1. /\ n \in Nat /\ Len(c) = n + 1 /\ c[n + 1] = p /\ \A i \in 1 .. n : c[i] = b[i]
      /\ \A i \in 1 .. n : b[i].time \in Nat
      /\ k # <<>> => Last(k).time \in Nat
  <2>1. k # <<>> => Last(k) \in RawPricePoint
    BY KeptType, PointType
  <2> QED
    BY <2>1, AppendType, PointType, TimeAssumption DEF RawPricePoint
<1>2. p.time \in Nat
  BY TimeAssumption DEF RawPricePoint
<1>3. /\ Sound(b) \subseteq 1 .. n
      /\ Sound(c) = Sound(b) \cup (IF Admissible(c, p) THEN {n + 1} ELSE {})
  BY SoundAppend
<1>4. /\ \A i \in Sound(b) : k # <<>> /\ b[i].time <= Last(k).time
      /\ k # <<>> => \E i \in Sound(b) : b[i].time = Last(k).time
  BY DEF KeptLast
<1> HIDE DEF c, n, k
<1>5. ASSUME NEW i \in Sound(b) PROVE i \in Records(c) <=> i \in Records(b)
  <2>1. i \in 1 .. n /\ c[i] = b[i] /\ i \in Sound(c) /\ ~ (n + 1 < i)
    BY <1>1, <1>3
  <2>2. \A j \in Sound(b) : c[j] = b[j] /\ j \in Sound(c)
    BY <1>1, <1>3
  <2> QED
    BY <1>3, <2>1, <2>2 DEF Records
<1>6. ASSUME Admissible(c, p) PROVE n + 1 \in Records(c) <=> Later(k, p)
  <2>1. n + 1 \in Sound(c) /\ \A j \in Sound(b) : j < n + 1 /\ c[j] = b[j]
    BY <1>1, <1>3, <1>6
  <2>2. n + 1 \in Records(c) <=> \A j \in Sound(b) : b[j].time < p.time
    <3>1. ~ (n + 1 < n + 1)
      BY <1>1
    <3>2. \A j \in Sound(c) : j < n + 1 => j \in Sound(b)
      BY <1>3, <3>1
    <3> QED
      BY <1>1, <1>3, <2>1, <3>2 DEF Records
  <2>3. (\A j \in Sound(b) : b[j].time < p.time) <=> Later(k, p)
    <3>1. CASE k = <<>>
      BY <1>4, <3>1 DEF Later
    <3>2. CASE k # <<>>
      <4>1. PICK i \in Sound(b) : b[i].time = Last(k).time
        BY <1>4, <3>2
      <4>2. Last(k).time \in Nat /\ \A j \in Sound(b) : b[j].time \in Nat /\ b[j].time <= Last(k).time
        BY <1>1, <1>3, <1>4, <3>2
      <4> QED
        BY <1>2, <3>2, <4>1, <4>2 DEF Later
    <3> QED
      BY <3>1, <3>2
  <2> QED
    BY <2>2, <2>3
<1>7. Records(b) \subseteq Sound(b) /\ Records(c) \subseteq Sound(c)
  BY DEF Records
<1>8. Records(c) = Records(b) \cup (IF Admissible(c, p) /\ Later(k, p) THEN {n + 1} ELSE {})
  BY <1>3, <1>5, <1>6, <1>7
<1> QED
  BY <1>8 DEF c, n, k

\* The last point kept stays as late as the latest sound one.
LEMMA KeptLastAppend ==
  ASSUME NEW b \in Points, NEW p \in RawPricePoint, TimesRise(b), KeptLast(b)
  PROVE  KeptLast(Append(b, p))
<1> DEFINE c == Append(b, p)
           n == Len(b)
           k == Kept(b)
<1>1. /\ n \in Nat /\ c[n + 1] = p /\ \A i \in 1 .. n : c[i] = b[i] /\ b[i].time \in Nat
  BY AppendType, PointType
<1>2. p.time \in Nat /\ k \in Points
  BY TimeAssumption, KeptType DEF RawPricePoint
<1>3. k # <<>> => Last(k).time \in Nat
  <2>1. k # <<>> => Last(k) \in RawPricePoint
    BY <1>2, PointType
  <2> QED
    BY <2>1, TimeAssumption DEF RawPricePoint
<1>4. /\ Sound(b) \subseteq 1 .. n
      /\ Sound(c) = Sound(b) \cup (IF Admissible(c, p) THEN {n + 1} ELSE {})
  BY SoundAppend
<1>5. /\ \A i \in Sound(b) : k # <<>> /\ b[i].time <= Last(k).time
      /\ k # <<>> => \E i \in Sound(b) : b[i].time = Last(k).time
  BY DEF KeptLast
<1>6. Kept(c) = IF Admissible(c, p) /\ Later(k, p) THEN Append(k, p) ELSE k
  BY KeptAppend
<1>7. Append(k, p) # <<>> /\ Last(Append(k, p)) = p
  BY <1>2, AppendType
<1> SUFFICES KeptLast(c)
  OBVIOUS
<1> HIDE DEF c, n, k
<1>8. CASE ~ Admissible(c, p)
  BY <1>1, <1>4, <1>5, <1>6, <1>8 DEF KeptLast
<1>9. CASE Admissible(c, p) /\ ~ Later(k, p)
  <2>1. k # <<>> /\ p.time <= Last(k).time /\ Kept(c) = k
    BY <1>2, <1>3, <1>6, <1>9 DEF Later
  <2> QED
    BY <1>1, <1>4, <1>5, <1>9, <2>1 DEF KeptLast
<1>10. CASE Admissible(c, p) /\ Later(k, p)
  <2>1. Kept(c) # <<>> /\ Last(Kept(c)) = p /\ n + 1 \in Sound(c)
    BY <1>4, <1>6, <1>7, <1>10
  <2>2. \A i \in Sound(c) : c[i].time <= p.time
    <3>1. \A i \in Sound(b) : c[i].time <= p.time
      BY <1>1, <1>2, <1>3, <1>4, <1>5, <1>10 DEF Later
    <3> QED
      BY <1>1, <1>2, <1>4, <3>1
  <2> QED
    BY <1>1, <2>1, <2>2 DEF KeptLast
<1> QED
  BY <1>8, <1>9, <1>10

\* A record more is the last point kept, and the ones before it keep their places.
LEMMA RecordsKeptAppend ==
  ASSUME NEW b \in Points, NEW p \in RawPricePoint, TimesRise(b), KeptLast(b), RecordsKept(b)
  PROVE  RecordsKept(Append(b, p))
<1> DEFINE c == Append(b, p)
           n == Len(b)
           k == Kept(b)
<1>1. n \in Nat /\ c[n + 1] = p /\ \A i \in 1 .. n : c[i] = b[i]
  BY AppendType, PointType
<1>2. k \in Points /\ Len(k) \in Nat
  BY KeptType, PointType
<1>3. Records(b) \subseteq 1 .. n
  BY SoundAppend DEF Records
<1>4. IsFiniteSet(Records(b)) /\ Len(k) = Cardinality(Records(b))
  <2>1. IsFiniteSet(1 .. n)
    BY <1>1, FS_Interval
  <2> QED
    BY <1>3, <2>1, FS_Subset DEF RecordsKept
<1>5. \A i \in Records(b) : k[Cardinality(UpTo(b, i))] = b[i]
  BY DEF RecordsKept
<1>6. Records(c) = Records(b) \cup (IF Admissible(c, p) /\ Later(k, p) THEN {n + 1} ELSE {})
  BY RecordsAppend
<1>7. Kept(c) = IF Admissible(c, p) /\ Later(k, p) THEN Append(k, p) ELSE k
  BY KeptAppend
<1>8. /\ Len(Append(k, p)) = Len(k) + 1 /\ Append(k, p)[Len(k) + 1] = p
      /\ \A i \in 1 .. Len(k) : Append(k, p)[i] = k[i]
  BY <1>2, AppendType
<1> SUFFICES RecordsKept(c)
  OBVIOUS
<1> HIDE DEF c, n, k
<1>9. \A i \in Records(b) : UpTo(c, i) = UpTo(b, i) /\ c[i] = b[i]
  BY <1>1, <1>3, <1>6 DEF UpTo
<1>10. CASE ~ (Admissible(c, p) /\ Later(k, p))
  BY <1>4, <1>5, <1>6, <1>7, <1>9, <1>10 DEF RecordsKept
<1>11. CASE Admissible(c, p) /\ Later(k, p)
  <2>1. Records(c) = Records(b) \cup {n + 1} /\ Kept(c) = Append(k, p) /\ n + 1 \notin Records(b)
    BY <1>1, <1>3, <1>6, <1>7, <1>11
  <2>2. Cardinality(Records(c)) = Len(k) + 1
    BY <1>4, <2>1, FS_AddElement
  <2>3. UpTo(c, n + 1) = Records(c)
    BY <1>1, <1>3, <2>1 DEF UpTo
  <2>4. ASSUME NEW i \in Records(b) PROVE Append(k, p)[Cardinality(UpTo(c, i))] = c[i]
    <3>1. UpTo(b, i) \in SUBSET Records(b) /\ i \in UpTo(b, i)
      BY <1>1, <1>3 DEF UpTo
    <3>2. IsFiniteSet(UpTo(b, i)) /\ Cardinality(UpTo(b, i)) <= Len(k)
      BY <1>4, <3>1, FS_Subset
    <3>3. Cardinality(UpTo(b, i)) \in Nat /\ Cardinality(UpTo(b, i)) # 0
      BY <3>1, <3>2, FS_CardinalityType, FS_EmptySet
    <3>4. Cardinality(UpTo(b, i)) \in 1 .. Len(k)
      BY <1>2, <3>2, <3>3
    <3> QED
      BY <1>5, <1>8, <1>9, <3>4
  <2> QED
    BY <1>1, <1>8, <2>1, <2>2, <2>3, <2>4 DEF RecordsKept
<1> QED
  BY <1>10, <1>11

-----------------------------------------------------------------------------
(* The repetitions that are removed *)

Finding == [ time : Nat, occurrences : Nat ]

Removed(finding) == finding.occurrences - 1

Removals(findings) == MapThenSumSet(LAMBDA finding : finding.occurrences - 1, findings)

Chosen(T) == CHOOSE x \in T : TRUE

\* MapThenSumSet takes any element away, then any other.
SumOf(g, T) == IF T = {} THEN 0 ELSE Removed(Chosen(T)) + g[T \ {Chosen(T)}]

IsSum(g, S) == g = [ T \in SUBSET S |-> SumOf(g, T) ]

\* Induction over finite sets takes one element at a time.
LEMMA SmallerSet ==
  ASSUME NEW S, IsFiniteSet(S), NEW T \in SUBSET S, NEW x \in T, NEW n \in Nat,
         Cardinality(T) <= n + 1
  PROVE  T \ {x} \in SUBSET S /\ Cardinality(T \ {x}) <= n
<1>1. IsFiniteSet(T)
  BY FS_Subset
<1>2. Cardinality(T) \in Nat /\ Cardinality(T \ {x}) = Cardinality(T) - 1
  BY <1>1, FS_CardinalityType, FS_RemoveElement
<1> QED
  BY <1>2

\* And ends with none.
LEMMA NoElement ==
  ASSUME NEW S, IsFiniteSet(S), NEW T \in SUBSET S, Cardinality(T) <= 0
  PROVE  T = {}
<1>1. IsFiniteSet(T)
  BY FS_Subset
<1> QED
  BY <1>1, FS_CardinalityType, FS_EmptySet

\* The element taken is one of the set.
LEMMA ChosenIn == ASSUME NEW T, T # {} PROVE Chosen(T) \in T
  BY DEF Chosen

\* The sum over the subsets of a finite set is a function.
LEMMA SumExists ==
  ASSUME NEW S, IsFiniteSet(S)
  PROVE  \E g : IsSum(g, S)
<1> DEFINE UpToSize(h, n) == /\ h = [ T \in SUBSET S |-> h[T] ]
                             /\ \A T \in SUBSET S : Cardinality(T) <= n => h[T] = SumOf(h, T)
           N == { n \in Nat : \E h : UpToSize(h, n) }
<1>1. 0 \in N
  <2> DEFINE h == [ T \in SUBSET S |-> 0 ]
  <2>1. \A T \in SUBSET S : Cardinality(T) <= 0 => h[T] = SumOf(h, T)
    BY NoElement DEF SumOf
  <2>2. UpToSize(h, 0)
    BY <2>1
  <2> QED
    BY <2>2
<1>2. ASSUME NEW n \in Nat, n \in N PROVE n + 1 \in N
  <2>1. PICK h : UpToSize(h, n)
    BY <1>2
  <2> DEFINE k == [ T \in SUBSET S |-> SumOf(h, T) ]
  <2>2. ASSUME NEW T \in SUBSET S, Cardinality(T) <= n + 1 PROVE k[T] = SumOf(k, T)
    <3>1. CASE T = {}
      BY <3>1 DEF SumOf
    <3>2. CASE T # {}
      <4> DEFINE U == T \ {Chosen(T)}
      <4>1. U \in SUBSET S /\ Cardinality(U) <= n
        BY <2>2, <3>2, ChosenIn, SmallerSet
      <4>2. k[U] = h[U]
        BY <2>1, <4>1
      <4> QED
        BY <3>2, <4>2 DEF SumOf
    <3> QED
      BY <3>1, <3>2
  <2>3. k = [ T \in SUBSET S |-> k[T] ]
    OBVIOUS
  <2>4. UpToSize(k, n + 1)
    <3> HIDE DEF k
    <3> QED
      BY <2>2, <2>3
  <2>5. n + 1 \in Nat
    OBVIOUS
  <2> HIDE DEF k, UpToSize
  <2> QED
    BY <2>4, <2>5
<1>3. \A n \in Nat : n \in N
  <2> HIDE DEF N
  <2> QED
    BY <1>1, <1>2, Admission!NumbersByInduction
<1>4. PICK h : UpToSize(h, Cardinality(S))
  BY <1>3, FS_CardinalityType
<1>5. \A T \in SUBSET S : Cardinality(T) <= Cardinality(S)
  BY FS_Subset
<1>6. \A T \in SUBSET S : h[T] = SumOf(h, T)
  BY <1>4, <1>5
<1>7. IsSum(h, S)
  BY <1>4, <1>6 DEF IsSum
<1> QED
  BY <1>7

\* MapThenSumSet is that function.
LEMMA RemovalsIs ==
  ASSUME NEW S, IsFiniteSet(S)
  PROVE  \E g : IsSum(g, S) /\ Removals(S) = g[S]
<1> DEFINE g == CHOOSE f : IsSum(f, S)
<1>1. IsSum(g, S)
  BY SumExists
<1>2. Removals(S) = g[S]
  BY DEF Removals, MapThenSumSet, MapThenFoldSet, IsSum, SumOf, Removed, Chosen
<1> QED
  BY <1>1, <1>2

\* The sum is a number, the same whichever set it is part of, and any element
\* may be the first one taken.
LEMMA SumFacts ==
  ASSUME NEW S \in SUBSET Finding, IsFiniteSet(S), NEW R \in SUBSET S,
         NEW g, NEW h, IsSum(g, S), IsSum(h, R)
  PROVE  /\ \A T \in SUBSET S : g[T] \in Int
         /\ \A T \in SUBSET R : h[T] = g[T]
         /\ \A T \in SUBSET S : \A x \in T : g[T] = Removed(x) + g[T \ {x}]
<1>1. /\ \A T \in SUBSET S : g[T] = SumOf(g, T)
      /\ \A T \in SUBSET R : h[T] = SumOf(h, T)
  BY DEF IsSum
<1>2. \A x \in S : Removed(x) \in Int
  BY DEF Removed, Finding
<1> DEFINE Number(T) == g[T] \in Int
           Agree(T) == T \in SUBSET R => h[T] = g[T]
           AnyOrder(T) == \A x \in T : g[T] = Removed(x) + g[T \ {x}]
           N == { n \in Nat : \A T \in SUBSET S : Cardinality(T) <= n =>
                                Number(T) /\ Agree(T) /\ AnyOrder(T) }
<1>0. ASSUME NEW T \in SUBSET S, T = {} PROVE Number(T) /\ Agree(T) /\ AnyOrder(T)
  <2>1. g[T] = 0 /\ (T \in SUBSET R => h[T] = 0)
    BY <1>0, <1>1 DEF SumOf
  <2> QED
    BY <1>0, <2>1
<1>3. 0 \in N
  <2> SUFFICES ASSUME NEW T \in SUBSET S, Cardinality(T) <= 0
               PROVE  Number(T) /\ Agree(T) /\ AnyOrder(T)
    OBVIOUS
  <2>1. T = {}
    BY NoElement
  <2> HIDE DEF Number, Agree, AnyOrder
  <2> QED
    BY <1>0, <2>1
<1>4. ASSUME NEW n \in Nat, n \in N PROVE n + 1 \in N
  <2> SUFFICES ASSUME NEW T \in SUBSET S, Cardinality(T) <= n + 1
               PROVE  Number(T) /\ Agree(T) /\ AnyOrder(T)
    OBVIOUS
  <2>0. CASE T = {}
    BY <1>0, <2>0
  <2> SUFFICES ASSUME T # {} PROVE Number(T) /\ Agree(T) /\ AnyOrder(T)
    BY <2>0
  <2>1. \A U \in SUBSET S : Cardinality(U) <= n => Number(U) /\ Agree(U) /\ AnyOrder(U)
    BY <1>4
  <2> DEFINE a == Chosen(T)
  <2>2. a \in T /\ a \in S
    BY ChosenIn
  <2> HIDE DEF a, Number, Agree, AnyOrder
  <2>3. \A x \in T : T \ {x} \in SUBSET S /\ Cardinality(T \ {x}) <= n
    BY SmallerSet
  <2>4. g[T] = Removed(a) + g[T \ {a}]
    BY <1>1 DEF SumOf, a
  <2>5. \A x \in T : g[T \ {x}] \in Int
    BY <2>1, <2>3 DEF Number
  <2>6. Number(T)
    <3>1. Removed(a) \in Int /\ g[T \ {a}] \in Int
      BY <1>2, <2>2, <2>5
    <3> QED
      BY <2>4, <3>1 DEF Number
  <2>7. Agree(T)
    <3> SUFFICES ASSUME T \in SUBSET R PROVE h[T] = g[T]
      BY DEF Agree
    <3>1. h[T] = Removed(a) + h[T \ {a}]
      BY <1>1 DEF SumOf, a
    <3>2. h[T \ {a}] = g[T \ {a}]
      BY <2>1, <2>2, <2>3 DEF Agree
    <3> QED
      BY <2>4, <3>1, <3>2
  <2>8. ASSUME NEW x \in T PROVE g[T] = Removed(x) + g[T \ {x}]
    <3>1. CASE x = a
      BY <2>4, <3>1
    <3>2. CASE x # a
      <4> DEFINE U == T \ {a}
                 V == T \ {x}
      <4>1. x \in U /\ a \in V /\ U \ {x} = V \ {a}
        BY <2>2, <3>2
      <4>2. AnyOrder(U) /\ AnyOrder(V) /\ V \ {a} \in SUBSET S
        BY <2>1, <2>2, <2>3
      <4> HIDE DEF U, V
      <4>3. g[U] = Removed(x) + g[U \ {x}] /\ g[V] = Removed(a) + g[V \ {a}]
        BY <4>1, <4>2 DEF AnyOrder
      <4>4. g[T] = Removed(a) + g[U]
        BY <2>4 DEF U
      <4>5. Removed(a) \in Int /\ Removed(x) \in Int /\ g[V \ {a}] \in Int
        <5>1. V \in SUBSET S /\ Cardinality(V) <= n
          BY <2>3 DEF V
        <5>2. IsFiniteSet(V) /\ Cardinality(V \ {a}) <= Cardinality(V)
              /\ Cardinality(V) \in Nat /\ Cardinality(V \ {a}) \in Nat
          BY <5>1, FS_Subset, FS_CardinalityType
        <5>3. Cardinality(V \ {a}) <= n
          BY <5>1, <5>2
        <5> QED
          BY <1>2, <2>1, <2>2, <4>2, <5>3 DEF Number
      <4>6. g[T] = Removed(x) + g[V]
        <5>1. g[U] = Removed(x) + g[V \ {a}]
          BY <4>1, <4>3
        <5>2. g[V] = Removed(a) + g[V \ {a}]
          BY <4>3
        <5> QED
          BY <4>4, <4>5, <5>1, <5>2
      <4> QED
        BY <4>6 DEF V
    <3> QED
      BY <3>1, <3>2
  <2> QED
    BY <2>6, <2>7, <2>8 DEF AnyOrder
<1>5. \A n \in Nat : n \in N
  <2> HIDE DEF N
  <2> QED
    BY <1>3, <1>4, Admission!NumbersByInduction
<1>6. ASSUME NEW T \in SUBSET S PROVE Number(T) /\ Agree(T) /\ AnyOrder(T)
  <2>1. Cardinality(T) \in Nat
    BY FS_Subset, FS_CardinalityType
  <2> QED
    BY <1>5, <2>1
<1> QED
  BY <1>6

\* One more finding adds what it removes.
LEMMA RemovalsAdd ==
  ASSUME NEW R \in SUBSET Finding, IsFiniteSet(R), NEW x \in Finding, x \notin R
  PROVE  Removals(R) \in Int /\ Removals(R \cup {x}) = Removals(R) + Removed(x)
<1> DEFINE S == R \cup {x}
<1>1. S \in SUBSET Finding /\ IsFiniteSet(S) /\ R \in SUBSET S /\ x \in S /\ S \ {x} = R
  BY FS_AddElement
<1> HIDE DEF S
<1>2. PICK g : IsSum(g, S) /\ Removals(S) = g[S]
  BY <1>1, RemovalsIs
<1>3. PICK h : IsSum(h, R) /\ Removals(R) = h[R]
  BY RemovalsIs
<1>4. /\ g[S] = Removed(x) + g[R] /\ g[R] \in Int /\ h[R] = g[R]
  BY <1>1, <1>2, <1>3, SumFacts
<1>5. Removed(x) \in Int
  BY DEF Removed, Finding
<1> QED
  BY <1>2, <1>3, <1>4, <1>5 DEF S

\* Nothing is removed without a finding.
LEMMA RemovalsEmpty == Removals({}) = 0
<1>1. PICK g : IsSum(g, {}) /\ Removals({}) = g[{}]
  BY RemovalsIs, FS_EmptySet
<1> QED
  BY <1>1 DEF IsSum, SumOf

Times(s) == { q.time : q \in ToSet(s) }

\* What is kept has the times of the points in order, and the findings name the
\* points that are missing.
Accounted(s, kept) ==
  /\ Times(s) = Times(kept)
  /\ IsFiniteSet(Duplicates(s))
  /\ Removals(Duplicates(s)) \in Int
  /\ Len(s) = Len(kept) + Removals(Duplicates(s))

At(s, t) == { i \in 1 .. Len(s) : s[i].time = t }

FindingsBut(s, t) == { d \in Duplicates(s) : d.time # t }

FindingOf(t, n) == [ time |-> t, occurrences |-> n ]

\* A time occurs a number of times.
LEMMA OccurrencesType ==
  ASSUME NEW s \in Points, NEW t
  PROVE  /\ IsFiniteSet(At(s, t))
         /\ Occurrences(s, t) \in Nat
         /\ Occurrences(s, t) > 0 <=> t \in Times(s)
<1>1. Len(s) \in Nat /\ DOMAIN s = 1 .. Len(s)
  BY DEF Points
<1>2. IsFiniteSet(At(s, t))
  <2>1. IsFiniteSet(1 .. Len(s)) /\ At(s, t) \in SUBSET (1 .. Len(s))
    BY <1>1, FS_Interval DEF At
  <2> QED
    BY <2>1, FS_Subset
<1>3. Occurrences(s, t) = Cardinality(At(s, t))
  BY DEF Occurrences, At
<1>4. Occurrences(s, t) \in Nat /\ (Occurrences(s, t) = 0 <=> At(s, t) = {})
  BY <1>2, <1>3, FS_CardinalityType, FS_EmptySet
<1>5. At(s, t) # {} <=> t \in Times(s)
  BY <1>1 DEF At, Times, ToSet
<1> QED
  BY <1>2, <1>4, <1>5

\* A point more adds an occurrence to its own time alone.
LEMMA OccurrencesAppend ==
  ASSUME NEW s \in Points, NEW p \in RawPricePoint, NEW t
  PROVE  Occurrences(Append(s, p), t) = Occurrences(s, t) + (IF t = p.time THEN 1 ELSE 0)
<1> DEFINE c == Append(s, p)
           n == Len(s)
<1>1. n \in Nat /\ Len(c) = n + 1 /\ c[n + 1] = p /\ \A i \in 1 .. n : c[i] = s[i]
  BY AppendType, PointType
<1> HIDE DEF c, n
<1>2. At(c, t) = At(s, t) \cup (IF t = p.time THEN {n + 1} ELSE {}) /\ n + 1 \notin At(s, t)
  BY <1>1 DEF At, n
<1>3. IsFiniteSet(At(s, t)) /\ Occurrences(s, t) \in Nat
  BY OccurrencesType
<1>4. Occurrences(c, t) = Cardinality(At(c, t)) /\ Occurrences(s, t) = Cardinality(At(s, t))
  BY DEF Occurrences, At
<1>5. CASE t = p.time
  <2>1. At(c, t) = At(s, t) \cup {n + 1}
    BY <1>2, <1>5
  <2>2. Cardinality(At(s, t) \cup {n + 1}) = Cardinality(At(s, t)) + 1
    BY <1>2, <1>3, FS_AddElement
  <2> QED
    BY <2>1, <2>2, <1>4, <1>5 DEF c
<1>6. CASE t # p.time
  BY <1>2, <1>3, <1>4, <1>6 DEF c
<1> QED
  BY <1>5, <1>6

\* The findings are of the times that occur more than once.
LEMMA DuplicatesAre ==
  ASSUME NEW s \in Points
  PROVE  /\ Duplicates(s) \in SUBSET Finding
         /\ \A d : d \in Duplicates(s) <=>
                     \E t \in Times(s) : Occurrences(s, t) > 1 /\ d = FindingOf(t, Occurrences(s, t))
<1>1. Duplicates(s) = { FindingOf(t, Occurrences(s, t)) :
                          t \in { u \in Times(s) : Occurrences(s, u) > 1 } }
  BY DEF Duplicates, FindingOf, Times
<1>2. Times(s) \subseteq Nat
  BY PointType DEF Times, ToSet, Points
<1>3. \A t \in Times(s) : FindingOf(t, Occurrences(s, t)) \in Finding
  BY <1>2, OccurrencesType DEF Finding, FindingOf
<1> QED
  BY <1>1, <1>3

\* The findings of the other times, and the one of this time if there is one.
LEMMA DuplicatesSplit ==
  ASSUME NEW s \in Points, NEW t \in Nat
  PROVE  Duplicates(s) = FindingsBut(s, t)
           \cup (IF Occurrences(s, t) > 1 THEN {FindingOf(t, Occurrences(s, t))} ELSE {})
<1>1. ASSUME NEW d \in Duplicates(s), d.time = t
      PROVE  Occurrences(s, t) > 1 /\ d = FindingOf(t, Occurrences(s, t))
  BY <1>1, DuplicatesAre DEF FindingOf
<1>2. Occurrences(s, t) > 1 => FindingOf(t, Occurrences(s, t)) \in Duplicates(s)
  <2> SUFFICES ASSUME Occurrences(s, t) > 1
               PROVE  FindingOf(t, Occurrences(s, t)) \in Duplicates(s)
    OBVIOUS
  <2>1. t \in Times(s)
    BY OccurrencesType
  <2> QED
    BY <2>1, DuplicatesAre
<1> QED
  BY <1>1, <1>2 DEF FindingsBut

\* A point more is kept, or it is one more removal in the finding of its time.
LEMMA AccountedAppend ==
  ASSUME NEW s \in Points, NEW kept \in Points, NEW p \in RawPricePoint, Accounted(s, kept)
  PROVE  Accounted(Append(s, p), IF \E q \in ToSet(kept) : q.time = p.time
                                 THEN kept ELSE Append(kept, p))
<1> DEFINE c == Append(s, p)
           t == p.time
           n == Occurrences(s, t)
           k == IF \E q \in ToSet(kept) : q.time = t THEN kept ELSE Append(kept, p)
           R == FindingsBut(s, t)
<1>1. /\ c \in Points /\ k \in Points /\ t \in Nat /\ n \in Nat
      /\ Len(c) = Len(s) + 1 /\ Len(s) \in Nat /\ Len(kept) \in Nat
  BY AppendType, PointType, OccurrencesType, TimeAssumption DEF RawPricePoint
<1>2. (\E q \in ToSet(kept) : q.time = t) <=> n > 0
  <2>1. (\E q \in ToSet(kept) : q.time = t) <=> t \in Times(kept)
    BY DEF Times
  <2>2. n > 0 <=> t \in Times(s)
    BY OccurrencesType
  <2> QED
    BY <2>1, <2>2 DEF Accounted
<1>3. Len(k) = Len(kept) + (IF n > 0 THEN 0 ELSE 1)
  BY <1>1, <1>2, AppendType
<1>4. \A x \in Points : Times(Append(x, p)) = Times(x) \cup {t}
  <2> SUFFICES ASSUME NEW x \in Points PROVE Times(Append(x, p)) = Times(x) \cup {t}
    OBVIOUS
  <2>1. ToSet(Append(x, p)) = ToSet(x) \cup {p}
    <3>1. /\ Len(x) \in Nat /\ DOMAIN x = 1 .. Len(x)
          /\ DOMAIN Append(x, p) = 1 .. Len(x) + 1 /\ Append(x, p)[Len(x) + 1] = p
          /\ \A i \in 1 .. Len(x) : Append(x, p)[i] = x[i]
      BY AppendType DEF Points
    <3> QED
      BY <3>1 DEF ToSet
  <2> QED
    BY <2>1 DEF Times
<1>5. Times(c) = Times(k)
  <2>1. Times(s) = Times(kept)
    BY DEF Accounted
  <2>2. CASE n > 0
    <3>1. k = kept /\ t \in Times(kept)
      BY <1>2, <2>2 DEF Times
    <3> QED
      BY <1>4, <2>1, <3>1
  <2>3. CASE ~ (n > 0)
    BY <1>2, <1>4, <2>1, <2>3
  <2> QED
    BY <2>2, <2>3
<1>6. Occurrences(c, t) = n + 1 /\ \A u : u # t => Occurrences(c, u) = Occurrences(s, u)
  <2>1. Occurrences(c, t) = n + 1
    BY OccurrencesAppend
  <2>2. ASSUME NEW u, u # t PROVE Occurrences(c, u) = Occurrences(s, u)
    BY <2>2, OccurrencesAppend, OccurrencesType
  <2> QED
    BY <2>1, <2>2
<1> HIDE DEF c, k, n, t
<1>7. FindingsBut(c, t) = R
  <2>1. Times(c) = Times(s) \cup {t}
    BY <1>4 DEF c
  <2>2. \A d : d.time # t => (d \in Duplicates(c) <=> d \in Duplicates(s))
    <3> SUFFICES ASSUME NEW d, d.time # t PROVE d \in Duplicates(c) <=> d \in Duplicates(s)
      OBVIOUS
    <3>1. \A u, m : d = FindingOf(u, m) => u # t
      BY DEF FindingOf
    <3>2. d \in Duplicates(c) <=>
            \E u \in Times(s) : u # t /\ Occurrences(s, u) > 1 /\ d = FindingOf(u, Occurrences(s, u))
      BY <1>1, <1>6, <2>1, <3>1, DuplicatesAre
    <3>3. d \in Duplicates(s) <=>
            \E u \in Times(s) : u # t /\ Occurrences(s, u) > 1 /\ d = FindingOf(u, Occurrences(s, u))
      BY <3>1, DuplicatesAre
    <3> QED
      BY <3>2, <3>3
  <2> QED
    BY <2>2 DEF FindingsBut
<1>8. /\ R \in SUBSET Finding /\ IsFiniteSet(R) /\ IsFiniteSet(Duplicates(s))
      /\ \A m : FindingOf(t, m) \notin R
      /\ \A m \in Nat : FindingOf(t, m) \in Finding
  <2>1. R \in SUBSET Duplicates(s) /\ \A m : FindingOf(t, m) \notin R
    BY DEF FindingsBut, FindingOf
  <2>2. \A m \in Nat : FindingOf(t, m) \in Finding
    BY <1>1 DEF FindingOf, Finding
  <2> QED
    BY <2>1, <2>2, DuplicatesAre, FS_Subset DEF Accounted
<1>9. ASSUME NEW m \in Nat, m > 1
      PROVE  /\ IsFiniteSet(R \cup {FindingOf(t, m)}) /\ Removals(R) \in Int
             /\ Removals(R \cup {FindingOf(t, m)}) = Removals(R) + m - 1
  <2>1. Removed(FindingOf(t, m)) = m - 1
    BY DEF Removed, FindingOf
  <2> HIDE DEF R
  <2>2. /\ Removals(R) \in Int
        /\ Removals(R \cup {FindingOf(t, m)}) = Removals(R) + Removed(FindingOf(t, m))
    BY <1>8, RemovalsAdd
  <2>3. IsFiniteSet(R \cup {FindingOf(t, m)})
    BY <1>8, FS_AddElement
  <2> QED
    BY <1>9, <2>1, <2>2, <2>3
<1>10. Removals(R) \in Int
  <2>1. 2 \in Nat /\ 2 > 1
    OBVIOUS
  <2> QED
    BY <1>9, <2>1
<1>11. Removals(Duplicates(s)) = Removals(R) + (IF n > 1 THEN n - 1 ELSE 0)
  <2>1. Duplicates(s) = R \cup (IF n > 1 THEN {FindingOf(t, n)} ELSE {})
    BY <1>1, DuplicatesSplit DEF n
  <2> HIDE DEF R
  <2>2. CASE n > 1
    BY <1>1, <1>9, <2>1, <2>2
  <2>3. CASE ~ (n > 1)
    <3>1. Duplicates(s) = R
      BY <2>1, <2>3
    <3> QED
      BY <1>10, <2>3, <3>1
  <2> QED
    BY <2>2, <2>3
<1>12. /\ IsFiniteSet(Duplicates(c))
       /\ Removals(Duplicates(c)) = Removals(R) + n
  <2>1. Duplicates(c) = R \cup (IF n + 1 > 1 THEN {FindingOf(t, n + 1)} ELSE {})
    BY <1>1, <1>6, <1>7, DuplicatesSplit
  <2> HIDE DEF R
  <2>2. CASE n > 0
    <3>1. n + 1 > 1 /\ n + 1 \in Nat
      BY <1>1, <2>2
    <3>2. Duplicates(c) = R \cup {FindingOf(t, n + 1)}
      BY <2>1, <3>1
    <3>3. /\ IsFiniteSet(Duplicates(c))
          /\ Removals(Duplicates(c)) = Removals(R) + (n + 1) - 1
      BY <1>9, <3>1, <3>2
    <3> QED
      BY <1>1, <1>10, <3>3
  <2>3. CASE n = 0
    <3>1. Duplicates(c) = R
      BY <2>1, <2>3
    <3> QED
      BY <1>8, <1>10, <2>3, <3>1
  <2> QED
    BY <1>1, <2>2, <2>3
<1>13. Len(s) = Len(kept) + Removals(Duplicates(s))
  BY DEF Accounted
<1>14. Len(c) = Len(k) + Removals(Duplicates(c))
  <2>1. CASE n = 0
    BY <1>1, <1>3, <1>10, <1>11, <1>12, <1>13, <2>1
  <2>2. CASE n = 1
    BY <1>1, <1>3, <1>10, <1>11, <1>12, <1>13, <2>2
  <2>3. CASE n > 1
    BY <1>1, <1>3, <1>10, <1>11, <1>12, <1>13, <2>3
  <2> QED
    BY <1>1, <2>1, <2>2, <2>3
<1> QED
  BY <1>1, <1>5, <1>10, <1>12, <1>14 DEF Accounted, c, k, t

\* Of a batch: its points in order are no more than its points.
AllAccounted(b) ==
  /\ Len(InOrder(Admitted(b))) <= Len(b)
  /\ Accounted(InOrder(Admitted(b)), Kept(b))

\* Every point of a longer batch is accounted for.
LEMMA AllAccountedAppend ==
  ASSUME NEW b \in Points, NEW p \in RawPricePoint, AllAccounted(b)
  PROVE  AllAccounted(Append(b, p))
<1> DEFINE c == Append(b, p)
           o == InOrder(Admitted(b))
<1>1. /\ Admitted(b) \in Points /\ o \in Points /\ Kept(b) \in Points /\ Kept(b) = Deduplicate(o)
      /\ Len(o) \in Nat /\ Len(b) \in Nat /\ Len(c) = Len(b) + 1 /\ Len(o) <= Len(b)
  BY KeptType, PointType, AppendType DEF Kept, AllAccounted
<1>2. InOrder(Admitted(c)) = o \/ InOrder(Admitted(c)) = Append(o, p)
  <2>1. Admitted(c) = Admitted(b) \/ Admitted(c) = Append(Admitted(b), p)
    BY AdmittedAppend
  <2>2. InOrder(Append(Admitted(b), p)) = o \/ InOrder(Append(Admitted(b), p)) = Append(o, p)
    BY <1>1, InOrderAppend
  <2> QED
    BY <2>1, <2>2
<1>3. CASE InOrder(Admitted(c)) = o
  BY <1>1, <1>3 DEF AllAccounted, Kept
<1>4. CASE InOrder(Admitted(c)) = Append(o, p)
  <2>1. Kept(c) = IF \E q \in ToSet(Kept(b)) : q.time = p.time THEN Kept(b) ELSE Append(Kept(b), p)
    BY <1>1, <1>4, DeduplicateAppend DEF Kept
  <2>2. Accounted(Append(o, p), Kept(c))
    BY <1>1, <2>1, AccountedAppend DEF AllAccounted
  <2>3. Len(Append(o, p)) <= Len(c)
    BY <1>1, AppendType
  <2> QED
    BY <1>4, <2>2, <2>3 DEF AllAccounted
<1> QED
  BY <1>2, <1>3, <1>4

-----------------------------------------------------------------------------
(* The inductive invariant *)

IInv ==
  /\ batch \in Points
  /\ batch = <<>> => Kept(batch) = <<>>
  /\ TimesRise(batch)
  /\ OneSeries(batch)
  /\ Unchanged(Kept(batch))
  /\ KeptLast(batch)
  /\ RecordsKept(batch)
  /\ AllAccounted(batch)

\* Nothing is to be known of the empty batch.
LEMMA InitInv == Init => IInv
<1> SUFFICES ASSUME batch = <<>> PROVE IInv
  BY DEF Init
<1>1. Admitted(batch) = <<>> /\ InOrder(<<>>) = <<>> /\ Kept(batch) = <<>>
  BY PassesEmpty DEF Kept
<1>2. batch \in Points /\ Len(<<>>) = 0
  BY DEF Points
<1>3. TimesRise(batch) /\ OneSeries(batch)
  BY <1>1, <1>2 DEF TimesRise, OneSeries, Increasing, InStep
<1>4. KeptLast(batch) /\ RecordsKept(batch)
  <2>1. Sound(batch) = {} /\ Records(batch) = {}
    BY <1>2 DEF Sound, Records
  <2> QED
    BY <1>1, <1>2, <2>1, FS_EmptySet DEF KeptLast, RecordsKept
<1>5. AllAccounted(batch)
  <2>1. Duplicates(<<>>) = {}
    BY <1>2 DEF Duplicates, ToSet
  <2>2. IsFiniteSet(Duplicates(<<>>)) /\ Removals(Duplicates(<<>>)) = 0
    BY <2>1, RemovalsEmpty, FS_EmptySet
  <2>3. Accounted(<<>>, <<>>)
    BY <1>2, <2>2 DEF Accounted
  <2> QED
    BY <1>1, <1>2, <2>3 DEF AllAccounted
<1> QED
  BY <1>1, <1>2, <1>3, <1>4, <1>5, PassesEmpty DEF IInv, Unchanged

\* A point more keeps every part of the invariant.
LEMMA ReceiveInv ==
  ASSUME IInv, Receive PROVE IInv'
<1>1. PICK p \in RawPricePoint : batch' = Append(batch, p)
  BY DEF Receive
<1>2. batch' \in Points /\ batch' # <<>>
  BY <1>1, AppendType DEF IInv
<1>3. TimesRise(Append(batch, p))
  BY KeptAppend DEF IInv
<1>4. OneSeries(Append(batch, p)) /\ Unchanged(Kept(Append(batch, p)))
  BY KeptUnchanged DEF IInv
<1>5. KeptLast(Append(batch, p)) /\ RecordsKept(Append(batch, p))
  BY KeptLastAppend, RecordsKeptAppend DEF IInv
<1>6. AllAccounted(Append(batch, p))
  BY AllAccountedAppend DEF IInv
<1> QED
  BY <1>1, <1>2, <1>3, <1>4, <1>5, <1>6 DEF IInv

\* What is known of every batch: its points, and that the times of what is kept
\* of it rise.
THEOREM Invariance == Spec => []IInv
<1>1. IInv /\ [Next]_batch => IInv'
  <2> SUFFICES ASSUME IInv, [Next]_batch PROVE IInv'
    OBVIOUS
  <2>1. CASE Receive
    BY <2>1, ReceiveInv
  <2>2. CASE UNCHANGED batch
    BY <2>2 DEF IInv
  <2> QED
    BY <2>1, <2>2 DEF Next
<1> QED
  BY InitInv, <1>1, PTL DEF Spec

-----------------------------------------------------------------------------
(* The properties *)

\* Points that come later never change what is kept of the ones before them: every
\* pass of validate_and_normalize decides on a point by the ones before it.
THEOREM LaterPoints == Spec => LaterPointsChangeNothing
<1>1. IInv /\ [Next]_batch => [IsPrefix(Kept(batch), Kept(batch'))]_batch
  <2> SUFFICES ASSUME IInv, Receive PROVE IsPrefix(Kept(batch), Kept(batch'))
    BY DEF Next
  <2>1. PICK p \in RawPricePoint : batch' = Append(batch, p)
    BY DEF Receive
  <2> DEFINE k == Kept(batch)
  <2>2. k \in Points
    BY KeptType DEF IInv
  <2>3. Kept(batch') = k \/ Kept(batch') = Append(k, p)
    BY <2>1, KeptAppend DEF IInv
  <2> HIDE DEF k
  <2>4. IsPrefix(k, k)
    BY <2>2 DEF IsPrefix, Points
  <2>5. IsPrefix(k, Append(k, p))
    BY <2>2 DEF IsPrefix, Points
  <2> QED
    BY <2>3, <2>4, <2>5 DEF k
<1> QED
  BY Invariance, <1>1, PTL DEF Spec, LaterPointsChangeNothing

\* To validate a validated sample again keeps all of it and has nothing to report:
\* what one pass of validate_and_normalize leaves, no pass takes away.
THEOREM ValidatedOnce == Spec => []Idempotent
<1>1. IInv => Idempotent
  <2> SUFFICES ASSUME IInv PROVE Idempotent
    OBVIOUS
  <2> DEFINE k == Kept(batch)
  <2>1. k \in Points /\ Increasing(k) /\ Unchanged(k)
    BY KeptType DEF IInv, TimesRise
  <2> HIDE DEF k
  <2>2. InOrder(Admitted(k)) = k /\ Kept(k) = k
    BY <2>1 DEF Unchanged, Kept
  <2>3. Rejected(k) = 0
    BY <2>1, <2>2, PointType DEF Rejected
  <2>4. \A t : ~ (Occurrences(k, t) > 1)
    <3> SUFFICES ASSUME NEW t PROVE Occurrences(k, t) \in {0, 1}
      OBVIOUS
    <3> DEFINE at == { i \in 1 .. Len(k) : k[i].time = t }
    <3>1. at = {} \/ \E i \in at : at = {i}
      <4>1. \A i, j \in at : i = j
        <5> SUFFICES ASSUME NEW i \in at, NEW j \in at, i < j PROVE FALSE
          BY <2>1, PointType
        <5>1. k[i].time \in Nat /\ k[i].time < k[j].time
          BY <2>1, PointType DEF Increasing
        <5> QED
          BY <5>1
      <4> QED
        BY <4>1
    <3> QED
      BY <3>1, FS_EmptySet, FS_Singleton DEF Occurrences
  <2>5. Duplicates(k) = {}
    BY <2>4 DEF Duplicates
  <2> QED
    BY <2>2, <2>3, <2>5 DEF Idempotent, QualityReport, k
<1> QED
  BY Invariance, <1>1, PTL

\* When the caller names the interval of the grid, the report names exactly the
\* places where a candle is missing: the tolerance of _detect_gaps lets no hole
\* pass and takes no neighbours for one.
THEOREM GapsFound == Spec => []GapsAreTheMissingCandles
<1>1. IInv => GapsAreTheMissingCandles
  <2> SUFFICES ASSUME IInv PROVE GapsAreTheMissingCandles
    OBVIOUS
  <2> DEFINE k == Kept(batch)
  <2>1. k \in Points /\ Increasing(k)
    BY KeptType DEF IInv, TimesRise
  <2> HIDE DEF k
  <2> SUFFICES ASSUME NEW n \in Expected, Given(n),
                      \A i \in 1 .. Len(k) : k[i].time % n = 0,
                      NEW i \in 1 .. Len(k) - 1
               PROVE  i \in QualityReport(batch, n).gaps <=> k[i + 1].time # k[i].time + n
    BY DEF GapsAreTheMissingCandles, k
  <2>2. n \in Interval /\ n \in Nat /\ n > 0
    <3>1. n \in Interval
      BY DEF Expected, Given
    <3>2. n \in Nat \ {0}
      BY <3>1, IntervalAssumption
    <3> QED
      BY <3>1, <3>2
  <2>3. Len(k) \in Nat /\ i \in 1 .. Len(k) /\ i + 1 \in 1 .. Len(k) /\ i < i + 1
    BY <2>1, PointType
  <2>4. k[i].time \in Nat /\ k[i + 1].time \in Nat
    BY <2>1, <2>3, PointType
  <2>5. k[i].time < k[i + 1].time
    BY <2>1, <2>3 DEF Increasing
  <2>6. i \in QualityReport(batch, n).gaps <=> IsGap(k[i].time, k[i + 1].time, n)
    BY DEF QualityReport, Gaps, k
  <2>7. IsGap(k[i].time, k[i + 1].time, n) => k[i + 1].time # k[i].time + n
    BY <2>2, <2>4 DEF IsGap
  <2>8. ~ IsGap(k[i].time, k[i + 1].time, n) => k[i + 1].time = k[i].time + n
    BY <2>2, <2>3, <2>4, <2>5, NextOnGrid
  <2> QED
    BY <2>6, <2>7, <2>8
<1> QED
  BY Invariance, <1>1, PTL

\* The points kept are the sound ones later than every sound one before them,
\* whatever _validate_ohlc, _reject_out_of_order and _deduplicate remove between.
THEOREM RecordsAreKept == Spec => []KeepsRecords
<1>1. IInv => KeepsRecords
  BY DEF IInv, RecordsKept, KeepsRecords, Records, UpTo
<1> QED
  BY Invariance, <1>1, PTL

\* Every point of a batch is kept, rejected or a repetition that the report of
\* validate_and_normalize names.
THEOREM NothingDisappears == Spec => []AccountsForEveryPoint
<1>1. IInv => AccountsForEveryPoint
  <2> SUFFICES ASSUME IInv PROVE AccountsForEveryPoint
    OBVIOUS
  <2> DEFINE o == InOrder(Admitted(batch))
             k == Kept(batch)
  <2>1. o \in Points /\ k \in Points /\ Len(o) \in Nat /\ Len(k) \in Nat /\ Len(batch) \in Nat
    BY KeptType, PointType DEF IInv
  <2>2. /\ Len(o) <= Len(batch) /\ Removals(Duplicates(o)) \in Int
        /\ Len(o) = Len(k) + Removals(Duplicates(o))
    BY DEF IInv, AllAccounted, Accounted
  <2>3. AccountsForEveryPoint <=>
          Len(batch) = Len(k) + (Len(batch) - Len(o)) + Removals(Duplicates(o))
    BY DEF AccountsForEveryPoint, QualityReport, Rejected, Removals, MapThenSumSet, MapThenFoldSet
  <2> HIDE DEF o, k
  <2> QED
    BY <2>1, <2>2, <2>3
<1> QED
  BY Invariance, <1>1, PTL
=============================================================================
