--------------------------- MODULE CollectorProofs ---------------------------
(***************************************************************************)
(* A collection has no hole, for any history, any window, size of pages    *)
(* and target, and a platform that answers as it likes: the cursor always  *)
(* has everything sound above it, and nothing that is not, collected.      *)
(***************************************************************************)
EXTENDS Collector, Lemmas, FiniteSetTheorems

\* Candles that become points; validation comes later.
Usable(t) == history[t] \in {"inconsistent", "good"}

\* The cursor is within what the collection began with, and that is past.
Backwards == cursor <= begun /\ begun <= now

\* While pages are read, the cursor parts what is collected from what is not,
\* and another page is asked for only while candles are wanted.
Paged ==
  /\ stage \in {"paging", "awaiting"} =>
       /\ \A t \in collected : t > cursor
       /\ \A t \in Time : cursor < t /\ t <= begun /\ Usable(t) => t \in collected
  /\ stage = "awaiting" => Cardinality(collected) < Target

\* The inductive invariant.
IInv == TypeOK /\ Backwards /\ Paged /\ NoCandleSkipped

USE DEF Time

-----------------------------------------------------------------------------
(* Pages *)

\* A page is no longer than what was asked for, so the collection never has
\* more than it wants.
LEMMA PageFits ==
  ASSUME TypeOK, Cardinality(collected) < Target,
         NEW upTo, NEW page \in Pages(upTo, Count)
  PROVE  /\ page \in SUBSET Exposed
         /\ Points(page) \in SUBSET page
         /\ Points(page) \in SUBSET Time
         /\ Cardinality(collected \cup Points(page)) <= Target
<1>1. page \in SUBSET Exposed /\ Cardinality(page) <= Count
  BY DEF Pages
<1>2. Points(page) \in SUBSET page /\ page \in SUBSET Time
  BY <1>1 DEF Points, Exposed
<1>3. IsFiniteSet(Time)
  BY FS_Interval, TimeAssumption
<1>4. IsFiniteSet(page) /\ IsFiniteSet(Points(page)) /\ IsFiniteSet(collected)
  BY <1>2, <1>3, FS_Subset DEF TypeOK
<1>5. Cardinality(Points(page)) <= Cardinality(page)
  BY <1>2, <1>4, FS_Subset
<1>6. /\ Cardinality(collected \cup Points(page))
           = Cardinality(collected) + Cardinality(Points(page))
             - Cardinality(collected \cap Points(page))
      /\ IsFiniteSet(collected \cap Points(page))
  BY <1>4, FS_Union, FS_Intersection
<1>7. /\ Cardinality(collected) \in Nat
      /\ Cardinality(Points(page)) \in Nat
      /\ Cardinality(page) \in Nat
      /\ Cardinality(collected \cap Points(page)) \in Nat
  BY <1>4, <1>6, FS_CardinalityType
<1>8. Count \in Nat /\ Count <= Target - Cardinality(collected)
  <2> DEFINE room == Target - Cardinality(collected)
  <2>1. PageSize \in Nat /\ room \in Nat
    BY <1>7, SizeAssumption
  <2> HIDE DEF room
  <2>2. Min({PageSize, room}) \in {PageSize, room} /\ Min({PageSize, room}) <= room
    BY <2>1, MinOfNumbers
  <2> QED
    BY <2>1, <2>2 DEF Count, room
<1>9. Cardinality(collected \cup Points(page)) <= Target
  BY <1>1, <1>5, <1>6, <1>7, <1>8, SizeAssumption
<1> QED
  BY <1>1, <1>2, <1>9

\* The history does not move below a page: from its oldest candle to the cursor
\* it has everything usable, whether the platform minds the cursor or not.
LEMMA PageHasNoHole ==
  ASSUME TypeOK, Backwards,
         NEW upTo \in {cursor, now}, NEW page \in Pages(upTo, Count),
         NEW t \in Time, t <= cursor, NEW p \in Points(page), t >= p, Usable(t)
  PROVE  t \in Points(page)
<1>1. /\ page \in SUBSET Exposed /\ page # {}
      /\ \A u \in Exposed : u <= upTo /\ u >= Oldest(page) => u \in page
  BY DEF Pages
<1>2. p \in page /\ page \in SUBSET Nat
  BY <1>1 DEF Points, Exposed
<1>3. Oldest(page) \in page /\ Oldest(page) <= p
  BY <1>1, <1>2, MinOfNumbers DEF Oldest
<1>4. Oldest(page) \in Exposed /\ Oldest(page) \in Nat /\ p \in Nat
  BY <1>1, <1>2, <1>3
<1>5. t <= upTo /\ t <= now /\ upTo \in Nat
  BY TimeAssumption DEF TypeOK, Backwards
<1>6. t >= Oldest(page)
  BY <1>3, <1>4
<1>7. t + Window > now
  BY <1>4, <1>6, SizeAssumption DEF Exposed, TypeOK
<1>8. t \in Exposed
  BY <1>5, <1>7 DEF Exposed, Usable
<1>9. t \in page
  BY <1>1, <1>5, <1>6, <1>8
<1> QED
  BY <1>9 DEF Points, Usable

-----------------------------------------------------------------------------
(* Steps *)

LEMMA Initially == Init => IInv
<1> SUFFICES ASSUME Init PROVE IInv
  OBVIOUS
<1>1. Cardinality(collected) = 0
  BY FS_EmptySet, Zenon DEF Init
<1>2. /\ stage \in Stage /\ ssid \in {"absent", "valid", "expired"}
      /\ now \in Time /\ history \in [Time -> Kind]
      /\ cursor \in 0 .. MaxTime /\ begun \in 0 .. MaxTime
      /\ collected \subseteq Time /\ stored \subseteq Time /\ timeUp \in BOOLEAN
  <2>1. /\ stage \in Stage /\ ssid \in {"absent", "valid", "expired"}
        /\ collected \subseteq Time /\ stored \subseteq Time /\ timeUp \in BOOLEAN
    BY DEF Init, Stage
  <2>2. now \in Time /\ cursor \in 0 .. MaxTime /\ begun \in 0 .. MaxTime
    BY TimeAssumption DEF Init
  <2>3. history \in [Time -> Kind]
    BY DEF Init
  <2> QED
    BY <2>1, <2>2, <2>3
<1>3. TypeOK
  BY <1>1, <1>2, SizeAssumption DEF TypeOK
<1> QED
  BY <1>3, TimeAssumption DEF Init, IInv, Backwards, Paged, NoCandleSkipped

\* The cursor moves to below the oldest point of a page, or the collection ends.
LEMMA ReceivePage ==
  ASSUME IInv, ReceiveCandles
  PROVE  IInv'
<1>0. PICK upTo \in {cursor, now} : \E page \in Pages(upTo, Count) :
        /\ collected' = collected \cup Points(page)
        /\ Advance(page)
  BY DEF ReceiveCandles
<1>1. PICK page \in Pages(upTo, Count) :
        /\ collected' = collected \cup Points(page)
        /\ Advance(page)
  BY <1>0
<1>2. /\ stage = "awaiting" /\ Cardinality(collected) < Target
      /\ UNCHANGED <<ssid, platform, begun, stored, timeUp>>
      /\ TypeOK /\ Backwards
      /\ \A t \in collected : t > cursor
      /\ \A t \in Time : cursor < t /\ t <= begun /\ Usable(t) => t \in collected
  BY DEF ReceiveCandles, IInv, Paged
<1>3. UNCHANGED <<ssid, now, history, begun, stored, timeUp>>
  BY <1>2 DEF platform
<1> DEFINE oldest == Min(Points(page) \cup {cursor})
<1>4. /\ Points(page) \in SUBSET Time
      /\ Cardinality(collected') <= Target
  BY <1>1, <1>2, PageFits
<1>5. cursor \in 0 .. MaxTime /\ begun \in 0 .. MaxTime /\ now \in Time
      /\ cursor <= begun /\ begun <= now /\ collected \subseteq Time
  BY <1>2 DEF TypeOK, Backwards
<1>6. /\ oldest \in Points(page) \cup {cursor}
      /\ \A t \in Points(page) \cup {cursor} : oldest <= t
  <2>1. Points(page) \cup {cursor} \in SUBSET Nat
    BY <1>4, <1>5
  <2> QED
    BY <2>1, MinOfNumbers
<1>7. \A t \in Time, p \in Points(page) :
        t <= cursor /\ t >= p /\ Usable(t) => t \in Points(page)
  BY <1>1, <1>2, PageHasNoHole
<1>8. collected' \subseteq Time
  BY <1>1, <1>4, <1>5
<1>9. CASE oldest >= cursor /\ stage' = "storing" /\ UNCHANGED cursor
  <2>1. stage' = "storing" /\ cursor' = cursor
    BY <1>9
  <2>2. TypeOK'
    BY <1>2, <1>3, <1>4, <1>8, <2>1 DEF TypeOK, Stage
  <2>3. Backwards' /\ Paged'
    BY <1>3, <1>5, <2>1 DEF Backwards, Paged
  <2>4. NoCandleSkipped'
    <3> SUFFICES ASSUME NEW t \in Time, t <= begun, collected' # {},
                        t >= Oldest(collected'), history[t] \in {"inconsistent", "good"}
                 PROVE  t \in collected'
      BY <1>3, <2>1 DEF NoCandleSkipped
    <3>1. Oldest(collected') \in collected'
      BY <1>8, MinOfNumbers DEF Oldest
    <3>2. \A u \in collected' : u \in Nat /\ u >= cursor
      BY <1>1, <1>2, <1>4, <1>5, <1>6, <1>9
    <3>3. CASE t > cursor
      BY <1>1, <1>2, <1>5, <3>3 DEF Usable
    <3>4. CASE t <= cursor
      BY <1>5, <3>1, <3>2, <3>4
    <3> QED
      BY <1>5, <3>3, <3>4
  <2> QED
    BY <2>2, <2>3, <2>4 DEF IInv
<1>10. CASE /\ oldest \in Points(page) /\ MayBePast(oldest)
            /\ stage' = "paging" /\ cursor' = oldest - 1
  <2>1. stage' = "paging" /\ cursor' = oldest - 1
    BY <1>10
  <2>2. oldest \in Points(page) /\ oldest \in Time /\ oldest <= cursor
    BY <1>4, <1>5, <1>10 DEF MayBePast
  <2> HIDE DEF oldest
  <2>3. cursor' \in 0 .. MaxTime /\ cursor' < cursor
    BY <1>5, <2>1, <2>2, TimeAssumption
  <2>4. TypeOK'
    BY <1>2, <1>3, <1>4, <1>8, <2>1, <2>3 DEF TypeOK, Stage
  <2>5. Backwards'
    BY <1>3, <1>5, <2>3 DEF Backwards
  <2>6. \A t \in collected' : t > cursor'
    BY <1>1, <1>2, <1>4, <1>5, <1>6, <2>1, <2>2, <2>3
  <2>7. ASSUME NEW t \in Time, cursor' < t, t <= begun, Usable(t)
        PROVE  t \in collected'
    <3>1. CASE t > cursor
      BY <1>1, <1>2, <2>7, <3>1
    <3>2. CASE t <= cursor
      BY <1>1, <1>7, <2>1, <2>2, <2>7, <3>2
    <3> QED
      BY <1>5, <3>1, <3>2
  <2>8. Paged'
    BY <1>3, <2>1, <2>6, <2>7 DEF Paged, Usable
  <2> QED
    BY <2>1, <2>4, <2>5, <2>8 DEF IInv, NoCandleSkipped
<1> QED
  BY <1>1, <1>9, <1>10 DEF Advance

\* A collection that is over, for whatever reason, has no hole.
LEMMA EndCollection ==
  ASSUME IInv, EnoughCandles \/ CandlesTimeOut
  PROVE  IInv'
<1>1. /\ stage \in {"paging", "awaiting"} /\ stage' = "storing"
      /\ UNCHANGED <<ssid, now, history, cursor, begun, collected, stored, timeUp>>
  BY DEF EnoughCandles, CandlesTimeOut, Goto, platform, session
<1>2. TypeOK' /\ Backwards' /\ Paged'
  BY <1>1 DEF IInv, TypeOK, Stage, Backwards, Paged
<1>3. NoCandleSkipped'
  <2> SUFFICES ASSUME NEW t \in Time, t <= begun, collected # {},
                      t >= Oldest(collected), history[t] \in {"inconsistent", "good"}
               PROVE  t \in collected
    BY <1>1 DEF NoCandleSkipped, Oldest
  <2>1. collected \subseteq Time /\ cursor \in Nat
    BY DEF IInv, TypeOK
  <2>2. Oldest(collected) \in collected
    BY <2>1, MinOfNumbers DEF Oldest
  <2>3. \A u \in collected : u > cursor /\ u \in Nat
    BY <1>1, <2>1, TimeAssumption DEF IInv, Paged
  <2>4. Oldest(collected) > cursor /\ Oldest(collected) \in Nat
    BY <2>2, <2>3
  <2> QED
    BY <1>1, <2>1, <2>4 DEF IInv, Paged, Usable
<1> QED
  BY <1>2, <1>3 DEF IInv

LEMMA Invariance == IInv /\ [Next]_vars => IInv'
<1> SUFFICES ASSUME IInv, [Next]_vars PROVE IInv'
  OBVIOUS
<1> USE DEF platform, session
<1>1. CASE ReceiveCandles
  BY <1>1, ReceivePage
<1>2. CASE EnoughCandles \/ CandlesTimeOut
  BY <1>2, EndCollection
<1>3. CASE Authenticated
  <2>1. /\ stage' = "paging" /\ cursor' = now /\ begun' = now /\ collected' = {}
        /\ UNCHANGED <<ssid, now, history, stored, timeUp>>
    BY <1>3 DEF Authenticated
  <2>2. now \in Time /\ TypeOK
    BY DEF IInv, TypeOK
  <2>3. Cardinality(collected') = 0
    BY <2>1, FS_EmptySet, Zenon
  <2>4. /\ stage' \in Stage /\ cursor' \in 0 .. MaxTime /\ begun' \in 0 .. MaxTime
        /\ collected' \subseteq Time
        /\ UNCHANGED <<ssid, now, history, stored, timeUp>>
    BY <2>1, <2>2, TimeAssumption DEF Stage
  <2>5. TypeOK'
    BY <2>2, <2>3, <2>4, SizeAssumption DEF TypeOK
  <2>6. Backwards' /\ Paged' /\ NoCandleSkipped'
    BY <2>1, <2>2, TimeAssumption DEF Backwards, Paged, NoCandleSkipped
  <2> QED
    BY <2>5, <2>6 DEF IInv
<1>4. CASE RequestCandles
  BY <1>4 DEF RequestCandles, Goto, IInv, TypeOK, Stage, Backwards, Paged, NoCandleSkipped, Usable
<1>5. CASE CandlePasses
  BY <1>5, TimeAssumption
  DEF CandlePasses, IInv, TypeOK, Backwards, Paged, NoCandleSkipped, Usable
<1>6. CASE TimeUp \/ ExpireSsid \/ UNCHANGED vars
  BY <1>6 DEF TimeUp, ExpireSsid, vars, IInv, TypeOK, Backwards, Paged, NoCandleSkipped, Usable
<1>7. CASE IngestRawBatch
  <2>1. stage' = "cycle over" /\ UNCHANGED <<ssid, now, history, cursor, begun, collected, timeUp>>
    BY <1>7 DEF IngestRawBatch
  <2>2. stored' \subseteq Time
    BY <1>7 DEF IngestRawBatch, IInv, TypeOK
  <2> QED
    BY <2>1, <2>2 DEF IInv, TypeOK, Stage, Backwards, Paged, NoCandleSkipped
<1>8. CASE BeginCycle \/ EndCycle \/ WakeUp \/ Restart \/ Connect \/ SocketFails \/ Refused
           \/ AuthenticationTimesOut \/ ReceiveFails \/ ReceiveError \/ IngestionFails
  <2>1. /\ stage' \in Stage \ {"paging", "awaiting", "storing"}
        /\ ssid' \in {"absent", "valid", "expired"} /\ timeUp' \in BOOLEAN
        /\ UNCHANGED <<now, history, cursor, begun, collected, stored>>
    BY <1>8 DEF BeginCycle, EndCycle, WakeUp, Restart, Connect, SocketFails, Refused,
                AuthenticationTimesOut, ReceiveFails, ReceiveError, IngestionFails, Goto, Stage, Ended,
                IInv, TypeOK
  <2> QED
    BY <2>1 DEF IInv, TypeOK, Backwards, Paged, NoCandleSkipped
<1> QED
  BY <1>1, <1>2, <1>3, <1>4, <1>5, <1>6, <1>7, <1>8 DEF Next, Loop, Session, Collection

\* What holds before every page and after every cycle of the loop.
THEOREM Inductive == Spec => []IInv
  BY Initially, Invariance, PTL DEF Spec

\* TypeOK: among others, a collection never has more candles than its target,
\* whatever the platform sends (collect_backwards).
THEOREM TypeCorrect == Spec => []TypeOK
<1>1. IInv => TypeOK
  BY DEF IInv
<1> QED
  BY <1>1, Inductive, PTL

\* NoCandleSkipped: between the oldest candle of a collection and its beginning
\* no usable candle is missing, whatever pages the platform answers with.
THEOREM NothingSkipped == Spec => []NoCandleSkipped
<1>1. IInv => NoCandleSkipped
  BY DEF IInv
<1> QED
  BY <1>1, Inductive, PTL
=============================================================================
