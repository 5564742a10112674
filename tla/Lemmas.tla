-------------------------------- MODULE Lemmas --------------------------------
(***************************************************************************)
(* Facts that the proofs of several components need: the greatest and the  *)
(* least of a set of numbers (versions of a dataset count on from the      *)
(* greatest, pages of candles from the least), induction over the numbers, *)
(* and what a loop over a sequence, written with FoldLeft, comes to.       *)
(***************************************************************************)
EXTENDS Naturals, SequencesExt, SequenceTheorems, WellFoundedInduction, TLAPS

\* The body of a loop: of what the loop is given, what it has so far and the
\* next element. A module that proves about a loop has an instance for its
\* body; one that only needs the facts about numbers leaves the constant open.
CONSTANT Body(_, _, _)

-----------------------------------------------------------------------------
(* Numbers *)

\* A set of numbers with a bound has a greatest one.
LEMMA MaxOfBounded ==
  ASSUME NEW S \in SUBSET Nat, S # {}, NEW b \in Nat, \A x \in S : x <= b
  PROVE  Max(S) \in S /\ \A x \in S : x <= Max(S)
<1> DEFINE T == { m \in Nat : \A x \in S : x <= m }
<1>1. T \subseteq Nat /\ T # {}
  <2>1. b \in T
    OBVIOUS
  <2> QED
    BY <2>1
<1>2. PICK m \in T : \A n \in T : ~ (<<n, m>> \in OpToRel(<, Nat))
  <2> HIDE DEF T
  <2> QED
    BY <1>1, WFMin, NatLessThanWellFounded, Zenon
<1>3. \A n \in T : ~ (n < m)
  <2> SUFFICES ASSUME NEW n \in T, n < m PROVE FALSE
    OBVIOUS
  <2>1. <<n, m>> \in OpToRel(<, Nat)
    BY DEF OpToRel
  <2> QED
    BY <1>2, <2>1
<1>4. m \in S
  <2> SUFFICES ASSUME m \notin S PROVE FALSE
    OBVIOUS
  <2>1. PICK x \in S : TRUE
    OBVIOUS
  <2>2. x < m
    BY <2>1
  <2>3. m - 1 \in T
    BY <2>2
  <2> QED
    BY <1>3, <2>3
<1>5. \A x \in S : m >= x
  OBVIOUS
<1> HIDE DEF T
<1>6. Max(S) \in S /\ \A y \in S : Max(S) >= y
  BY <1>4, <1>5 DEF Max
<1> QED
  BY <1>6

\* Numbers have a least one.
LEMMA MinOfNumbers ==
  ASSUME NEW S \in SUBSET Nat, S # {}
  PROVE  Min(S) \in S /\ \A x \in S : Min(S) <= x
<1>1. PICK m \in S : \A n \in S : ~ (<<n, m>> \in OpToRel(<, Nat))
  BY WFMin, NatLessThanWellFounded, Zenon
<1>2. \A n \in S : m <= n
  <2> SUFFICES ASSUME NEW n \in S, n < m PROVE FALSE
    OBVIOUS
  <2>1. <<n, m>> \in OpToRel(<, Nat)
    BY DEF OpToRel
  <2> QED
    BY <1>1, <2>1
<1>3. Min(S) \in S /\ \A y \in S : Min(S) =< y
  BY <1>2 DEF Min
<1> QED
  BY <1>3

\* SELECT MAX, with 0 for an empty table.
LEMMA MaxOfRows ==
  ASSUME NEW b \in Nat, NEW S \in SUBSET (1 .. b)
  PROVE  /\ Max({0} \cup S) \in 0 .. b
         /\ Max({0} \cup S) # 0 => Max({0} \cup S) \in S
         /\ \A n \in S : n <= Max({0} \cup S)
<1> DEFINE T == {0} \cup S
<1>1. T \in SUBSET Nat /\ T # {} /\ \A x \in T : x <= b
  OBVIOUS
<1>2. Max(T) \in T /\ \A x \in T : x <= Max(T)
  <2> HIDE DEF T
  <2> QED
    BY <1>1, MaxOfBounded
<1>3. PICK m : m = Max({0} \cup S)
  OBVIOUS
<1>4. m \in {0} \cup S /\ \A x \in {0} \cup S : x <= m
  BY <1>2, <1>3, Zenon
<1>5. m \in 0 .. b /\ (m # 0 => m \in S) /\ \A n \in S : n <= m
  BY <1>4
<1> QED
  BY <1>3, <1>5, Zenon

\* Induction, of a set that holds 0 and with every number the next one.
LEMMA NumbersByInduction ==
  ASSUME NEW S, 0 \in S, \A n \in Nat : n \in S => n + 1 \in S
  PROVE  \A n \in Nat : n \in S
<1> DEFINE T == Nat \ S
<1> SUFFICES ASSUME T # {} PROVE FALSE
  OBVIOUS
<1>1. PICK m \in T : \A n \in T : ~ (<<n, m>> \in OpToRel(<, Nat))
  <2>1. T \subseteq Nat
    OBVIOUS
  <2> HIDE DEF T
  <2> QED
    BY <2>1, WFMin, NatLessThanWellFounded, Zenon
<1>2. m # 0 /\ m - 1 \in Nat
  OBVIOUS
<1>3. m - 1 \in T
  BY <1>2
<1>4. <<m - 1, m>> \in OpToRel(<, Nat)
  BY <1>2 DEF OpToRel
<1> QED
  BY <1>1, <1>3, <1>4

\* And of a set that holds the empty sequence and with every sequence the longer ones.
LEMMA SequencesByInduction ==
  ASSUME NEW E, NEW S, << >> \in S,
         \A s \in Seq(E), x \in E : s \in S => Append(s, x) \in S
  PROVE  \A s \in Seq(E) : s \in S
<1> DEFINE T == { n \in Nat : \A s \in Seq(E) : Len(s) = n => s \in S }
<1>1. 0 \in T
  <2>1. \A s \in Seq(E) : Len(s) = 0 => s = << >>
    OBVIOUS
  <2> QED
    BY <2>1
<1>2. ASSUME NEW n \in Nat, n \in T PROVE n + 1 \in T
  <2> SUFFICES ASSUME NEW s \in Seq(E), Len(s) = n + 1 PROVE s \in S
    OBVIOUS
  <2>1. PICK t \in Seq(E), x \in E : s = Append(t, x)
    <3>1. s # << >>
      OBVIOUS
    <3> QED
      BY <3>1, SequenceEmptyOrAppend
  <2>2. Len(t) = n
    BY <2>1
  <2> QED
    BY <1>2, <2>1, <2>2
<1>3. \A n \in Nat : n \in T
  <2> HIDE DEF T
  <2> QED
    BY <1>1, <1>2, NumbersByInduction
<1> QED
  BY <1>3

-----------------------------------------------------------------------------
(* Loops *)

After(given, start, s) == FoldLeft(LAMBDA sofar, x : Body(given, sofar, x), start, s)

\* FoldLeft goes by the sets of indices, taking the greatest away.
IsRun(g, given, start, s, n) ==
  g = [ t \in SUBSET (1 .. n) |->
          IF t = {} THEN start ELSE Body(given, g[t \ {Max(t)}], s[Max(t)]) ]

LEMMA MaxOfIndices ==
  ASSUME NEW n \in Nat, NEW t \in SUBSET (1 .. n), t # {}
  PROVE  /\ Max(t) \in t /\ Max(t) \in 1 .. n
         /\ \A i \in t : i <= Max(t)
<1>1. t \in SUBSET Nat /\ \A i \in t : i <= n
  OBVIOUS
<1>2. Max(t) \in t /\ \A i \in t : i <= Max(t)
  BY <1>1, MaxOfBounded
<1> QED
  BY <1>2

LEMMA RunExists ==
  ASSUME NEW given, NEW start, NEW s
  PROVE  \A n \in Nat : \E g : IsRun(g, given, start, s, n)
<1> DEFINE S == { n \in Nat : \E g : IsRun(g, given, start, s, n) }
<1>1. 0 \in S
  <2>1. IsRun([ t \in SUBSET (1 .. 0) |-> start ], given, start, s, 0)
    BY DEF IsRun
  <2> QED
    BY <2>1
<1>2. ASSUME NEW n \in Nat, n \in S PROVE n + 1 \in S
  <2>1. PICK g : IsRun(g, given, start, s, n)
    BY <1>2
  <2> DEFINE m == n + 1
             h == [ t \in SUBSET (1 .. m) |->
                      IF m \in t THEN Body(given, g[t \ {m}], s[m]) ELSE g[t] ]
  <2>2. ASSUME NEW t \in SUBSET (1 .. m)
        PROVE  h[t] = IF t = {} THEN start ELSE Body(given, h[t \ {Max(t)}], s[Max(t)])
    <3>1. CASE m \in t
      <4>1. Max(t) = m
        <5>1. Max(t) \in 1 .. m /\ m <= Max(t)
          BY <3>1, MaxOfIndices
        <5> QED
          BY <5>1
      <4>2. t \ {m} \in SUBSET (1 .. n) /\ t \ {m} \in SUBSET (1 .. m) /\ m \notin t \ {m}
        OBVIOUS
      <4>3. h[t \ {m}] = g[t \ {m}]
        BY <4>2
      <4> QED
        BY <3>1, <4>1, <4>3
    <3>2. CASE m \notin t
      <4>1. t \in SUBSET (1 .. n)
        BY <3>2
      <4>2. h[t] = g[t]
        BY <3>2
      <4>3. CASE t = {}
        BY <2>1, <4>1, <4>2, <4>3 DEF IsRun
      <4>4. CASE t # {}
        <5>1. t \ {Max(t)} \in SUBSET (1 .. m) /\ m \notin t \ {Max(t)}
          BY <3>2
        <5>2. h[t \ {Max(t)}] = g[t \ {Max(t)}]
          BY <5>1
        <5>3. g[t] = Body(given, g[t \ {Max(t)}], s[Max(t)])
          BY <2>1, <4>1, <4>4 DEF IsRun
        <5> QED
          BY <4>2, <4>4, <5>2, <5>3
      <4> QED
        BY <4>3, <4>4
    <3> QED
      BY <3>1, <3>2
  <2>3. h = [ t \in SUBSET (1 .. m) |-> h[t] ]
    OBVIOUS
  <2> HIDE DEF h
  <2>4. IsRun(h, given, start, s, m)
    BY <2>2, <2>3 DEF IsRun
  <2> QED
    BY <2>4
<1>3. \A n \in Nat : n \in S
  <2> HIDE DEF S
  <2> QED
    BY <1>1, <1>2, NumbersByInduction
<1> QED
  BY <1>3

\* A loop over a sequence is the run over all of its indices.
LEMMA LoopIsRun ==
  ASSUME NEW given, NEW start, NEW E, NEW s \in Seq(E)
  PROVE  \E g : /\ IsRun(g, given, start, s, Len(s))
                /\ After(given, start, s) = g[1 .. Len(s)]
<1> DEFINE g == CHOOSE f : IsRun(f, given, start, s, Len(s))
<1>1. Len(s) \in Nat /\ DOMAIN s = 1 .. Len(s)
  OBVIOUS
<1>2. IsRun(g, given, start, s, Len(s))
  <2>1. \E f : IsRun(f, given, start, s, Len(s))
    BY <1>1, RunExists
  <2> QED
    BY <2>1
<1>3. After(given, start, s) = g[1 .. Len(s)]
  BY <1>1 DEF After, FoldLeft, MapThenFoldSet, IsRun
<1> QED
  BY <1>2, <1>3

\* Runs over sequences that begin alike agree so far.
LEMMA RunsAgree ==
  ASSUME NEW given, NEW start, NEW s, NEW t, NEW g, NEW h, NEW n \in Nat, NEW m \in Nat,
         n <= m, \A i \in 1 .. n : s[i] = t[i],
         IsRun(g, given, start, s, n), IsRun(h, given, start, t, m)
  PROVE  \A k \in 0 .. n : g[1 .. k] = h[1 .. k]
<1> DEFINE S == { k \in Nat : k <= n => g[1 .. k] = h[1 .. k] }
<1>1. 0 \in S
  <2>1. 1 .. 0 = {} /\ {} \in SUBSET (1 .. n) /\ {} \in SUBSET (1 .. m)
    OBVIOUS
  <2>2. g[{}] = start /\ h[{}] = start
    BY <2>1 DEF IsRun
  <2> QED
    BY <2>1, <2>2
<1>2. ASSUME NEW k \in Nat, k \in S PROVE k + 1 \in S
  <2> SUFFICES ASSUME k + 1 <= n PROVE g[1 .. k + 1] = h[1 .. k + 1]
    OBVIOUS
  <2> DEFINE all == 1 .. k + 1
  <2>1. /\ all # {} /\ all \in SUBSET (1 .. n) /\ all \in SUBSET (1 .. m)
        /\ all \ {k + 1} = 1 .. k /\ k + 1 \in 1 .. n
    OBVIOUS
  <2>2. Max(all) = k + 1
    <3>1. Max(all) \in all /\ \A i \in all : i <= Max(all)
      BY <2>1, MaxOfIndices
    <3>2. k + 1 \in all
      OBVIOUS
    <3> QED
      BY <3>1, <3>2
  <2> HIDE DEF all
  <2>3. g[all] = Body(given, g[1 .. k], s[k + 1])
    <3>1. g[all] = IF all = {} THEN start ELSE Body(given, g[all \ {Max(all)}], s[Max(all)])
      BY <2>1, Zenon DEF IsRun
    <3> QED
      BY <2>1, <2>2, <3>1
  <2>6. h[all] = Body(given, h[1 .. k], t[k + 1])
    <3>1. h[all] = IF all = {} THEN start ELSE Body(given, h[all \ {Max(all)}], t[Max(all)])
      BY <2>1, Zenon DEF IsRun
    <3> QED
      BY <2>1, <2>2, <3>1
  <2>4. g[1 .. k] = h[1 .. k]
    BY <1>2
  <2>5. g[all] = h[all]
    BY <2>1, <2>3, <2>4, <2>6
  <2> QED
    BY <2>5 DEF all
<1>3. \A k \in Nat : k \in S
  <2> HIDE DEF S
  <2> QED
    BY <1>1, <1>2, NumbersByInduction
<1> QED
  BY <1>3

\* A loop over nothing leaves what it starts with.
LEMMA LoopEmpty ==
  ASSUME NEW given, NEW start
  PROVE  After(given, start, << >>) = start
<1>1. << >> \in Seq({}) /\ Len(<< >>) = 0 /\ 1 .. 0 = {}
  OBVIOUS
<1>2. PICK g : IsRun(g, given, start, << >>, 0) /\ After(given, start, << >>) = g[{}]
  BY <1>1, LoopIsRun
<1> QED
  BY <1>2 DEF IsRun

\* One more element goes through the body once, after all the others.
LEMMA LoopAppend ==
  ASSUME NEW given, NEW start, NEW E, NEW s \in Seq(E), NEW x \in E
  PROVE  After(given, start, Append(s, x)) = Body(given, After(given, start, s), x)
<1> DEFINE t == Append(s, x)
           n == Len(s)
<1>1. /\ n \in Nat /\ t \in Seq(E) /\ Len(t) = n + 1 /\ t[n + 1] = x
      /\ \A i \in 1 .. n : t[i] = s[i]
  OBVIOUS
<1>2. PICK g : IsRun(g, given, start, s, n) /\ After(given, start, s) = g[1 .. n]
  BY LoopIsRun
<1> HIDE DEF t
<1>3. PICK h : IsRun(h, given, start, t, n + 1) /\ After(given, start, t) = h[1 .. n + 1]
  BY <1>1, LoopIsRun
<1>4. g[1 .. n] = h[1 .. n]
  <2>1. n <= n + 1 /\ n + 1 \in Nat /\ n \in 0 .. n
    BY <1>1
  <2> HIDE DEF n
  <2> QED
    BY <1>1, <1>2, <1>3, <2>1, RunsAgree
<1>5. Max(1 .. n + 1) = n + 1
  <2>1. 1 .. n + 1 # {} /\ n + 1 \in 1 .. n + 1 /\ n + 1 \in Nat
    BY <1>1
  <2>2. Max(1 .. n + 1) \in 1 .. n + 1 /\ n + 1 <= Max(1 .. n + 1)
    BY <2>1, MaxOfIndices
  <2> QED
    BY <2>2
<1>6. h[1 .. n + 1] = Body(given, h[1 .. n], x)
  <2> DEFINE all == 1 .. n + 1
  <2>1. all # {} /\ all \ {n + 1} = 1 .. n /\ all \in SUBSET (1 .. n + 1)
    BY <1>1
  <2>2. Max(all) = n + 1
    BY <1>5
  <2> HIDE DEF all
  <2>3. h[all] = IF all = {} THEN start ELSE Body(given, h[all \ {Max(all)}], t[Max(all)])
    BY <1>3, <2>1, Zenon DEF IsRun
  <2>4. h[all] = Body(given, h[1 .. n], x)
    BY <1>1, <2>1, <2>2, <2>3
  <2> QED
    BY <2>4 DEF all
<1> QED
  BY <1>2, <1>3, <1>4, <1>6 DEF t

\* What the body keeps in a set stays in it.
LEMMA LoopStays ==
  ASSUME NEW given, NEW I, NEW start \in I, NEW E,
         \A v \in I, x \in E : Body(given, v, x) \in I
  PROVE  \A s \in Seq(E) : After(given, start, s) \in I
<1> DEFINE S == { s \in Seq(E) : After(given, start, s) \in I }
<1>1. << >> \in S
  BY LoopEmpty
<1>2. ASSUME NEW s \in Seq(E), NEW x \in E, s \in S PROVE Append(s, x) \in S
  <2>1. After(given, start, Append(s, x)) = Body(given, After(given, start, s), x)
    BY LoopAppend
  <2> QED
    BY <1>2, <2>1
<1>3. \A s \in Seq(E) : s \in S
  <2> HIDE DEF S
  <2> QED
    BY <1>1, <1>2, SequencesByInduction
<1> QED
  BY <1>3
=============================================================================
