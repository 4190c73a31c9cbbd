----------------------------- MODULE TimelineWindow -----------------------------
(***************************************************************************)
(* One timeline reduced to its two counters, point_next and point_oldest,  *)
(* next to the plain numbers they stand for: the first point ever handed   *)
(* out is number 0, and no number wraps.  The properties compare every     *)
(* test of mali_timeline.h with what it means on the numbers.              *)
(***************************************************************************)
EXTENDS TimelinePoints, TLAPS

CONSTANTS
  StartPoints,    \* the points a timeline may start with (1, or just before
                  \* wrapping with MALI_TIMELINE_DEBUG_START_POINT)
  MaxIssued       \* bound: how many points are handed out

ASSUME WindowAssumption == StartPoints \subseteq Point /\ MaxIssued \in Nat

VARIABLES
  start,          \* the first point
  pointNext,      \* timeline->point_next
  pointOldest,    \* timeline->point_oldest
  issued,         \* how many points were handed out
  released        \* how many of them, from the first on, are released

vars == <<start, pointNext, pointOldest, issued, released>>

\* The point with number n: the words without 0, cyclically.
PointNumber(n) == ((start - 1 + n) % (WordSize - 1)) + 1

Init ==
  /\ start \in StartPoints
  /\ pointNext = start
  /\ pointOldest = start
  /\ issued = 0
  /\ released = 0

\* Mutant: a full timeline is not refused.
Issue_NoLimit ==
  /\ issued < MaxIssued
  /\ pointNext' = NextPoint(pointNext)
  /\ issued' = issued + 1
  /\ UNCHANGED <<start, pointOldest, released>>

\* The point allocation of mali_timeline_insert_tracker.
Issue ==
  /\ issued < MaxIssued
  /\ ~IsFull(pointOldest, pointNext)
  /\ pointNext' = NextPoint(pointNext)
  /\ issued' = issued + 1
  /\ UNCHANGED <<start, pointOldest, released>>

\* mali_timeline_update_oldest_point: several trackers that were released out of
\* order may leave the point list at once.
Retire ==
  \E n \in released + 1 .. issued :
    /\ released' = n
    /\ pointOldest' = IF n = issued THEN pointNext ELSE PointNumber(n)
    /\ UNCHANGED <<start, pointNext, issued>>

Next == Issue \/ Retire

Spec == Init /\ [][Next]_vars
-----------------------------------------------------------------------------
\* Numbers so old that the driver may mistake their points: a fence must not be
\* staler than this.
Horizon == WordSize - 2 * MaxPointSpan - 4

Recent == {n \in 0 .. issued - 1 : issued - n <= Horizon}

\* The counters are points, never 0, and no more is released than was handed out.
TypeOK ==
  /\ start \in Point /\ pointNext \in Point /\ pointOldest \in Point
  /\ issued \in 0 .. MaxIssued
  /\ released \in 0 .. issued

\* insert_tracker hands out every word in turn and never NO_POINT.
PointsInTurn ==
  /\ pointNext = PointNumber(issued)
  /\ pointOldest = PointNumber(released)

\* A timeline never holds more than MaxPointSpan points, and refuses a tracker
\* only when it holds that many, or one fewer when the span crosses 0.
FullAtSpan ==
  /\ issued - released <= MaxPointSpan
  /\ IsFull(pointOldest, pointNext) => issued - released >= MaxPointSpan - 1

\* is_point_on and is_point_released sort every recent point correctly.
RecentPointsSorted ==
  \A n \in Recent :
    /\ IsPointOn(pointOldest, pointNext, PointNumber(n)) <=> n >= released
    /\ IsPointReleased(pointOldest, pointNext, PointNumber(n)) <=> n < released

\* A point that is about to be handed out is not valid: a fence on it is refused
\* instead of being taken for a released one.
FuturePointsInvalid ==
  \A n \in issued .. issued + MaxPointSpan - 1 :
    ~IsPointValid(pointOldest, pointNext, PointNumber(n))

\* What create_waiters and update_oldest_point rely on: is_point_valid, is_point_on and
\* is_point_released tell what is pending, what is over and what is still to come,
\* although all they see is a wrapping word.
PointTestsExact == RecentPointsSorted /\ FuturePointsInvalid

\* point_after orders any two recent points as they were handed out, across the
\* wrap; insert_waiter sorts waiters with it.
AfterIsOrder ==
  \A m, n \in {k \in Recent : 2 * (issued - k + 1) < WordSize} :
    PointAfter(PointNumber(m), PointNumber(n)) <=> m > n

\* get_latest_point returns the last point handed out, if it is still on.
LatestIsLast ==
  LatestPoint(pointOldest, pointNext) =
    IF released = issued THEN NoPoint ELSE PointNumber(issued - 1)

(***************************************************************************)
(* Proofs: the arithmetic is right for every word size and every span that *)
(* fits four times into a word, and every first point.                     *)
(*                                                                         *)
(* The one fact behind all of it is Distance: how far two points are apart *)
(* as words, given how far they are apart as numbers.  It turns each test  *)
(* of mali_timeline.h into linear arithmetic over issued and released.     *)
(***************************************************************************)


\* Adding less than m to a number wraps its remainder at most once.
LEMMA RemainderOfSum ==
  ASSUME NEW m \in Nat \ {0}, NEW a \in Nat, NEW d \in 0 .. m - 1
  PROVE  /\ a % m \in 0 .. m - 1
         /\ (a + d) % m = IF (a % m) + d < m THEN (a % m) + d ELSE (a % m) + d - m
<1> DEFINE r == a % m
           q == a \div m
<1>1. r \in 0 .. m - 1 /\ q \in Int /\ a = m * q + r
  OBVIOUS
<1>2. \A b \in Nat, p \in Int, s \in 0 .. m - 1 : b = m * p + s => b % m = s
  OBVIOUS
<1> HIDE DEF r, q
<1>3. CASE r + d < m
  <2>1. a + d = m * q + (r + d) /\ r + d \in 0 .. m - 1
    BY <1>1, <1>3
  <2>2. (a + d) % m = r + d
    BY <1>1, <1>2, <2>1
  <2> QED
    BY <1>1, <1>3, <2>2 DEF r
<1>4. CASE ~(r + d < m)
  <2>1. m * (q + 1) = m * q + m
    BY <1>1
  <2>2. a + d = m * (q + 1) + (r + d - m)
    BY <1>1, <2>1
  <2>3. r + d - m \in 0 .. m - 1 /\ q + 1 \in Int /\ a + d \in Nat
    BY <1>1, <1>4
  <2>4. (a + d) % m = r + d - m
    BY <1>2, <2>2, <2>3
  <2> QED
    BY <1>1, <1>4, <2>4 DEF r
<1> QED
  BY <1>3, <1>4

\* Every number has a point, and the point d numbers later is d words later, or one
\* more if 0 is skipped on the way.
LEMMA Distance ==
  ASSUME start \in Point, NEW k \in Nat, NEW n \in Nat, k <= n, n - k < WordSize - 1
  PROVE  /\ PointNumber(k) \in Point
         /\ PointNumber(n) \in Point
         /\ PointNumber(n) = IF PointNumber(k) + (n - k) < WordSize
                             THEN PointNumber(k) + (n - k)
                             ELSE PointNumber(k) + (n - k) - (WordSize - 1)
<1> DEFINE m == WordSize - 1
           a == start - 1 + k
           d == n - k
<1>1. m \in Nat \ {0} /\ a \in Nat /\ d \in 0 .. m - 1
  BY WordAssumption, SpanAssumption DEF Point, Word, NoPoint
<1>2. a + d = start - 1 + n
  BY DEF Point, Word, NoPoint
<1> HIDE DEF a
<1>3. a % m \in 0 .. m - 1 /\ (a + d) % m = IF (a % m) + d < m THEN (a % m) + d
                                             ELSE (a % m) + d - m
  <2> HIDE DEF m, d
  <2> QED
    BY <1>1, RemainderOfSum
<1>4. PointNumber(k) = (a % m) + 1 /\ PointNumber(n) = ((a + d) % m) + 1
  BY <1>2 DEF PointNumber, a
<1> QED
  BY <1>1, <1>3, <1>4, WordAssumption DEF Point, Word, NoPoint

\* The two unsigned distances of two points, in terms of their numbers.
LEMMA Distances ==
  ASSUME start \in Point, NEW k \in Nat, NEW n \in Nat, k <= n, n - k < WordSize - 1
  PROVE  /\ Sub(PointNumber(n), PointNumber(k)) \in {n - k, n - k + 1}
         /\ n = k => Sub(PointNumber(n), PointNumber(k)) = 0
         /\ Sub(PointNumber(k), PointNumber(n)) =
              IF n = k THEN 0 ELSE WordSize - Sub(PointNumber(n), PointNumber(k))
<1> DEFINE a == PointNumber(k)
           b == PointNumber(n)
<1>1. /\ a \in Point /\ b \in Point
      /\ b = IF a + (n - k) < WordSize THEN a + (n - k)
             ELSE a + (n - k) - (WordSize - 1)
  BY Distance
<1> HIDE DEF a, b
<1>2. a \in 1 .. WordSize - 1 /\ b \in 1 .. WordSize - 1 /\ WordSize \in Nat
  BY <1>1, WordAssumption DEF Point, Word, NoPoint
<1>3. /\ Sub(b, a) \in {n - k, n - k + 1}
      /\ n = k => Sub(b, a) = 0
      /\ Sub(a, b) = IF n = k THEN 0 ELSE WordSize - Sub(b, a)
  BY <1>1, <1>2 DEF Sub
<1> QED
  BY <1>3 DEF a, b

\* A later point is further away, as words too.
LEMMA Monotone ==
  ASSUME start \in Point, NEW k \in Nat, NEW m \in Nat, NEW n \in Nat,
         k <= m, m < n, n - k < WordSize - 1
  PROVE  Sub(PointNumber(m), PointNumber(k)) < Sub(PointNumber(n), PointNumber(k))
<1> DEFINE a == PointNumber(k)
           b == PointNumber(m)
           c == PointNumber(n)
<1>1. /\ a \in Point /\ b \in Point /\ c \in Point
      /\ b = IF a + (m - k) < WordSize THEN a + (m - k)
             ELSE a + (m - k) - (WordSize - 1)
      /\ c = IF a + (n - k) < WordSize THEN a + (n - k)
             ELSE a + (n - k) - (WordSize - 1)
  BY Distance, WordAssumption
<1> HIDE DEF a, b, c
<1>2. Sub(b, a) < Sub(c, a)
  BY <1>1, WordAssumption DEF Sub, Point, Word, NoPoint
<1> QED
  BY <1>2 DEF a, b, c

\* Every number has a point, and insert_tracker's increment gives the next one;
\* get_latest_point's decrement undoes it.
LEMMA NextNumber ==
  ASSUME start \in Point, NEW n \in Nat
  PROVE  /\ PointNumber(n) \in Point
         /\ NextPoint(PointNumber(n)) = PointNumber(n + 1)
         /\ PrevPoint(PointNumber(n + 1)) = PointNumber(n)
<1> DEFINE a == PointNumber(n)
           b == PointNumber(n + 1)
<1>1. WordSize \in Nat /\ WordSize >= 8 /\ (n + 1) - n = 1
  BY WordAssumption, SpanAssumption
<1>2. /\ a \in Point /\ b \in Point
      /\ b = IF a + 1 < WordSize THEN a + 1 ELSE a + 1 - (WordSize - 1)
  BY <1>1, Distance
<1> HIDE DEF a, b
<1>3. a \in 1 .. WordSize - 1 /\ b \in 1 .. WordSize - 1
  BY <1>2 DEF Point, Word, NoPoint
<1>4. NextPoint(a) = b /\ PrevPoint(b) = a
  BY <1>1, <1>2, <1>3 DEF NextPoint, PrevPoint, Add, Sub, NoPoint
<1> QED
  BY <1>2, <1>4 DEF a, b
-----------------------------------------------------------------------------
\* The inductive invariant: the words are the points of the two numbers, which
\* are never more than the span apart.
IInv == TypeOK /\ PointsInTurn /\ issued - released <= MaxPointSpan

LEMMA InitIInv == Init => IInv
<1> SUFFICES ASSUME Init PROVE IInv
  OBVIOUS
<1>1. start \in Point
  BY WindowAssumption DEF Init
<1>2. PointNumber(0) = start
  <2>1. start - 1 \in 0 .. (WordSize - 1) - 1 /\ WordSize - 1 \in Nat \ {0}
    BY <1>1, WordAssumption, SpanAssumption DEF Point, Word, NoPoint
  <2> DEFINE m == WordSize - 1
  <2>2. \A r \in 0 .. m - 1 : r % m = r
    <3> HIDE DEF m
    <3> QED
      BY <2>1 DEF m
  <2>3. (start - 1 + 0) % (WordSize - 1) = start - 1
    BY <2>1, <2>2
  <2> QED
    BY <1>1, <2>3 DEF PointNumber, Point, Word
<1> QED
  BY <1>1, <1>2, WindowAssumption, SpanAssumption DEF Init, IInv, TypeOK, PointsInTurn

LEMMA NextIInv == IInv /\ [Next]_vars => IInv'
<1> SUFFICES ASSUME IInv, [Next]_vars PROVE IInv'
  OBVIOUS
<1> USE DEF IInv
<1>1. start \in Point /\ issued \in Nat /\ released \in Nat /\ released <= issued
  BY WindowAssumption DEF TypeOK
<1>2. MaxPointSpan \in Nat /\ MaxPointSpan < WordSize - 1
  BY WordAssumption, SpanAssumption
<1>3. CASE Issue
  <2> USE DEF Issue
  <2>1. issued + 1 \in Nat /\ PointNumber(issued + 1) \in Point
    BY <1>1, NextNumber
  <2>2. pointNext' = PointNumber(issued + 1)
    BY <1>1, <1>3, NextNumber DEF PointsInTurn
  <2>3. Sub(pointNext, pointOldest) \in {issued - released, issued - released + 1}
    <3>1. issued - released < WordSize - 1
      BY <1>1, <1>2, WordAssumption
    <3> QED
      BY <1>1, <3>1, Distances DEF PointsInTurn
  <2>5. issued + 1 - released <= MaxPointSpan
    BY <1>1, <1>2, <1>3, <2>3 DEF IsFull
  <2>6. PointsInTurn'
    BY <1>3, <2>2 DEF PointsInTurn, PointNumber
  <2> QED
    BY <1>1, <1>3, <2>1, <2>2, <2>5, <2>6, WindowAssumption DEF TypeOK
<1>4. CASE Retire
  <2>1. PICK n \in released + 1 .. issued :
          /\ released' = n
          /\ pointOldest' = IF n = issued THEN pointNext ELSE PointNumber(n)
          /\ UNCHANGED <<start, pointNext, issued>>
    BY <1>4 DEF Retire
  <2>2. n \in Nat /\ PointNumber(n) \in Point
    BY <1>1, NextNumber
  <2>3. PointsInTurn'
    BY <2>1 DEF PointsInTurn, PointNumber
  <2> QED
    BY <1>1, <1>2, <2>1, <2>2, <2>3 DEF TypeOK
<1>5. CASE UNCHANGED vars
  BY <1>5 DEF vars, TypeOK, PointsInTurn, PointNumber
<1> QED
  BY <1>3, <1>4, <1>5 DEF Next
-----------------------------------------------------------------------------
\* What the properties start from: the points of a state, and the words they are
\* apart, in terms of the numbers.
LEMMA Window ==
  ASSUME IInv
  PROVE  /\ issued \in Nat /\ released \in Nat /\ released <= issued
         /\ issued - released <= MaxPointSpan
         /\ MaxPointSpan \in Nat /\ WordSize \in Nat
         /\ 2 <= MaxPointSpan /\ 4 * MaxPointSpan <= WordSize
         /\ start \in Point
         /\ pointNext = PointNumber(issued) /\ pointOldest = PointNumber(released)
         /\ Sub(pointNext, pointOldest) \in {issued - released, issued - released + 1}
         /\ issued = released => Sub(pointNext, pointOldest) = 0
<1>1. /\ issued \in Nat /\ released \in Nat /\ released <= issued
      /\ start \in Point /\ issued - released < WordSize - 1
  BY WindowAssumption, WordAssumption, SpanAssumption DEF IInv, TypeOK
<1> QED
  BY <1>1, Distances, WordAssumption, SpanAssumption DEF IInv, PointsInTurn

LEMMA FullAtSpanHolds == IInv => FullAtSpan
BY Window DEF FullAtSpan, IsFull

LEMMA RecentPointsSortedHolds == IInv => RecentPointsSorted
<1> SUFFICES ASSUME IInv, NEW n \in Recent
             PROVE  /\ IsPointOn(pointOldest, pointNext, PointNumber(n)) <=> n >= released
                    /\ IsPointReleased(pointOldest, pointNext, PointNumber(n))
                         <=> n < released
  BY DEF RecentPointsSorted
<1> DEFINE p == PointNumber(n)
           w == Sub(pointNext, pointOldest)
<1>1. n \in Nat /\ n < issued /\ issued - n <= Horizon
  BY Window DEF Recent
<1>2. CASE n >= released
  <2>1. n - released < WordSize - 1 /\ issued - n < WordSize - 1
    BY <1>1, <1>2, Window
  <2>2. Sub(p, pointOldest) \in {n - released, n - released + 1}
    BY <1>1, <1>2, <2>1, Window, Distances
  <2>3. Sub(p, pointOldest) < w
    BY <1>1, <1>2, Window, Monotone
  <2> QED
    BY <1>1, <1>2, <2>2, <2>3, Window DEF IsPointOn, IsPointReleased, Add
<1>3. CASE n < released
  <2>1. released - n < WordSize - 1
    BY <1>1, <1>3, Window DEF Horizon
  <2>2. /\ Sub(pointOldest, p) \in {released - n, released - n + 1}
        /\ Sub(p, pointOldest) = WordSize - Sub(pointOldest, p)
    BY <1>1, <1>3, <2>1, Window, Distances
  <2> QED
    BY <1>1, <1>3, <2>2, Window DEF IsPointOn, IsPointReleased, Add, Horizon
<1> QED
  BY <1>1, <1>2, <1>3, Window

LEMMA FuturePointsInvalidHolds == IInv => FuturePointsInvalid
<1> SUFFICES ASSUME IInv, NEW n \in issued .. issued + MaxPointSpan - 1
             PROVE  ~IsPointValid(pointOldest, pointNext, PointNumber(n))
  BY DEF FuturePointsInvalid
<1> DEFINE p == PointNumber(n)
<1>1. n \in Nat /\ issued <= n /\ n - issued < MaxPointSpan
  BY Window
<1>2. released <= n /\ n - released < WordSize - 1
  BY <1>1, Window
<1>3. Sub(p, pointOldest) \in {n - released, n - released + 1}
  BY <1>1, <1>2, Window, Distances
<1>4. Sub(p, pointOldest) >= Sub(pointNext, pointOldest)
  BY <1>1, <1>2, <1>3, Window, Monotone
<1>5. Sub(pointNext, pointOldest) + MaxPointSpan < WordSize
  BY Window
<1> QED
  BY <1>1, <1>3, <1>4, <1>5, Window DEF IsPointValid, IsPointOn, IsPointReleased, Add

LEMMA AfterIsOrderHolds == IInv => AfterIsOrder
<1> SUFFICES ASSUME IInv, NEW m \in Recent, NEW n \in Recent,
                    2 * (issued - m + 1) < WordSize, 2 * (issued - n + 1) < WordSize
             PROVE  PointAfter(PointNumber(m), PointNumber(n)) <=> m > n
  BY DEF AfterIsOrder
<1>1. m \in Nat /\ n \in Nat /\ m < issued /\ n < issued
  BY Window DEF Recent
<1>2. CASE m > n
  <2>1. m - n < WordSize - 1
    BY <1>1, <1>2, Window
  <2>2. /\ Sub(PointNumber(m), PointNumber(n)) \in {m - n, m - n + 1}
        /\ Sub(PointNumber(n), PointNumber(m)) =
             WordSize - Sub(PointNumber(m), PointNumber(n))
    BY <1>1, <1>2, <2>1, Window, Distances
  <2>3. 2 * Sub(PointNumber(m), PointNumber(n)) < WordSize
    BY <1>1, <1>2, <2>2, Window
  <2>4. 2 * Sub(PointNumber(n), PointNumber(m)) >= WordSize
    BY <1>1, <2>2, <2>3, Window
  <2> QED
    BY <1>2, <2>4 DEF PointAfter
<1>3. CASE m <= n
  <2>1. n - m < WordSize - 1
    BY <1>1, <1>3, Window
  <2>2. Sub(PointNumber(n), PointNumber(m)) \in {n - m, n - m + 1}
    BY <1>1, <1>3, <2>1, Window, Distances
  <2>3. ~(2 * Sub(PointNumber(n), PointNumber(m)) >= WordSize)
    BY <1>1, <1>3, <2>2, Window
  <2>4. ~(m > n)
    BY <1>1, <1>3
  <2> QED
    BY <2>3, <2>4 DEF PointAfter
<1> QED
  BY <1>1, <1>2, <1>3

LEMMA LatestIsLastHolds == IInv => LatestIsLast
<1> SUFFICES ASSUME IInv PROVE LatestIsLast
  OBVIOUS
<1>1. CASE released = issued
  BY <1>1, Window DEF LatestIsLast, LatestPoint, IsEmpty
<1>2. CASE released # issued
  <2>1. issued - 1 \in Nat /\ issued - released < WordSize - 1
    BY <1>2, Window
  <2>2. PrevPoint(pointNext) = PointNumber(issued - 1)
    BY <2>1, Window, NextNumber
  <2>3. pointNext # pointOldest
    BY <1>2, <2>1, Window, Distances, WordAssumption DEF Sub
  <2> QED
    BY <1>2, <2>2, <2>3 DEF LatestIsLast, LatestPoint, IsEmpty
<1> QED
  BY <1>1, <1>2
-----------------------------------------------------------------------------
LEMMA Inductive == Spec => []IInv
<1> QED
  BY InitIInv, NextIInv, PTL DEF Spec

\* The counters are words, never 0, for any number of points handed out.
THEOREM TypeCorrect == Spec => []TypeOK
<1>1. IInv => TypeOK
  BY DEF IInv
<1> QED
  BY <1>1, Inductive, PTL

\* mali_timeline_insert_tracker hands out every point but 0 in turn, and the span
\* that IsFull measures in words is the number of points in use, or one more.
THEOREM PointsInTurnAlways == Spec => [](PointsInTurn /\ FullAtSpan)
<1>1. IInv => PointsInTurn /\ FullAtSpan
  BY FullAtSpanHolds DEF IInv
<1> QED
  BY <1>1, Inductive, PTL

\* is_point_on and is_point_released sort each point that is not staler than the
\* horizon, and no point that is still to come is taken for a valid one.
THEOREM PointsSorted == Spec => []PointTestsExact
<1>1. IInv => PointTestsExact
  BY RecentPointsSortedHolds, FuturePointsInvalidHolds DEF PointTestsExact
<1> QED
  BY <1>1, Inductive, PTL

\* mali_timeline_point_after, which sorts the waiters of a timeline, is the order
\* in which the points were handed out, and get_latest_point is the last of them.
THEOREM OrderCorrect == Spec => [](AfterIsOrder /\ LatestIsLast)
<1>1. IInv => AfterIsOrder /\ LatestIsLast
  BY AfterIsOrderHolds, LatestIsLastHolds
<1> QED
  BY <1>1, Inductive, PTL
=================================================================================
