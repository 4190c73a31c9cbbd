----------------------------- MODULE TimelinePoints -----------------------------
(***************************************************************************)
(* The arithmetic of timeline points, mali_timeline.h and the point        *)
(* allocation of mali_timeline.c.  Points are unsigned words that wrap and *)
(* skip 0; every test normalises a point to the oldest one of its timeline *)
(* by an unsigned subtraction.                                             *)
(***************************************************************************)
EXTENDS Integers

CONSTANTS
  WordSize,       \* 2^32 in the driver: points are u32
  MaxPointSpan    \* MALI_TIMELINE_MAX_POINT_SPAN, 65536 in the driver

\* Both are powers of two, far apart.
ASSUME WordAssumption == WordSize \in Nat /\ WordSize % 2 = 0
ASSUME SpanAssumption ==
  MaxPointSpan \in Nat /\ MaxPointSpan >= 2 /\ 4 * MaxPointSpan <= WordSize

Word    == 0 .. WordSize - 1
NoPoint == 0
Point   == Word \ {NoPoint}

\* a - b and a + b on unsigned words.
Sub(a, b) == IF a >= b THEN a - b ELSE a - b + WordSize
Add(a, b) == IF a + b < WordSize THEN a + b ELSE a + b - WordSize

\* The point after p: the increment of insert_tracker, which skips NoPoint.
NextPoint(p) == IF Add(p, 1) = NoPoint THEN Add(p, 2) ELSE Add(p, 1)

\* The point before p: the decrement of get_latest_point.
PrevPoint(p) == IF Sub(p, 1) = NoPoint THEN Sub(p, 2) ELSE Sub(p, 1)

\* Mutant: no wrapping.
PointAfter_Unsigned(a, b) == a > b

\* mali_timeline_point_after: the sign of the 32-bit difference of b and a.
PointAfter(a, b) == 2 * Sub(b, a) >= WordSize

IsPointOn(oldest, next, p) == Sub(p, oldest) < Sub(next, oldest)

\* Mutant: the forbidden zone is forgotten.
IsPointReleased_NoForbiddenZone(oldest, next, p) ==
  Sub(p, oldest) > Sub(next, oldest)

IsPointReleased(oldest, next, p) ==
  Sub(p, oldest) > Add(Sub(next, oldest), MaxPointSpan)

IsPointValid(oldest, next, p) ==
  IsPointOn(oldest, next, p) \/ IsPointReleased(oldest, next, p)

IsEmpty(oldest, next) == next = oldest

IsFull(oldest, next) == MaxPointSpan <= Sub(next, oldest)

\* mali_timeline_system_get_latest_point.
LatestPoint(oldest, next) ==
  IF IsEmpty(oldest, next) THEN NoPoint ELSE PrevPoint(next)
=============================================================================
