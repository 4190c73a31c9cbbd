------------------------------ MODULE SchedulerProofs ------------------------------
(***************************************************************************)
(* Of the job queues, for any number of sessions, jobs, sub jobs and PP    *)
(* cores: the secure mode of the GPU, the output of a job that started,    *)
(* and, as long as the executor does not complete a job while the          *)
(* scheduler aborts it, the whole life of every job: its sub jobs, its     *)
(* tracker, its reference on the powered device and what the user is told, *)
(* and the depths and the order of the queues.  (When they race, a job is  *)
(* completed twice, see the run scheduler_race.)                           *)
(*                                                                         *)
(* First what the operators on lists and records do, then what an action   *)
(* does to the jobs, then the invariants, each with the help of those in   *)
(* front of it: Common, which needs no lock (and OutputKept of a step),    *)
(* Accounts of each job, Tally of the depths, Ranked of the order.         *)
(***************************************************************************)
EXTENDS Scheduler, FiniteSetTheorems, SequenceTheorems, FunctionTheorems, WellFoundedInduction, TLAPS

-----------------------------------------------------------------------------
(* Lists and numbers *)

\* Differences of remainders are those of the numbers, modulo m.
LEMMA Residues ==
  ASSUME NEW m \in Nat \ {0}, NEW a \in Nat, NEW d \in 0..(m - 1)
  PROVE  /\ (((a + d) % m) - (a % m)) % m = d
         /\ ((a % m) - ((a + d) % m)) % m = IF d = 0 THEN 0 ELSE m - d
<1> DEFINE r == a % m
           q == a \div m
           s == (a + d) % m
<1>1. r \in 0..(m - 1) /\ q \in Int /\ a = m * q + r
  OBVIOUS
<1>2. \A b \in Int, p \in Int, x \in 0..(m - 1) : b = m * p + x => b % m = x
  OBVIOUS
<1> HIDE DEF r, q
<1>3. s = r + d \/ s = r + d - m
  <2>1. CASE r + d < m
    <3>1. a + d = m * q + (r + d) /\ r + d \in 0..(m - 1) /\ a + d \in Int
      BY <1>1, <2>1
    <3>2. QED
      BY <1>1, <1>2, <3>1
  <2>2. CASE r + d >= m
    <3>1. m * (q + 1) = m * q + m
      BY <1>1
    <3>2. a + d = m * (q + 1) + (r + d - m)
      BY <1>1, <3>1
    <3>3. r + d - m \in 0..(m - 1) /\ a + d \in Int /\ q + 1 \in Int
      BY <1>1, <2>2
    <3>4. QED
      BY <1>2, <3>2, <3>3
  <2>3. QED
    BY <1>1, <2>1, <2>2
<1> HIDE DEF s
<1>4. ASSUME NEW x \in Int, x = d \/ x = d - m PROVE x % m = d
  <2>1. x = m * 0 + d \/ x = m * (-1) + d
    BY <1>4
  <2>2. QED
    BY <1>2, <2>1
<1>5. ASSUME NEW x \in Int, x = -d \/ x = m - d PROVE x % m = IF d = 0 THEN 0 ELSE m - d
  <2>1. CASE d = 0
    <3>1. x = m * 0 + 0 \/ x = m * 1 + 0
      BY <1>5, <2>1
    <3>2. QED
      BY <1>2, <2>1, <3>1
  <2>2. CASE d # 0
    <3>1. x = m * (-1) + (m - d) \/ x = m * 0 + (m - d)
      BY <1>5
    <3>2. m - d \in 0..(m - 1)
      BY <2>2
    <3>3. QED
      BY <1>2, <2>2, <3>1, <3>2
  <2>3. QED
    BY <2>1, <2>2
<1>6. s \in Int /\ r \in Int
  BY <1>1, <1>3
<1>7. (s - r) % m = d
  <2>1. s - r \in Int /\ (s - r = d \/ s - r = d - m)
    BY <1>3, <1>6
  <2>2. QED
    BY <1>4, <2>1
<1>8. (r - s) % m = IF d = 0 THEN 0 ELSE m - d
  <2>1. r - s \in Int /\ (r - s = -d \/ r - s = m - d)
    BY <1>3, <1>6
  <2>2. QED
    BY <1>5, <2>1
<1>9. QED
  BY <1>7, <1>8 DEF r, s

LEMMA PartOfInterval ==
  ASSUME NEW n \in Nat, NEW left \in SUBSET (1..n)
  PROVE  IsFiniteSet(left) /\ Cardinality(left) \in Nat
<1>1. IsFiniteSet(1..n)
  BY FS_Interval
<1>2. IsFiniteSet(left)
  BY <1>1, FS_Subset
<1>3. QED
  BY <1>2, FS_CardinalityType

\* The positions left in a list are numbered without a gap.
LEMMA NthExists ==
  ASSUME NEW n \in Nat, NEW left \in SUBSET (1..n), NEW k \in 1..Cardinality(left)
  PROVE  \E m \in left : Cardinality(left \cap (1..m)) = k
<1> DEFINE C == Cardinality(left)
           rank == [m \in left |-> Cardinality(left \cap (1..m))]
<1>1. IsFiniteSet(left) /\ C \in Nat
  BY PartOfInterval
<1>2. ASSUME NEW m \in left
      PROVE  /\ IsFiniteSet(left \cap (1..m))
             /\ rank[m] \in 1..C
  <2>1. IsFiniteSet(left \cap (1..m)) /\ Cardinality(left \cap (1..m)) <= C
    BY <1>1, FS_Subset
  <2>2. m \in left \cap (1..m)
    OBVIOUS
  <2>3. Cardinality(left \cap (1..m)) \in Nat /\ Cardinality(left \cap (1..m)) # 0
    BY <2>1, <2>2, FS_EmptySet, FS_CardinalityType
  <2>4. QED
    BY <1>1, <2>1, <2>3
<1>3. ASSUME NEW a \in left, NEW b \in left, a < b
      PROVE  rank[a] # rank[b]
  <2>1. left \cap (1..a) \subseteq left \cap (1..b)
    BY <1>3
  <2>2. b \in left \cap (1..b) /\ b \notin left \cap (1..a)
    BY <1>3
  <2>3. Cardinality(left \cap (1..a)) # Cardinality(left \cap (1..b))
    BY <1>2, <2>1, <2>2, FS_Subset
  <2>4. QED
    BY <2>3
<1>4. rank \in Injection(left, 1..C)
  <2>1. rank \in [left -> 1..C]
    BY <1>2
  <2>2. \A a, b \in left : rank[a] = rank[b] => a = b
    <3> SUFFICES ASSUME NEW a \in left, NEW b \in left, a # b PROVE rank[a] # rank[b]
      OBVIOUS
    <3>1. a \in Int /\ b \in Int
      OBVIOUS
    <3>2. CASE a < b
      BY <3>2, <1>3
    <3>3. CASE b < a
      BY <3>3, <1>3
    <3>4. QED
      BY <3>1, <3>2, <3>3
  <2>3. QED
    BY <2>1, <2>2 DEF Injection, IsInjective
<1>5. IsFiniteSet(1..C) /\ Cardinality(1..C) = C
  BY <1>1, FS_Interval
<1>6. rank \in Surjection(left, 1..C)
  <2> HIDE DEF C, rank
  <2>1. QED
    BY <1>4, <1>5, FS_Injection DEF C
<1>7. PICK m \in left : rank[m] = k
  BY <1>6 DEF Surjection
<1>8. QED
  BY <1>7

\* No job is twice in a list.
Distinct(list) == \A a, b \in 1..Len(list) : list[a] = list[b] => a = b

\* A list in which each job may come before those behind it.
Sorted(list, R) == \A a, b \in 1..Len(list) : a < b => <<list[a], list[b]>> \in R

\* The members of w come from these places of the list: all that are not in S, in order.
From(list, S, w, place) ==
  /\ Len(w) \in Nat /\ place \in [1..Len(w) -> 1..Len(list)]
  /\ \A k \in 1..Len(w) : list[place[k]] \notin S /\ w[k] = list[place[k]]
  /\ \A a, b \in 1..Len(w) : a < b => place[a] < place[b]
  /\ \A m \in 1..Len(list) : list[m] \notin S => \E k \in 1..Len(w) : place[k] = m

LEMMA WithoutPlaces ==
  ASSUME NEW T, NEW list \in Seq(T), NEW S
  PROVE  /\ Without(list, S) \in Seq(T)
         /\ \E place : From(list, S, Without(list, S), place)
<1> DEFINE left == {n \in 1..Len(list) : list[n] \notin S}
           C == Cardinality(left)
           Nth(k) == CHOOSE n \in left : Cardinality(left \cap (1..n)) = k
           w == [k \in 1..C |-> list[Nth(k)]]
<1>1. left \in SUBSET (1..Len(list)) /\ Len(list) \in Nat
  OBVIOUS
<1>2. IsFiniteSet(left) /\ C \in Nat
  <2> HIDE DEF left
  <2>1. QED
    BY <1>1, PartOfInterval
<1>3. \A k \in 1..C : Nth(k) \in left /\ Cardinality(left \cap (1..Nth(k))) = k
  <2> TAKE k \in 1..C
  <2>1. \E m \in left : Cardinality(left \cap (1..m)) = k
    <3> HIDE DEF left
    <3>1. QED
      BY <1>1, NthExists
  <2> HIDE DEF left
  <2>2. QED
    BY <2>1
<1>4. \A n \in left : \E k \in 1..C : Nth(k) = n
  <2> TAKE n \in left
  <2> DEFINE k == Cardinality(left \cap (1..n))
  <2>1. k \in 1..C
    <3>1. IsFiniteSet(left \cap (1..n)) /\ k <= C
      BY <1>2, FS_Subset
    <3>2. n \in left \cap (1..n)
      OBVIOUS
    <3>3. k \in Nat /\ k # 0
      BY <3>1, <3>2, FS_EmptySet, FS_CardinalityType
    <3>4. QED
      BY <3>1, <3>3, <1>2
  <2>2. Nth(k) \in left /\ Cardinality(left \cap (1..Nth(k))) = k
    <3> HIDE DEF Nth, k, left, C
    <3>1. QED
      BY <2>1, <1>3
  <2>3. ASSUME NEW a \in left, NEW b \in left, a < b
        PROVE  Cardinality(left \cap (1..a)) # Cardinality(left \cap (1..b))
    <3>1. left \cap (1..a) \subseteq left \cap (1..b)
      BY <2>3
    <3>2. b \in left \cap (1..b) /\ b \notin left \cap (1..a)
      BY <2>3
    <3>3. IsFiniteSet(left \cap (1..b))
      BY <1>2, FS_Subset
    <3>4. QED
      BY <3>1, <3>2, <3>3, FS_Subset
  <2>4. Nth(k) \in Int /\ n \in Int
    BY <2>2
  <2>5. ~(Nth(k) < n) /\ ~(n < Nth(k))
    <3> DEFINE m == Nth(k)
    <3>1. m \in left /\ Cardinality(left \cap (1..m)) = Cardinality(left \cap (1..n))
      BY <2>2
    <3> HIDE DEF m, left
    <3>2. QED
      BY <3>1, <2>3 DEF m
  <2>6. Nth(k) = n
    BY <2>4, <2>5
  <2>7. QED
    BY <2>1, <2>6
<1>5. Without(list, S) = w
  BY DEF Without
<1> HIDE DEF Nth
<1>6. w \in Seq(T) /\ Len(w) = C /\ DOMAIN w = 1..C
  <2>1. \A k \in 1..C : list[Nth(k)] \in T
    BY <1>3, ElementOfSeq
  <2>2. w \in [1..C -> T]
    BY <2>1
  <2>3. QED
    BY <1>2, <2>2, IsASeq, LenProperties
<1> DEFINE place == [k \in 1..C |-> Nth(k)]
<1>7. /\ place \in [1..C -> 1..Len(list)]
      /\ \A k \in 1..C : list[place[k]] \notin S /\ w[k] = list[place[k]]
  BY <1>3
<1>8. ASSUME NEW a \in 1..C, NEW b \in 1..C, a < b PROVE place[a] < place[b]
  <2>1. /\ Nth(a) \in left /\ Cardinality(left \cap (1..Nth(a))) = a
        /\ Nth(b) \in left /\ Cardinality(left \cap (1..Nth(b))) = b
    BY <1>3
  <2>2. Nth(a) \in Int /\ Nth(b) \in Int
    BY <2>1
  <2> DEFINE A == left \cap (1..Nth(a))
             B == left \cap (1..Nth(b))
  <2>3. ASSUME Nth(b) <= Nth(a) PROVE FALSE
    <3>1. B \subseteq A
      BY <2>2, <2>3
    <3>2. IsFiniteSet(A) /\ Cardinality(A) = a /\ Cardinality(B) = b
      BY <1>2, <2>1, FS_Subset
    <3> HIDE DEF A, B, left, C
    <3>3. Cardinality(B) <= Cardinality(A)
      BY <3>1, <3>2, FS_Subset
    <3>4. QED
      BY <3>2, <3>3, <1>2, <1>8
  <2>4. QED
    BY <2>2, <2>3
<1>9. ASSUME NEW m \in 1..Len(list), list[m] \notin S PROVE \E k \in 1..C : place[k] = m
  <2>1. m \in left
    BY <1>9
  <2>2. PICK k \in 1..C : Nth(k) = m
    BY <1>4, <2>1
  <2>3. QED
    BY <2>2
<1> HIDE DEF place, w, C, left
<1>10. From(list, S, w, place)
  BY <1>2, <1>6, <1>7, <1>8, <1>9 DEF From
<1>11. QED
  BY <1>5, <1>6, <1>10

\* What is in the list then: none twice if none was.
LEMMA WithoutFacts ==
  ASSUME NEW T, NEW list \in Seq(T), NEW S
  PROVE  /\ Without(list, S) \in Seq(T)
         /\ ToSet(Without(list, S)) = ToSet(list) \ S
         /\ Distinct(list) => Distinct(Without(list, S))
<1> DEFINE w == Without(list, S)
<1>0. PICK place : w \in Seq(T) /\ From(list, S, w, place)
  BY WithoutPlaces
<1> DEFINE n == Len(w)
<1>1. /\ n \in Nat /\ place \in [1..n -> 1..Len(list)]
      /\ \A k \in 1..n : list[place[k]] \notin S /\ w[k] = list[place[k]]
      /\ \A a, b \in 1..n : a < b => place[a] < place[b]
      /\ \A m \in 1..Len(list) : list[m] \notin S => \E k \in 1..n : place[k] = m
  BY <1>0 DEF From
<1> HIDE DEF w
<1>2. DOMAIN list = 1..Len(list) /\ DOMAIN w = 1..n /\ Len(list) \in Nat
  BY <1>0, LenProperties
<1> HIDE DEF n
<1>3. ToSet(w) = ToSet(list) \ S
  <2>1. \A k \in 1..n : w[k] \in ToSet(list) \ S
    BY <1>1, <1>2 DEF ToSet
  <2>2. \A m \in 1..Len(list) : list[m] \notin S => list[m] \in ToSet(w)
    BY <1>1, <1>2 DEF ToSet
  <2>3. QED
    BY <1>2, <2>1, <2>2 DEF ToSet
<1>4. ASSUME Distinct(list), NEW a \in 1..n, NEW b \in 1..n, w[a] = w[b] PROVE a = b
  <2>1. place[a] = place[b] /\ place[a] \in Int
    BY <1>1, <1>4 DEF Distinct
  <2>2. ~(a < b) /\ ~(b < a)
    BY <1>1, <2>1
  <2>3. QED
    BY <2>2
<1>5. QED
  BY <1>0, <1>3, <1>4 DEF w, n, Distinct

LEMMA WithoutSorted ==
  ASSUME NEW T, NEW list \in Seq(T), NEW S, NEW R, Sorted(list, R)
  PROVE  Sorted(Without(list, S), R)
<1> DEFINE w == Without(list, S)
<1>0. PICK place : w \in Seq(T) /\ From(list, S, w, place)
  BY WithoutPlaces
<1> DEFINE n == Len(w)
<1>1. /\ n \in Nat /\ place \in [1..n -> 1..Len(list)]
      /\ \A k \in 1..n : list[place[k]] \notin S /\ w[k] = list[place[k]]
      /\ \A a, b \in 1..n : a < b => place[a] < place[b]
      /\ \A m \in 1..Len(list) : list[m] \notin S => \E k \in 1..n : place[k] = m
  BY <1>0 DEF From
<1> HIDE DEF w
<1>2. ASSUME NEW a \in 1..n, NEW b \in 1..n, a < b PROVE <<w[a], w[b]>> \in R
  <2>1. place[a] < place[b] /\ place[a] \in 1..Len(list) /\ place[b] \in 1..Len(list)
    BY <1>1, <1>2
  <2>2. <<list[place[a]], list[place[b]]>> \in R
    BY <2>1 DEF Sorted
  <2>3. QED
    BY <1>1, <2>2
<1>3. QED
  BY <1>2 DEF w, n, Sorted

\* The place behind the last of the jobs that list_add stops at: it is in the list.
Behind(S) == (IF S = {} THEN 0 ELSE Max(S)) + 1

LEMMA LastOf ==
  ASSUME NEW n \in Nat, NEW S \in SUBSET (1..n)
  PROVE  /\ Behind(S) \in 1..(n + 1) /\ (Behind(S) # 1 => Behind(S) - 1 \in S)
         /\ \A x \in S : x < Behind(S)
<1>1. ASSUME S # {} PROVE Max(S) \in S /\ \A y \in S : Max(S) >= y
  <2> DEFINE D == {n - x : x \in S}
  <2>1. D \in SUBSET Nat /\ D # {}
    <3>1. \A x \in S : n - x \in Nat
      OBVIOUS
    <3>2. QED
      BY <1>1, <3>1
  <2>2. PICK d \in D : \A e \in D : ~(<<e, d>> \in OpToRel(<, Nat))
    BY <2>1, WFMin, NatLessThanWellFounded
  <2>3. PICK x \in S : d = n - x
    OBVIOUS
  <2>4. \A y \in S : x >= y
    <3> TAKE y \in S
    <3>1. n - y \in D /\ n - y \in Nat /\ d \in Nat
      OBVIOUS
    <3>2. ~(n - y < d)
      BY <2>2, <3>1 DEF OpToRel
    <3>3. QED
      BY <3>2, <2>3
  <2>5. Max(S) \in S /\ \A y \in S : Max(S) >= y
    BY <2>4 DEF Max
  <2>6. QED
    BY <2>5
<1>2. CASE S = {}
  BY <1>2 DEF Behind
<1>3. CASE S # {}
  <2> DEFINE m == Max(S)
  <2>1. m \in S /\ (\A y \in S : m >= y) /\ Behind(S) = m + 1
    BY <1>1, <1>3 DEF Behind
  <2> HIDE DEF m
  <2>2. QED
    BY <2>1
<1>4. QED
  BY <1>2, <1>3

\* InsertAt puts a job between two others.
Inserted(r, list, i, e) ==
  /\ Len(list) \in Nat /\ Len(r) = Len(list) + 1
  /\ \A k \in 1..(Len(list) + 1) :
       r[k] = IF k < i THEN list[k] ELSE IF k = i THEN e ELSE list[k - 1]

LEMMA InsertPlaces ==
  ASSUME NEW T, NEW list \in Seq(T), NEW i \in 1..(Len(list) + 1), NEW e \in T
  PROVE  InsertAt(list, i, e) \in Seq(T) /\ Inserted(InsertAt(list, i, e), list, i, e)
<1> DEFINE a == SubSeq(list, 1, i - 1)
           b == SubSeq(list, i, Len(list))
           ae == a \o <<e>>
           r == ae \o b
           n == Len(list)
<1>1. n \in Nat /\ \A k \in 1..n : list[k] \in T
  BY LenProperties, ElementOfSeq
<1>2. a \in Seq(T) /\ Len(a) = i - 1 /\ \A k \in 1..(i - 1) : a[k] = list[k]
  <2>1. \A k \in 1..(i - 1) : list[k] \in T
    BY <1>1
  <2>2. 1 \in Int /\ i - 1 \in Int
    OBVIOUS
  <2>3. /\ a \in Seq(T)
        /\ Len(a) = IF 1 <= i - 1 THEN i - 1 - 1 + 1 ELSE 0
        /\ \A k \in 1..(i - 1 - 1 + 1) : a[k] = list[1 + k - 1]
    BY <2>1, <2>2, SubSeqProperties
  <2> HIDE DEF a
  <2>4. QED
    BY <2>3
<1>3. b \in Seq(T) /\ Len(b) = n - i + 1 /\ \A k \in 1..(n - i + 1) : b[k] = list[i + k - 1]
  <2>1. \A k \in i..n : list[k] \in T
    BY <1>1
  <2>2. n \in Int /\ i \in Int
    BY <1>1
  <2>3. /\ b \in Seq(T)
        /\ Len(b) = IF i <= n THEN n - i + 1 ELSE 0
        /\ \A k \in 1..(n - i + 1) : b[k] = list[i + k - 1]
    BY <2>1, <2>2, SubSeqProperties
  <2> HIDE DEF b, n
  <2>4. QED
    BY <2>3, <1>1 DEF n
<1>4. <<e>> \in Seq(T) /\ Len(<<e>>) = 1 /\ <<e>>[1] = e
  OBVIOUS
<1> HIDE DEF a, b, n
<1>5. /\ ae \in Seq(T) /\ Len(ae) = i
      /\ \A k \in 1..i : ae[k] = IF k < i THEN list[k] ELSE e
  <2>1. /\ ae \in Seq(T) /\ Len(ae) = Len(a) + Len(<<e>>)
        /\ \A k \in 1..(Len(a) + Len(<<e>>)) : ae[k] = IF k <= Len(a) THEN a[k] ELSE <<e>>[k - Len(a)]
    BY <1>2, <1>4, ConcatProperties
  <2> HIDE DEF ae
  <2>2. QED
    BY <2>1, <1>2, <1>4
<1> HIDE DEF ae
<1>6. /\ r \in Seq(T) /\ Len(r) = n + 1
      /\ \A k \in 1..(n + 1) :
           r[k] = IF k < i THEN list[k] ELSE IF k = i THEN e ELSE list[k - 1]
  <2>1. /\ r \in Seq(T) /\ Len(r) = Len(ae) + Len(b)
        /\ \A k \in 1..(Len(ae) + Len(b)) : r[k] = IF k <= Len(ae) THEN ae[k] ELSE b[k - Len(ae)]
    BY <1>3, <1>5, ConcatProperties
  <2> HIDE DEF r
  <2>2. QED
    BY <2>1, <1>1, <1>3, <1>5 DEF n
<1>7. InsertAt(list, i, e) = r
  BY DEF InsertAt, r, ae, a, b, n
<1> HIDE DEF r
<1>8. Inserted(r, list, i, e)
  BY <1>1, <1>6 DEF n, Inserted
<1>9. QED
  BY <1>6, <1>7, <1>8

\* The list has the jobs it had and the new one, none twice,
LEMMA InsertFacts ==
  ASSUME NEW T, NEW list \in Seq(T), NEW i \in 1..(Len(list) + 1), NEW e \in T
  PROVE  /\ InsertAt(list, i, e) \in Seq(T)
         /\ ToSet(InsertAt(list, i, e)) = ToSet(list) \cup {e}
         /\ Distinct(list) /\ e \notin ToSet(list) => Distinct(InsertAt(list, i, e))
<1> DEFINE r == InsertAt(list, i, e)
           n == Len(list)
<1>0. r \in Seq(T) /\ Inserted(r, list, i, e)
  BY InsertPlaces
<1>1. n \in Nat /\ \A k \in 1..n : list[k] \in T
  BY LenProperties, ElementOfSeq
<1>2. /\ r \in Seq(T) /\ Len(r) = n + 1
      /\ \A k \in 1..(n + 1) :
           r[k] = IF k < i THEN list[k] ELSE IF k = i THEN e ELSE list[k - 1]
  BY <1>0 DEF Inserted
<1> HIDE DEF r, n
<1>3. DOMAIN list = 1..n /\ DOMAIN r = 1..(n + 1)
  BY <1>2, LenProperties DEF n
<1>4. ToSet(r) = ToSet(list) \cup {e}
  <2>1. ASSUME NEW k \in 1..(n + 1) PROVE r[k] \in ToSet(list) \cup {e}
    <3>1. k < i => k \in 1..n
      BY <1>1 DEF n
    <3>2. k > i => k - 1 \in 1..n
      BY <1>1 DEF n
    <3>3. QED
      BY <1>1, <1>2, <1>3, <3>1, <3>2 DEF ToSet
  <2>2. ASSUME NEW k \in 1..n PROVE \E m \in 1..(n + 1) : r[m] = list[k]
    <3>1. CASE k < i
      BY <3>1, <1>1, <1>2
    <3>2. CASE k >= i
      <4>1. k + 1 \in 1..(n + 1) /\ ~(k + 1 < i) /\ k + 1 # i /\ (k + 1) - 1 = k
        BY <3>2, <1>1
      <4>2. r[k + 1] = list[k]
        BY <4>1, <1>2
      <4>3. QED
        BY <4>1, <4>2
    <3>3. QED
      BY <3>1, <3>2, <1>1
  <2>3. i \in 1..(n + 1) /\ r[i] = e
    BY <1>2 DEF n
  <2>4. QED
    BY <2>1, <2>2, <2>3, <1>3 DEF ToSet
<1>5. ASSUME Distinct(list), e \notin ToSet(list) PROVE Distinct(r)
  <2> SUFFICES ASSUME NEW k \in 1..(n + 1), NEW m \in 1..(n + 1), r[k] = r[m] PROVE k = m
    BY <1>2 DEF Distinct
  <2>1. \A p \in 1..n : list[p] # e
    BY <1>3, <1>5 DEF ToSet
  <2>2. \A p, q \in 1..n : list[p] = list[q] => p = q
    BY <1>5 DEF Distinct, n
  <2> DEFINE at(p) == IF p < i THEN p ELSE p - 1
  <2>3. (k # i => at(k) \in 1..n /\ r[k] = list[at(k)]) /\ (m # i => at(m) \in 1..n /\ r[m] = list[at(m)])
    BY <1>1, <1>2 DEF n
  <2>4. r[i] = e
    BY <1>2 DEF n
  <2>5. CASE k = i \/ m = i
    BY <2>1, <2>3, <2>4, <2>5
  <2>6. CASE k # i /\ m # i
    <3>1. at(k) = at(m)
      BY <2>2, <2>3, <2>6
    <3>2. QED
      BY <3>1, <2>6, <1>1 DEF n
  <2>7. QED
    BY <2>5, <2>6
<1>6. QED
  BY <1>2, <1>4, <1>5 DEF r

\* and is in order if the new one comes after those in front and before those behind.
LEMMA InsertSorted ==
  ASSUME NEW T, NEW list \in Seq(T), NEW i \in 1..(Len(list) + 1), NEW e \in T, NEW R,
         Sorted(list, R),
         \A k \in 1..Len(list) : k < i => <<list[k], e>> \in R,
         \A k \in 1..Len(list) : i <= k => <<e, list[k]>> \in R
  PROVE  Sorted(InsertAt(list, i, e), R)
<1> DEFINE r == InsertAt(list, i, e)
           n == Len(list)
<1>0. r \in Seq(T) /\ Inserted(r, list, i, e)
  BY InsertPlaces
<1>1. /\ n \in Nat /\ Len(r) = n + 1
      /\ \A k \in 1..(n + 1) :
           r[k] = IF k < i THEN list[k] ELSE IF k = i THEN e ELSE list[k - 1]
  BY <1>0 DEF Inserted
<1>2. /\ \A k \in 1..n : k < i => <<list[k], e>> \in R
      /\ \A k \in 1..n : i <= k => <<e, list[k]>> \in R
      /\ \A a, b \in 1..n : a < b => <<list[a], list[b]>> \in R
  BY DEF Sorted
<1>3. i \in 1..(n + 1)
  OBVIOUS
<1> HIDE DEF r, n
<1>4. ASSUME NEW a \in 1..(n + 1), NEW b \in 1..(n + 1), a < b PROVE <<r[a], r[b]>> \in R
  <2>1. CASE b < i
    <3>1. r[a] = list[a] /\ r[b] = list[b] /\ a \in 1..n /\ b \in 1..n
      BY <1>1, <1>3, <1>4, <2>1
    <3>2. QED
      BY <1>2, <1>4, <3>1
  <2>2. CASE b = i
    <3>1. r[a] = list[a] /\ r[b] = e /\ a \in 1..n /\ a < i
      BY <1>1, <1>3, <1>4, <2>2
    <3>2. QED
      BY <1>2, <3>1
  <2>3. CASE i < b /\ a < i
    <3>1. r[a] = list[a] /\ r[b] = list[b - 1] /\ a \in 1..n /\ b - 1 \in 1..n /\ a < b - 1
      BY <1>1, <1>3, <1>4, <2>3
    <3>2. QED
      BY <1>2, <3>1
  <2>4. CASE i < b /\ a = i
    <3>1. r[a] = e /\ r[b] = list[b - 1] /\ b - 1 \in 1..n /\ i <= b - 1
      BY <1>1, <1>3, <1>4, <2>4
    <3>2. QED
      BY <1>2, <3>1
  <2>5. CASE i < b /\ i < a
    <3>1. /\ r[a] = list[a - 1] /\ r[b] = list[b - 1]
          /\ a - 1 \in 1..n /\ b - 1 \in 1..n /\ a - 1 < b - 1
      BY <1>1, <1>3, <1>4, <2>5
    <3>2. QED
      BY <1>2, <3>1
  <2>6. QED
    BY <1>1, <1>3, <2>1, <2>2, <2>3, <2>4, <2>5
<1>5. QED
  BY <1>1, <1>4 DEF r, Sorted

\* Tail and Append, likewise.
LEMMA TailFacts ==
  ASSUME NEW T, NEW list \in Seq(T), list # <<>>
  PROVE  /\ Head(list) \in ToSet(list) /\ Tail(list) \in Seq(T)
         /\ ToSet(Tail(list)) \subseteq ToSet(list)
         /\ ToSet(list) = ToSet(Tail(list)) \cup {Head(list)}
         /\ Distinct(list) => Distinct(Tail(list)) /\ Head(list) \notin ToSet(Tail(list))
<1>1. Len(list) \in Nat /\ Len(list) # 0 /\ DOMAIN list = 1..Len(list)
  BY LenProperties, EmptySeq
<1>2. /\ Tail(list) \in Seq(T) /\ Len(Tail(list)) = Len(list) - 1
      /\ \A i \in 1..Len(Tail(list)) : Tail(list)[i] = list[i + 1]
  BY HeadTailProperties
<1>3. Head(list) = list[1] /\ DOMAIN Tail(list) = 1..(Len(list) - 1)
  BY <1>2, LenProperties
<1>4. \A i \in 1..(Len(list) - 1) : i + 1 \in 1..Len(list) /\ Tail(list)[i] = list[i + 1] /\ i + 1 # 1
  BY <1>1, <1>2
<1>5. \A i \in 1..Len(list) : i = 1 \/ (i - 1 \in 1..(Len(list) - 1) /\ Tail(list)[i - 1] = list[i])
  <2> TAKE i \in 1..Len(list)
  <2>1. CASE i # 1
    <3>1. i - 1 \in 1..(Len(list) - 1) /\ (i - 1) + 1 = i
      BY <2>1, <1>1
    <3>2. QED
      BY <3>1, <1>4
  <2>2. QED
    BY <2>1
<1>6. 1 \in 1..Len(list)
  BY <1>1
<1>7. ToSet(list) = ToSet(Tail(list)) \cup {Head(list)}
  <2>1. \A x \in ToSet(list) : x \in ToSet(Tail(list)) \cup {Head(list)}
    BY <1>1, <1>3, <1>5 DEF ToSet
  <2>2. \A x \in ToSet(Tail(list)) : x \in ToSet(list)
    BY <1>1, <1>3, <1>4 DEF ToSet
  <2>3. Head(list) \in ToSet(list)
    BY <1>1, <1>3, <1>6 DEF ToSet
  <2>4. QED
    BY <2>1, <2>2, <2>3
<1>8. ASSUME Distinct(list) PROVE Distinct(Tail(list)) /\ Head(list) \notin ToSet(Tail(list))
  <2>1. ASSUME NEW a \in 1..Len(Tail(list)), NEW b \in 1..Len(Tail(list)), Tail(list)[a] = Tail(list)[b]
        PROVE  a = b
    <3>1. a + 1 = b + 1
      BY <2>1, <1>2, <1>4, <1>8 DEF Distinct
    <3>2. QED
      BY <3>1, <1>1, <1>2
  <2>2. \A i \in 1..(Len(list) - 1) : Tail(list)[i] # Head(list)
    BY <1>3, <1>4, <1>6, <1>8 DEF Distinct
  <2>3. QED
    BY <2>1, <2>2, <1>3 DEF ToSet, Distinct
<1>9. QED
  BY <1>2, <1>7, <1>8

LEMMA TailSorted ==
  ASSUME NEW T, NEW list \in Seq(T), list # <<>>, NEW R, Sorted(list, R)
  PROVE  Sorted(Tail(list), R)
<1>1. Len(list) \in Nat /\ Len(list) # 0
  BY LenProperties, EmptySeq
<1>2. Len(Tail(list)) = Len(list) - 1 /\ \A i \in 1..Len(Tail(list)) : Tail(list)[i] = list[i + 1]
  BY HeadTailProperties
<1>3. ASSUME NEW a \in 1..Len(Tail(list)), NEW b \in 1..Len(Tail(list)), a < b
      PROVE  <<Tail(list)[a], Tail(list)[b]>> \in R
  <2>1. a + 1 \in 1..Len(list) /\ b + 1 \in 1..Len(list) /\ a + 1 < b + 1
    BY <1>1, <1>2, <1>3
  <2>2. <<list[a + 1], list[b + 1]>> \in R
    BY <2>1 DEF Sorted
  <2>3. QED
    BY <1>2, <2>2
<1>4. QED
  BY <1>3 DEF Sorted

LEMMA AppendFacts ==
  ASSUME NEW T, NEW list \in Seq(T), NEW e \in T
  PROVE  /\ Append(list, e) \in Seq(T)
         /\ ToSet(Append(list, e)) = ToSet(list) \cup {e}
         /\ Distinct(list) /\ e \notin ToSet(list) => Distinct(Append(list, e))
<1> DEFINE r == Append(list, e)
           n == Len(list)
<1>1. n \in Nat /\ DOMAIN list = 1..n
  BY LenProperties
<1>2. /\ r \in Seq(T) /\ Len(r) = n + 1
      /\ \A i \in 1..n : r[i] = list[i]
      /\ r[n + 1] = e
  BY AppendProperties
<1>3. DOMAIN r = 1..(n + 1)
  BY <1>2, LenProperties
<1> HIDE DEF r, n
<1>4. ToSet(r) = ToSet(list) \cup {e}
  <2>1. \A i \in 1..(n + 1) : i \in 1..n \/ i = n + 1
    BY <1>1
  <2>2. n + 1 \in 1..(n + 1) /\ 1..n \subseteq 1..(n + 1)
    BY <1>1
  <2>3. QED
    BY <1>1, <1>2, <1>3, <2>1, <2>2 DEF ToSet
<1>5. ASSUME Distinct(list), e \notin ToSet(list) PROVE Distinct(r)
  <2>1. \A i \in 1..n : list[i] # e
    BY <1>1, <1>5 DEF ToSet
  <2>2. \A i \in 1..(n + 1) : i \in 1..n \/ i = n + 1
    BY <1>1
  <2>3. \A p, q \in 1..n : list[p] = list[q] => p = q
    BY <1>5 DEF Distinct, n
  <2>4. QED
    BY <1>2, <2>1, <2>2, <2>3 DEF Distinct
<1>6. QED
  BY <1>2, <1>4, <1>5 DEF r

-----------------------------------------------------------------------------
(* Types *)

JobRec ==
  [at : Places, nr : Nat, started : Nat, completed : Int, held : BOOLEAN, error : BOOLEAN,
   released : Nat, ended : Nat, told : Nat, notify : BOOLEAN, fb : BOOLEAN, wb : BOOLEAN]

Phases ==
  {"open", "aborting", "marked", "removing", "executor", "timeline", "flushing", "closed"}

\* The depth of the PP queue is a sum: Tally says what it is.
Depths(d) == d = [gp |-> d.gp, pp |-> d.pp] /\ d.gp \in Int

LEMMA DepthsFacts ==
  ASSUME NEW d, Depths(d), NEW n
  PROVE  /\ Depths([d EXCEPT !.pp = n]) /\ [d EXCEPT !.pp = n].gp = d.gp
         /\ n \in Int => Depths([d EXCEPT !.gp = n]) /\ [d EXCEPT !.gp = n].gp = n
<1>1. PICK a, b : d = [gp |-> a, pp |-> b] /\ a \in Int
  BY DEF Depths
<1>2. [d EXCEPT !.pp = n] = [gp |-> a, pp |-> n]
  BY <1>1
<1>3. [d EXCEPT !.gp = n] = [gp |-> n, pp |-> b]
  BY <1>1
<1>4. QED
  BY <1>1, <1>2, <1>3 DEF Depths

LEMMA GpDepthFacts ==
  ASSUME NEW d, Depths(d), NEW n \in Int
  PROVE  Depths([d EXCEPT !.gp = n]) /\ [d EXCEPT !.gp = n].gp = n
<1> QED
  BY DepthsFacts

\* What is true of the variables with Races, too.
Types ==
  /\ job \in [Jobs -> JobRec] /\ numbered \in Nat
  /\ gp \in [Priorities -> Seq(GpJobs)] /\ pp \in [Priorities -> Seq(PpJobs)]
  /\ mapping \in Seq(DmaBuf) /\ deferred \in Seq(DmaBuf)
  /\ removed \in SUBSET Jobs /\ ending \in SUBSET Jobs /\ deleting \in SUBSET PpJobs
  /\ running \in [Groups -> Jobs \cup {None}]
  /\ running["gp"] \in GpJobs \cup {None}
  /\ \A g \in Groups \ {"gp"} : running[g] \in PpJobs \cup {None}
  /\ done = None \/ done \in [job : PpJobs, step : {"release", "check"}]
  /\ lock \in Sessions \cup {None}
  /\ session \in [Sessions -> [phase : Phases, high : BOOLEAN]]
  /\ Depths(depth) /\ bigNum \in Int /\ devRefs \in Int

USE JobsAssumption, NoneAssumption, SubJobsAssumption, PartnerAssumption, CoresAssumption

LEMMA NumType == \A j \in Jobs : Num(j) \in Nat \ {0}
BY DEF Num, Jobs

\* Two states of a job that differ in what concerns its tracker, if at all.
Alike(r, q) ==
  /\ r.at = q.at /\ r.nr = q.nr /\ r.started = q.started /\ r.completed = q.completed
  /\ r.released = q.released /\ r.ended = q.ended /\ r.told = q.told
  /\ r.notify = q.notify /\ r.fb = q.fb /\ r.wb = q.wb

LEMMA SignalFacts ==
  ASSUME NEW js \in [Jobs -> JobRec], NEW g \in GpJobs, NEW failed \in BOOLEAN
  PROVE  /\ SignalPpTracker(js, g, failed) \in [Jobs -> JobRec]
         /\ \A k \in Jobs : Alike(SignalPpTracker(js, g, failed)[k], js[k])
<1>1. CASE ~Holds(js, g)
  BY <1>1 DEF SignalPpTracker, Alike
<1>2. CASE Holds(js, g)
  <2> DEFINE p == Partner[g]
             e == js[p].error \/ failed
             r == [js[p] EXCEPT !.held = FALSE, !.error = e]
             q == [js EXCEPT ![p] = r]
  <2>1. p \in Jobs /\ e \in BOOLEAN
    BY <1>2 DEF Holds, Jobs
  <2>2. SignalPpTracker(js, g, failed) = q
    BY <1>2 DEF SignalPpTracker
  <2> HIDE DEF e, p
  <2>3. r \in JobRec /\ Alike(r, js[p])
    <3>1. js[p] \in JobRec
      BY <2>1
    <3>2. r \in JobRec
      BY <2>1, <3>1 DEF JobRec
    <3>3. Alike(r, js[p])
      BY <3>1 DEF JobRec, Alike
    <3>4. QED
      BY <3>2, <3>3
  <2> HIDE DEF r
  <2>4. q \in [Jobs -> JobRec] /\ q[p] = r /\ \A k \in Jobs \ {p} : q[k] = js[k]
    BY <2>1, <2>3
  <2> HIDE DEF q
  <2>5. \A k \in Jobs : Alike(q[k], js[k])
    BY <2>3, <2>4 DEF Alike
  <2>6. QED
    BY <2>2, <2>4, <2>5
<1>3. QED
  BY <1>1, <1>2

LEMMA DeletedFacts ==
  ASSUME NEW r \in JobRec, NEW told \in BOOLEAN
  PROVE  LET q == Deleted(r, told)
         IN  /\ q \in JobRec /\ q.at = "deleted" /\ q.started = 0 /\ q.completed = 0
             /\ q.released = r.released /\ q.ended = r.ended /\ q.notify = r.notify
             /\ q.told = r.told + (IF told THEN 1 ELSE 0) /\ q.fb = r.fb
<1> DEFINE n == r.told + (IF told THEN 1 ELSE 0)
           a == [NewJob EXCEPT !.at = "deleted", !.released = r.released, !.ended = r.ended]
           b == [a EXCEPT !.notify = r.notify, !.told = n, !.held = r.held, !.fb = r.fb]
<1>1. n \in Nat
  BY DEF JobRec
<1>2. Deleted(r, told) = b
  BY DEF Deleted
<1>3. /\ r.held \in BOOLEAN /\ r.released \in Nat /\ r.ended \in Nat
      /\ r.notify \in BOOLEAN /\ r.fb \in BOOLEAN
  BY DEF JobRec
<1> HIDE DEF n
<1>4. NewJob \in JobRec /\ NewJob.started = 0 /\ NewJob.completed = 0
  BY DEF NewJob, JobRec, Places
<1>5. /\ a \in JobRec /\ a.at = "deleted" /\ a.started = 0 /\ a.completed = 0
      /\ a.released = r.released /\ a.ended = r.ended
  BY <1>3, <1>4 DEF JobRec, Places
<1> HIDE DEF a
<1>6. b \in JobRec
  BY <1>1, <1>3, <1>5 DEF JobRec
<1>7. /\ b.at = "deleted" /\ b.started = 0 /\ b.completed = 0
      /\ b.released = r.released /\ b.ended = r.ended /\ b.notify = r.notify
      /\ b.told = n /\ b.fb = r.fb
  BY <1>5 DEF JobRec
<1>8. QED
  BY <1>2, <1>6, <1>7 DEF n

\* The job j was completed between js and q, its tracker released n times.
Ended(q, js, j, n, notify) ==
  /\ q \in [Jobs -> JobRec]
  /\ \A k \in Jobs \ {j} : Alike(q[k], js[k])
  /\ q[j].released = js[j].released + n /\ q[j].ended = js[j].ended + 1
  /\ q[j].notify = notify /\ q[j].fb = js[j].fb
  /\ j \in GpJobs => /\ q[j].at = "deleted" /\ q[j].started = 0 /\ q[j].completed = 0
                     /\ q[j].told = js[j].told + (IF notify THEN 1 ELSE 0)
  /\ j \in PpJobs => /\ q[j].at = "deleting" /\ q[j].told = js[j].told
                     /\ q[j].started = js[j].started /\ q[j].completed = js[j].completed
                     /\ q[j].wb = js[j].wb

LEMMA CompleteFacts ==
  ASSUME NEW js \in [Jobs -> JobRec], NEW j \in Jobs, NEW notify \in BOOLEAN
  PROVE  Ended(Complete(js, j, notify), js, j, 0, notify)
<1> DEFINE n == js[j].ended + 1
           over == [js[j] EXCEPT !.at = "deleting", !.ended = n, !.notify = notify]
           r == IF j \in GpJobs THEN Deleted(over, notify) ELSE over
           q == [js EXCEPT ![j] = r]
<1>1. js[j] \in JobRec /\ n \in Nat /\ js[j].released \in Nat
  BY DEF JobRec
<1>2. Complete(js, j, notify) = q
  BY DEF Complete
<1> HIDE DEF n
<1>3. /\ over \in JobRec /\ over.at = "deleting" /\ over.ended = n /\ over.notify = notify
      /\ over.started = js[j].started /\ over.completed = js[j].completed
      /\ over.released = js[j].released /\ over.told = js[j].told
      /\ over.fb = js[j].fb /\ over.wb = js[j].wb
  BY <1>1 DEF JobRec, Places
<1> HIDE DEF over
<1>4. CASE j \in GpJobs
  <2>1. r = Deleted(over, notify)
    BY <1>4
  <2>2. /\ r \in JobRec /\ r.at = "deleted" /\ r.started = 0 /\ r.completed = 0
        /\ r.released = over.released /\ r.ended = over.ended /\ r.notify = over.notify
        /\ r.told = over.told + (IF notify THEN 1 ELSE 0) /\ r.fb = over.fb
    BY <1>3, <2>1, DeletedFacts
  <2> HIDE DEF r
  <2>3. q \in [Jobs -> JobRec] /\ q[j] = r /\ \A k \in Jobs \ {j} : q[k] = js[k]
    BY <2>2
  <2> HIDE DEF q
  <2>4. Ended(q, js, j, 0, notify)
    BY <1>1, <1>3, <1>4, <2>2, <2>3 DEF n, Ended, Alike
  <2>5. QED
    BY <1>2, <2>4
<1>5. CASE j \notin GpJobs
  <2>1. r = over
    BY <1>5
  <2> HIDE DEF r
  <2>2. q \in [Jobs -> JobRec] /\ q[j] = over /\ \A k \in Jobs \ {j} : q[k] = js[k]
    BY <1>3, <2>1
  <2> HIDE DEF q
  <2>3. Ended(q, js, j, 0, notify)
    BY <1>1, <1>3, <1>5, <2>2 DEF n, Ended, Alike
  <2>4. QED
    BY <1>2, <2>3
<1>6. QED
  BY <1>4, <1>5

LEMMA MarkFacts ==
  ASSUME NEW r \in JobRec, NEW n \in Nat
  PROVE  LET q == MarkUnstartedFailed(r, n)
         IN  /\ q \in JobRec /\ q.started = n /\ q.completed = r.completed + (n - r.started)
             /\ q.at = r.at /\ q.released = r.released /\ q.ended = r.ended /\ q.told = r.told
             /\ q.nr = r.nr /\ q.notify = r.notify /\ q.fb = r.fb /\ q.wb = r.wb
<1> DEFINE c == r.completed + (n - r.started)
           q == [r EXCEPT !.started = n, !.completed = c]
<1>1. c \in Int
  BY DEF JobRec
<1>2. MarkUnstartedFailed(r, n) = q
  BY DEF MarkUnstartedFailed
<1> HIDE DEF c
<1>3. /\ q \in JobRec /\ q.started = n /\ q.completed = c
      /\ q.at = r.at /\ q.released = r.released /\ q.ended = r.ended /\ q.told = r.told
      /\ q.nr = r.nr /\ q.notify = r.notify /\ q.fb = r.fb /\ q.wb = r.wb
  BY <1>1 DEF JobRec
<1>4. QED
  BY <1>2, <1>3 DEF c

\* Two states of a job that have the same counts.
SameCounts(r, q) ==
  /\ r.started = q.started /\ r.completed = q.completed /\ r.released = q.released
  /\ r.ended = q.ended /\ r.told = q.told /\ r.notify = q.notify

\* The other jobs are as they were.
Others(j) == \A k \in Jobs \ {j} : job'[k] = job[k]

Records(js) == js \in [Jobs -> JobRec]
Elsewhere(q, js, j) == \A k \in Jobs \ {j} : q[k] = js[k]

\* One field of the job j is set, and what is true of every job then.
WithAt(js, j, v) == [js EXCEPT ![j].at = v]
SetsAt(q, js, j, v) ==
  /\ Elsewhere(q, js, j) /\ q[j].at = v
  /\ SameCounts(q[j], js[j]) /\ q[j].fb = js[j].fb /\ q[j].wb = js[j].wb
  /\ q[j].nr = js[j].nr

WithNr(js, j, v) == [js EXCEPT ![j].nr = v]
SetsNr(q, js, j, v) ==
  /\ Elsewhere(q, js, j) /\ q[j].nr = v
  /\ SameCounts(q[j], js[j]) /\ q[j].at = js[j].at /\ q[j].fb = js[j].fb
  /\ q[j].wb = js[j].wb

WithHeld(js, j, v) == [js EXCEPT ![j].held = v]
SetsHeld(q, js, j, v) ==
  /\ Elsewhere(q, js, j) /\ q[j].held = v
  /\ SameCounts(q[j], js[j]) /\ q[j].at = js[j].at /\ q[j].fb = js[j].fb
  /\ q[j].wb = js[j].wb /\ q[j].nr = js[j].nr

WithFb(js, j, v) == [js EXCEPT ![j].fb = v]
SetsFb(q, js, j, v) ==
  /\ Elsewhere(q, js, j) /\ q[j].fb = v
  /\ SameCounts(q[j], js[j]) /\ q[j].at = js[j].at /\ q[j].wb = js[j].wb
  /\ q[j].nr = js[j].nr

WithStarted(js, j, v) == [js EXCEPT ![j].started = v]
SetsStarted(q, js, j, v) ==
  /\ Elsewhere(q, js, j) /\ q[j].started = v
  /\ q[j].completed = js[j].completed /\ q[j].released = js[j].released
  /\ q[j].ended = js[j].ended /\ q[j].told = js[j].told /\ q[j].notify = js[j].notify
  /\ q[j].at = js[j].at /\ q[j].fb = js[j].fb /\ q[j].wb = js[j].wb
  /\ q[j].nr = js[j].nr

WithCompleted(js, j, v) == [js EXCEPT ![j].completed = v]
SetsCompleted(q, js, j, v) ==
  /\ Elsewhere(q, js, j) /\ q[j].completed = v
  /\ q[j].started = js[j].started /\ q[j].released = js[j].released
  /\ q[j].ended = js[j].ended /\ q[j].told = js[j].told /\ q[j].notify = js[j].notify
  /\ q[j].at = js[j].at /\ q[j].fb = js[j].fb /\ q[j].wb = js[j].wb
  /\ q[j].nr = js[j].nr

WithReleased(js, j, v) == [js EXCEPT ![j].released = v]
SetsReleased(q, js, j, v) ==
  /\ Elsewhere(q, js, j) /\ q[j].released = v
  /\ q[j].started = js[j].started /\ q[j].completed = js[j].completed
  /\ q[j].ended = js[j].ended /\ q[j].told = js[j].told /\ q[j].notify = js[j].notify
  /\ q[j].at = js[j].at /\ q[j].fb = js[j].fb /\ q[j].wb = js[j].wb
  /\ q[j].nr = js[j].nr

WithNotify(js, j, v) == [js EXCEPT ![j].notify = v]
SetsNotify(q, js, j, v) ==
  /\ Elsewhere(q, js, j) /\ q[j].notify = v
  /\ q[j].started = js[j].started /\ q[j].completed = js[j].completed
  /\ q[j].released = js[j].released /\ q[j].ended = js[j].ended
  /\ q[j].told = js[j].told /\ q[j].at = js[j].at /\ q[j].fb = js[j].fb
  /\ q[j].wb = js[j].wb /\ q[j].nr = js[j].nr

LEMMA SetAt ==
  ASSUME NEW js, Records(js), NEW j \in Jobs, NEW v \in Places
  PROVE  Records(WithAt(js, j, v)) /\ SetsAt(WithAt(js, j, v), js, j, v)
<1> DEFINE r == [js[j] EXCEPT !.at = v]
           q == [js EXCEPT ![j] = r]
<1>1. js[j] \in JobRec
  BY DEF Records
<1>2. r \in JobRec /\ r.at = v
  BY <1>1 DEF JobRec
<1>3. /\ SameCounts(r, js[j]) /\ r.fb = js[j].fb /\ r.wb = js[j].wb /\ r.nr = js[j].nr
  BY <1>1 DEF JobRec, SameCounts
<1>4. WithAt(js, j, v) = q
  BY DEF WithAt
<1> HIDE DEF r
<1>5. q[j] = r /\ Records(q) /\ Elsewhere(q, js, j)
  BY <1>2 DEF Records, Elsewhere
<1> HIDE DEF q
<1>6. QED
  BY <1>2, <1>3, <1>4, <1>5 DEF SetsAt

LEMMA SetNr ==
  ASSUME NEW js, Records(js), NEW j \in Jobs, NEW v \in Nat
  PROVE  Records(WithNr(js, j, v)) /\ SetsNr(WithNr(js, j, v), js, j, v)
<1> DEFINE r == [js[j] EXCEPT !.nr = v]
           q == [js EXCEPT ![j] = r]
<1>1. js[j] \in JobRec
  BY DEF Records
<1>2. r \in JobRec /\ r.nr = v
  BY <1>1 DEF JobRec
<1>3. /\ SameCounts(r, js[j]) /\ r.at = js[j].at /\ r.fb = js[j].fb /\ r.wb = js[j].wb
  BY <1>1 DEF JobRec, SameCounts
<1>4. WithNr(js, j, v) = q
  BY DEF WithNr
<1> HIDE DEF r
<1>5. q[j] = r /\ Records(q) /\ Elsewhere(q, js, j)
  BY <1>2 DEF Records, Elsewhere
<1> HIDE DEF q
<1>6. QED
  BY <1>2, <1>3, <1>4, <1>5 DEF SetsNr

LEMMA SetHeld ==
  ASSUME NEW js, Records(js), NEW j \in Jobs, NEW v \in BOOLEAN
  PROVE  Records(WithHeld(js, j, v)) /\ SetsHeld(WithHeld(js, j, v), js, j, v)
<1> DEFINE r == [js[j] EXCEPT !.held = v]
           q == [js EXCEPT ![j] = r]
<1>1. js[j] \in JobRec
  BY DEF Records
<1>2. r \in JobRec /\ r.held = v
  BY <1>1 DEF JobRec
<1>3. /\ SameCounts(r, js[j]) /\ r.at = js[j].at /\ r.fb = js[j].fb /\ r.wb = js[j].wb
      /\ r.nr = js[j].nr
  BY <1>1 DEF JobRec, SameCounts
<1>4. WithHeld(js, j, v) = q
  BY DEF WithHeld
<1> HIDE DEF r
<1>5. q[j] = r /\ Records(q) /\ Elsewhere(q, js, j)
  BY <1>2 DEF Records, Elsewhere
<1> HIDE DEF q
<1>6. QED
  BY <1>2, <1>3, <1>4, <1>5 DEF SetsHeld

LEMMA SetFb ==
  ASSUME NEW js, Records(js), NEW j \in Jobs, NEW v \in BOOLEAN
  PROVE  Records(WithFb(js, j, v)) /\ SetsFb(WithFb(js, j, v), js, j, v)
<1> DEFINE r == [js[j] EXCEPT !.fb = v]
           q == [js EXCEPT ![j] = r]
<1>1. js[j] \in JobRec
  BY DEF Records
<1>2. r \in JobRec /\ r.fb = v
  BY <1>1 DEF JobRec
<1>3. /\ SameCounts(r, js[j]) /\ r.at = js[j].at /\ r.wb = js[j].wb /\ r.nr = js[j].nr
  BY <1>1 DEF JobRec, SameCounts
<1>4. WithFb(js, j, v) = q
  BY DEF WithFb
<1> HIDE DEF r
<1>5. q[j] = r /\ Records(q) /\ Elsewhere(q, js, j)
  BY <1>2 DEF Records, Elsewhere
<1> HIDE DEF q
<1>6. QED
  BY <1>2, <1>3, <1>4, <1>5 DEF SetsFb

LEMMA SetStarted ==
  ASSUME NEW js, Records(js), NEW j \in Jobs, NEW v \in Nat
  PROVE  Records(WithStarted(js, j, v)) /\ SetsStarted(WithStarted(js, j, v), js, j, v)
<1> DEFINE r == [js[j] EXCEPT !.started = v]
           q == [js EXCEPT ![j] = r]
<1>1. js[j] \in JobRec
  BY DEF Records
<1>2. r \in JobRec /\ r.started = v
  BY <1>1 DEF JobRec
<1>3. /\ r.completed = js[j].completed /\ r.released = js[j].released
      /\ r.ended = js[j].ended /\ r.told = js[j].told /\ r.notify = js[j].notify
      /\ r.at = js[j].at /\ r.fb = js[j].fb /\ r.wb = js[j].wb /\ r.nr = js[j].nr
  BY <1>1 DEF JobRec, SameCounts
<1>4. WithStarted(js, j, v) = q
  BY DEF WithStarted
<1> HIDE DEF r
<1>5. q[j] = r /\ Records(q) /\ Elsewhere(q, js, j)
  BY <1>2 DEF Records, Elsewhere
<1> HIDE DEF q
<1>6. QED
  BY <1>2, <1>3, <1>4, <1>5 DEF SetsStarted

LEMMA SetCompleted ==
  ASSUME NEW js, Records(js), NEW j \in Jobs, NEW v \in Int
  PROVE  Records(WithCompleted(js, j, v)) /\ SetsCompleted(WithCompleted(js, j, v), js, j, v)
<1> DEFINE r == [js[j] EXCEPT !.completed = v]
           q == [js EXCEPT ![j] = r]
<1>1. js[j] \in JobRec
  BY DEF Records
<1>2. r \in JobRec /\ r.completed = v
  BY <1>1 DEF JobRec
<1>3. /\ r.started = js[j].started /\ r.released = js[j].released
      /\ r.ended = js[j].ended /\ r.told = js[j].told /\ r.notify = js[j].notify
      /\ r.at = js[j].at /\ r.fb = js[j].fb /\ r.wb = js[j].wb /\ r.nr = js[j].nr
  BY <1>1 DEF JobRec, SameCounts
<1>4. WithCompleted(js, j, v) = q
  BY DEF WithCompleted
<1> HIDE DEF r
<1>5. q[j] = r /\ Records(q) /\ Elsewhere(q, js, j)
  BY <1>2 DEF Records, Elsewhere
<1> HIDE DEF q
<1>6. QED
  BY <1>2, <1>3, <1>4, <1>5 DEF SetsCompleted

LEMMA SetReleased ==
  ASSUME NEW js, Records(js), NEW j \in Jobs, NEW v \in Nat
  PROVE  Records(WithReleased(js, j, v)) /\ SetsReleased(WithReleased(js, j, v), js, j, v)
<1> DEFINE r == [js[j] EXCEPT !.released = v]
           q == [js EXCEPT ![j] = r]
<1>1. js[j] \in JobRec
  BY DEF Records
<1>2. r \in JobRec /\ r.released = v
  BY <1>1 DEF JobRec
<1>3. /\ r.started = js[j].started /\ r.completed = js[j].completed
      /\ r.ended = js[j].ended /\ r.told = js[j].told /\ r.notify = js[j].notify
      /\ r.at = js[j].at /\ r.fb = js[j].fb /\ r.wb = js[j].wb /\ r.nr = js[j].nr
  BY <1>1 DEF JobRec, SameCounts
<1>4. WithReleased(js, j, v) = q
  BY DEF WithReleased
<1> HIDE DEF r
<1>5. q[j] = r /\ Records(q) /\ Elsewhere(q, js, j)
  BY <1>2 DEF Records, Elsewhere
<1> HIDE DEF q
<1>6. QED
  BY <1>2, <1>3, <1>4, <1>5 DEF SetsReleased

LEMMA SetNotify ==
  ASSUME NEW js, Records(js), NEW j \in Jobs, NEW v \in BOOLEAN
  PROVE  Records(WithNotify(js, j, v)) /\ SetsNotify(WithNotify(js, j, v), js, j, v)
<1> DEFINE r == [js[j] EXCEPT !.notify = v]
           q == [js EXCEPT ![j] = r]
<1>1. js[j] \in JobRec
  BY DEF Records
<1>2. r \in JobRec /\ r.notify = v
  BY <1>1 DEF JobRec
<1>3. /\ r.started = js[j].started /\ r.completed = js[j].completed
      /\ r.released = js[j].released /\ r.ended = js[j].ended /\ r.told = js[j].told
      /\ r.at = js[j].at /\ r.fb = js[j].fb /\ r.wb = js[j].wb /\ r.nr = js[j].nr
  BY <1>1 DEF JobRec, SameCounts
<1>4. WithNotify(js, j, v) = q
  BY DEF WithNotify
<1> HIDE DEF r
<1>5. q[j] = r /\ Records(q) /\ Elsewhere(q, js, j)
  BY <1>2 DEF Records, Elsewhere
<1> HIDE DEF q
<1>6. QED
  BY <1>2, <1>3, <1>4, <1>5 DEF SetsNotify

LEMMA StartEffect ==
  ASSUME Types, NEW j \in Jobs, NEW a \in Places,
         job' = [job EXCEPT ![j].at = a, ![j].nr = numbered + 1]
  PROVE  /\ job' \in [Jobs -> JobRec] /\ Others(j) /\ job'[j].at = a
         /\ job'[j].nr = numbered + 1
         /\ SameCounts(job'[j], job[j]) /\ job'[j].fb = job[j].fb /\ job'[j].wb = job[j].wb
<1> DEFINE n == numbered + 1
           b == WithAt(job, j, a)
           c == WithNr(b, j, n)
<1>1. n \in Nat /\ Records(job)
  BY DEF Types, Records
<1>2. job' = c
  BY DEF WithAt, WithNr
<1> HIDE DEF n
<1>3. Records(b) /\ SetsAt(b, job, j, a)
  BY <1>1, SetAt
<1> HIDE DEF b
<1>4. Records(c) /\ SetsNr(c, b, j, n)
  BY <1>1, <1>3, SetNr
<1> HIDE DEF c
<1>5. QED
  BY <1>2, <1>3, <1>4 DEF SetsAt, SetsNr, Elsewhere, Records, Others, SameCounts, n

LEMMA AtEffect ==
  ASSUME Types, NEW j \in Jobs, NEW a \in Places, job' = [job EXCEPT ![j].at = a]
  PROVE  /\ job' \in [Jobs -> JobRec] /\ Others(j) /\ job'[j].at = a
         /\ job'[j].nr = job[j].nr
         /\ SameCounts(job'[j], job[j]) /\ job'[j].fb = job[j].fb /\ job'[j].wb = job[j].wb
<1> DEFINE b == WithAt(job, j, a)
<1>1. Records(job)
  BY DEF Types, Records
<1>2. job' = b
  BY DEF WithAt
<1>3. Records(b) /\ SetsAt(b, job, j, a)
  BY <1>1, SetAt
<1> HIDE DEF b
<1>4. QED
  BY <1>2, <1>3 DEF SetsAt, Elsewhere, Records, Others

LEMMA PairEffect ==
  ASSUME Types, NEW g \in GpJobs, NEW created \in BOOLEAN, PpAndGpStartJob(g, created)
  PROVE  LET p == Partner[g]
         IN  /\ p \in PpJobs
             /\ job' \in [Jobs -> JobRec] /\ \A k \in Jobs \ {g, p} : job'[k] = job[k]
             /\ \A k \in {g, p} : /\ SameCounts(job'[k], job[k])
                                  /\ job'[k].fb = job[k].fb /\ job'[k].wb = job[k].wb
             /\ job'[p].at = IF created THEN "created" ELSE "deleted"
             /\ job'[g].at = IF created THEN "tracked" ELSE "deleted"
             /\ created => job'[p].nr = numbered + 1 /\ job'[g].nr = numbered + 2
<1> DEFINE p == Partner[g]
           m == numbered + 1
           n == numbered + 2
           yes == TRUE
           a1 == WithAt(job, p, "created")
           a2 == WithNr(a1, p, m)
           a3 == WithHeld(a2, p, yes)
           a4 == WithAt(a3, g, "tracked")
           a5 == WithNr(a4, g, n)
           c1 == WithAt(job, p, "deleted")
           c2 == WithAt(c1, g, "deleted")
<1>1. p \in PpJobs /\ p \in Jobs /\ g \in Jobs /\ p # g
  BY DEF PpAndGpStartJob, Jobs
<1>2. m \in Nat /\ n \in Nat /\ Records(job)
  BY DEF Types, Records
<1>3. job' = IF created THEN a5 ELSE c2
  BY DEF PpAndGpStartJob, WithAt, WithNr, WithHeld
<1>4. {"created", "tracked", "deleted"} \subseteq Places /\ yes \in BOOLEAN
  BY DEF Places
<1> HIDE DEF p, m, n, yes
<1>5. Records(a1) /\ SetsAt(a1, job, p, "created")
  BY <1>1, <1>2, <1>4, SetAt
<1>6. Records(c1) /\ SetsAt(c1, job, p, "deleted")
  BY <1>1, <1>2, <1>4, SetAt
<1> HIDE DEF a1, c1
<1>7. Records(a2) /\ SetsNr(a2, a1, p, m)
  BY <1>1, <1>2, <1>5, SetNr
<1>8. Records(c2) /\ SetsAt(c2, c1, g, "deleted")
  BY <1>1, <1>4, <1>6, SetAt
<1> HIDE DEF a2, c2
<1>9. Records(a3) /\ SetsHeld(a3, a2, p, yes)
  BY <1>1, <1>4, <1>7, SetHeld
<1> HIDE DEF a3
<1>10. Records(a4) /\ SetsAt(a4, a3, g, "tracked")
  BY <1>1, <1>4, <1>9, SetAt
<1> HIDE DEF a4
<1>11. Records(a5) /\ SetsNr(a5, a4, g, n)
  BY <1>1, <1>2, <1>10, SetNr
<1> HIDE DEF a5
<1>12. CASE created
  <2>1. job' = a5
    BY <1>3, <1>12
  <2>2. job' \in [Jobs -> JobRec] /\ \A k \in Jobs \ {g, p} : job'[k] = job[k]
    BY <1>5, <1>7, <1>9, <1>10, <1>11, <2>1 DEF SetsAt, SetsNr, SetsHeld, Elsewhere, Records
  <2>3. /\ job'[p].at = "created" /\ job'[p].nr = m /\ SameCounts(job'[p], job[p])
        /\ job'[p].fb = job[p].fb /\ job'[p].wb = job[p].wb
    <3>1. a5[p] = a4[p] /\ a4[p] = a3[p]
      BY <1>1, <1>10, <1>11 DEF SetsAt, SetsNr, Elsewhere
    <3>2. QED
      BY <1>5, <1>7, <1>9, <2>1, <3>1 DEF SetsAt, SetsNr, SetsHeld, SameCounts
  <2>4. /\ job'[g].at = "tracked" /\ job'[g].nr = n /\ SameCounts(job'[g], job[g])
        /\ job'[g].fb = job[g].fb /\ job'[g].wb = job[g].wb
    <3>1. a3[g] = a2[g] /\ a2[g] = a1[g] /\ a1[g] = job[g]
      BY <1>1, <1>5, <1>7, <1>9 DEF SetsAt, SetsNr, SetsHeld, Elsewhere
    <3>2. QED
      BY <1>10, <1>11, <2>1, <3>1 DEF SetsAt, SetsNr, SameCounts
  <2>5. QED
    BY <1>1, <1>12, <2>2, <2>3, <2>4 DEF p, m, n
<1>13. CASE ~created
  <2>1. job' = c2
    BY <1>3, <1>13
  <2>2. job' \in [Jobs -> JobRec] /\ \A k \in Jobs \ {g, p} : job'[k] = job[k]
    BY <1>6, <1>8, <2>1 DEF SetsAt, Elsewhere, Records
  <2>3. c2[p] = c1[p] /\ c1[g] = job[g]
    BY <1>1, <1>6, <1>8 DEF SetsAt, Elsewhere
  <2>4. /\ job'[p].at = "deleted" /\ SameCounts(job'[p], job[p])
        /\ job'[p].fb = job[p].fb /\ job'[p].wb = job[p].wb
    BY <1>6, <2>1, <2>3 DEF SetsAt
  <2>5. /\ job'[g].at = "deleted" /\ SameCounts(job'[g], job[g])
        /\ job'[g].fb = job[g].fb /\ job'[g].wb = job[g].wb
    BY <1>8, <2>1, <2>3 DEF SetsAt
  <2>6. QED
    BY <1>1, <1>13, <2>2, <2>4, <2>5 DEF p
<1>14. QED
  BY <1>12, <1>13

LEMMA SubmitEffect ==
  ASSUME Types, NEW j \in PpJobs, Submission(j)
  PROVE  /\ job' \in [Jobs -> JobRec] /\ Others(j) /\ job'[j].nr = job[j].nr
         /\ SameCounts(job'[j], job[j]) /\ job'[j].wb = job[j].wb
         /\ job[j].at = "created" /\ job'[j].at \in {"created", "tracked", "leaked"}
         /\ job'[j].fb => job'[j].at \in {"created", "tracked"}
<1> DEFINE yes == TRUE
           no == FALSE
           a == WithFb(job, j, yes)
           b == WithAt(job, j, "tracked")
           c == WithAt(job, j, "leaked")
           d == WithFb(c, j, no)
<1>1. /\ Records(job) /\ j \in Jobs /\ {"tracked", "leaked"} \subseteq Places
      /\ yes \in BOOLEAN /\ no \in BOOLEAN
  BY DEF Types, Jobs, Places, Records
<1>2. job[j].at = "created" /\ (job' = a \/ job' = b \/ job' = d)
  BY DEF Submission, ListPpJob, SubmitPpJob, WithAt, WithFb
<1>3. ~no
  OBVIOUS
<1> HIDE DEF yes, no
<1>4. Records(a) /\ SetsFb(a, job, j, yes)
  BY <1>1, SetFb
<1>5. Records(b) /\ SetsAt(b, job, j, "tracked")
  BY <1>1, SetAt
<1>6. Records(c) /\ SetsAt(c, job, j, "leaked")
  BY <1>1, SetAt
<1> HIDE DEF a, b, c
<1>7. Records(d) /\ SetsFb(d, c, j, no)
  BY <1>1, <1>6, SetFb
<1> HIDE DEF d
<1>8. CASE job' = a
  BY <1>2, <1>4, <1>8 DEF SetsFb, Elsewhere, Records, Others
<1>9. CASE job' = b
  BY <1>2, <1>5, <1>9 DEF SetsAt, Elsewhere, Records, Others
<1>10. CASE job' = d
  BY <1>2, <1>3, <1>6, <1>7, <1>10 DEF SetsAt, SetsFb, Elsewhere, Records, Others, SameCounts
<1>11. QED
  BY <1>2, <1>8, <1>9, <1>10

\* A job that does not run is over: its tracker is released once.
LEMMA CancelledFacts ==
  ASSUME NEW js \in [Jobs -> JobRec], NEW j \in Jobs, NEW notify \in BOOLEAN
  PROVE  Ended(Cancelled(js, j, notify), js, j, 1, notify)
<1> DEFINE n == js[j].released + 1
           r == WithReleased(js, j, n)
           s == IF j \in GpJobs THEN SignalPpTracker(r, j, TRUE) ELSE r
           q == Complete(s, j, notify)
<1>1. n \in Nat /\ js[j].released \in Nat /\ Records(js)
  BY DEF JobRec, Records
<1>2. Cancelled(js, j, notify) = q
  BY DEF Cancelled, WithReleased
<1> HIDE DEF n
<1>3. Records(r) /\ SetsReleased(r, js, j, n)
  BY <1>1, SetReleased
<1> HIDE DEF r
<1>4. s \in [Jobs -> JobRec] /\ \A k \in Jobs : Alike(s[k], r[k])
  <2>1. CASE j \in GpJobs
    <3>1. \A failed \in BOOLEAN : /\ SignalPpTracker(r, j, failed) \in [Jobs -> JobRec]
                                  /\ \A k \in Jobs : Alike(SignalPpTracker(r, j, failed)[k], r[k])
      BY <1>3, <2>1, SignalFacts DEF Records
    <3>2. TRUE \in BOOLEAN
      OBVIOUS
    <3>3. /\ SignalPpTracker(r, j, TRUE) \in [Jobs -> JobRec]
          /\ \A k \in Jobs : Alike(SignalPpTracker(r, j, TRUE)[k], r[k])
      BY <3>1, <3>2, Zenon
    <3>4. s = SignalPpTracker(r, j, TRUE)
      BY <2>1
    <3>5. QED
      BY <3>3, <3>4
  <2>2. CASE j \notin GpJobs
    BY <1>3, <2>2 DEF Alike, Records
  <2>3. QED
    BY <2>1, <2>2
<1> HIDE DEF s
<1>5. Ended(q, s, j, 0, notify)
  BY <1>4, CompleteFacts
<1> HIDE DEF q
<1>6. Alike(s[j], r[j])
  BY <1>4
<1>7. \A k \in Jobs \ {j} : Alike(q[k], js[k])
  BY <1>3, <1>4, <1>5 DEF Alike, Ended, SetsReleased, Elsewhere
<1>8. Ended(q, js, j, 1, notify)
  BY <1>1, <1>3, <1>5, <1>6, <1>7 DEF Alike, Ended, n, SetsReleased
<1>9. QED
  BY <1>2, <1>8

\* What completing a job with an error changes.
LEMMA RefuseEffect ==
  ASSUME Types, NEW j \in Jobs, RefuseJob(j)
  PROVE  /\ job' \in [Jobs -> JobRec] /\ \A k \in Jobs \ {j} : Alike(job'[k], job[k])
         /\ job'[j].released = job[j].released + 1 /\ job'[j].ended = job[j].ended + 1
         /\ job'[j].notify = TRUE /\ job'[j].fb = FALSE
         /\ j \in GpJobs => /\ job'[j].at = "deleted" /\ job'[j].told = job[j].told + 1
                            /\ job'[j].started = 0 /\ job'[j].completed = 0
         /\ j \in PpJobs => /\ job'[j].at = "deleting" /\ job'[j].told = job[j].told
                            /\ job'[j].started = Num(j)
                            /\ job'[j].completed = job[j].completed + (Num(j) - job[j].started)
                            /\ job'[j].wb = job[j].wb
<1> DEFINE yes == TRUE
           f == MarkUnstartedFailed(job[j], Num(j))
           r == [f EXCEPT !.fb = FALSE]
           js == [job EXCEPT ![j] = r]
<1>1. job \in [Jobs -> JobRec] /\ job[j] \in JobRec /\ Num(j) \in Nat
  BY NumType DEF Types
<1>2. job' = Cancelled(js, j, yes) /\ yes \in BOOLEAN /\ yes
  BY DEF RefuseJob
<1>3. /\ f \in JobRec /\ f.started = Num(j)
      /\ f.completed = job[j].completed + (Num(j) - job[j].started)
      /\ f.at = job[j].at /\ f.released = job[j].released /\ f.ended = job[j].ended
      /\ f.told = job[j].told /\ f.wb = job[j].wb
  BY <1>1, MarkFacts
<1> HIDE DEF f, yes
<1>4. r \in JobRec
  BY <1>3 DEF JobRec
<1>5. /\ r.fb = FALSE /\ r.released = f.released /\ r.started = f.started
      /\ r.completed = f.completed /\ r.ended = f.ended /\ r.told = f.told /\ r.wb = f.wb
  BY <1>3 DEF JobRec
<1> HIDE DEF r
<1>6. js \in [Jobs -> JobRec] /\ js[j] = r /\ \A k \in Jobs \ {j} : js[k] = job[k]
  BY <1>1, <1>4
<1> HIDE DEF js
<1>7. Ended(job', js, j, 1, yes)
  BY <1>2, <1>6, CancelledFacts
<1>8. \A k \in Jobs \ {j} : Alike(job'[k], job[k])
  BY <1>6, <1>7 DEF Ended
<1>9. QED
  BY <1>2, <1>3, <1>5, <1>6, <1>7, <1>8 DEF Ended

LEMMA AbortEffect ==
  ASSUME Types, NEW j \in Jobs, AbortJob(j)
  PROVE  /\ job' \in [Jobs -> JobRec] /\ \A k \in Jobs \ {j} : Alike(job'[k], job[k])
         /\ job'[j].released = job[j].released + 1 /\ job'[j].ended = job[j].ended + 1
         /\ job'[j].notify = FALSE /\ job'[j].fb = job[j].fb /\ job'[j].told = job[j].told
         /\ j \in GpJobs => /\ job'[j].at = "deleted"
                            /\ job'[j].started = 0 /\ job'[j].completed = 0
         /\ j \in PpJobs => /\ job'[j].at = "deleting"
                            /\ job'[j].started = job[j].started
                            /\ job'[j].completed = job[j].completed /\ job'[j].wb = job[j].wb
<1> DEFINE no == FALSE
<1>1. job \in [Jobs -> JobRec] /\ job[j] \in JobRec
  BY DEF Types
<1>2. job' = Cancelled(job, j, no) /\ no \in BOOLEAN /\ ~no
  BY DEF AbortJob
<1>3. job[j].told \in Nat /\ (j \in GpJobs \/ j \in PpJobs)
  BY <1>1 DEF JobRec, Jobs
<1> HIDE DEF no
<1>4. Ended(job', job, j, 1, no)
  BY <1>1, <1>2, CancelledFacts
<1>5. QED
  BY <1>2, <1>3, <1>4 DEF Ended

\* The first job of the GP queue, j, starts.
LEMMA GpGetEffect ==
  ASSUME Types, NEW j \in Jobs, job' = [job EXCEPT ![j].at = "taken", ![j].started = 1]
  PROVE  /\ job' \in [Jobs -> JobRec] /\ Others(j)
         /\ job'[j].at = "taken" /\ job'[j].started = 1 /\ job'[j].completed = job[j].completed
         /\ job'[j].released = job[j].released /\ job'[j].ended = job[j].ended
         /\ job'[j].told = job[j].told /\ job'[j].fb = job[j].fb /\ job'[j].wb = job[j].wb
         /\ job'[j].notify = job[j].notify
<1> DEFINE a == WithAt(job, j, "taken")
           b == WithStarted(a, j, 1)
<1>1. job' = b
  BY DEF WithAt, WithStarted
<1>2. Records(job) /\ "taken" \in Places /\ 1 \in Nat
  BY DEF Types, Places, Records
<1>3. Records(a) /\ SetsAt(a, job, j, "taken")
  BY <1>2, SetAt
<1> HIDE DEF a
<1>4. Records(b) /\ SetsStarted(b, a, j, 1)
  BY <1>2, <1>3, SetStarted
<1> HIDE DEF b
<1>5. QED
  BY <1>1, <1>3, <1>4 DEF SetsAt, SetsStarted, Elsewhere, Records, Others, SameCounts

LEMMA TakeEffect ==
  ASSUME Types, NEW j \in Jobs, NEW g, TakeSubJob(j, g)
  PROVE  /\ job' \in [Jobs -> JobRec] /\ Others(j)
         /\ job'[j].started = job[j].started + 1 /\ job'[j].fb = FALSE
         /\ job'[j].at = IF Unstarted(j) = 1 THEN "taken" ELSE job[j].at
         /\ job'[j].completed = job[j].completed /\ job'[j].released = job[j].released
         /\ job'[j].ended = job[j].ended /\ job'[j].told = job[j].told
         /\ job'[j].notify = job[j].notify /\ job'[j].wb = job[j].wb
         /\ job'[j].nr = job[j].nr
<1> DEFINE n == job[j].started + 1
           p == IF Unstarted(j) = 1 THEN "taken" ELSE job[j].at
           no == FALSE
           a == WithStarted(job, j, n)
           b == WithFb(a, j, no)
           c == WithAt(b, j, p)
<1>1. Records(job) /\ no \in BOOLEAN
  BY DEF Types, Records
<1>2. n \in Nat /\ p \in Places
  BY <1>1 DEF JobRec, Places, Records
<1> HIDE DEF n, no
<1>3. Records(a) /\ SetsStarted(a, job, j, n)
  BY <1>1, <1>2, SetStarted
<1>4. Records(b) /\ SetsFb(b, a, j, no)
  <2> HIDE DEF a
  <2>1. QED
    BY <1>1, <1>3, SetFb
<1>5. Records(c) /\ SetsAt(c, b, j, p)
  <2> HIDE DEF b, p
  <2>1. QED
    BY <1>2, <1>4, SetAt
<1>6. job' = c
  <2>1. b[j].at = job[j].at
    BY <1>3, <1>4 DEF SetsStarted, SetsFb
  <2>2. QED
    BY <2>1 DEF TakeSubJob, n, no, WithAt, WithFb, WithStarted
<1> HIDE DEF a, b, c
<1>7. QED
  BY <1>3, <1>4, <1>5, <1>6
     DEF SetsStarted, SetsFb, SetsAt, Elsewhere, Records, Others, SameCounts, n, no

LEMMA GpCompleteEffect ==
  ASSUME Types, NEW success \in BOOLEAN, NEW notify \in BOOLEAN, GpComplete(success, notify)
  PROVE  LET j == running["gp"]
         IN  /\ j \in GpJobs /\ j \in Jobs
             /\ job' \in [Jobs -> JobRec] /\ \A k \in Jobs \ {j} : Alike(job'[k], job[k])
             /\ job'[j].completed = 1 /\ job'[j].released = job[j].released + 1
             /\ job'[j].at = job[j].at /\ job'[j].started = job[j].started
             /\ job'[j].ended = job[j].ended /\ job'[j].told = job[j].told
             /\ job'[j].fb = job[j].fb /\ job'[j].nr = job[j].nr
<1> DEFINE j == running["gp"]
           n == job[j].released + 1
           f == ~success
           a == WithCompleted(job, j, 1)
           b == WithReleased(a, j, n)
           c == WithNotify(b, j, notify)
<1>1. Records(job) /\ j \in GpJobs /\ j \in Jobs /\ f \in BOOLEAN /\ 1 \in Int
  BY DEF GpComplete, Types, Jobs, Records
<1>2. n \in Nat
  BY <1>1 DEF JobRec, Records
<1>3. Records(a) /\ SetsCompleted(a, job, j, 1)
  <2> HIDE DEF j
  <2>1. QED
    BY <1>1, SetCompleted
<1>4. Records(b) /\ SetsReleased(b, a, j, n)
  <2> HIDE DEF a, n, j
  <2>1. QED
    BY <1>1, <1>2, <1>3, SetReleased
<1>5. Records(c) /\ SetsNotify(c, b, j, notify)
  <2> HIDE DEF b, j
  <2>1. QED
    BY <1>1, <1>4, SetNotify
<1>6. job' = SignalPpTracker(c, j, f)
  <2>1. a[j].released = job[j].released
    BY <1>3 DEF SetsCompleted
  <2>2. QED
    BY <2>1 DEF GpComplete, WithCompleted, WithReleased, WithNotify
<1> HIDE DEF a, b, c, f, j
<1>7. job' \in [Jobs -> JobRec] /\ \A k \in Jobs : Alike(job'[k], c[k])
  BY <1>1, <1>5, <1>6, SignalFacts DEF Records
<1>8. \A k \in Jobs \ {j} : Alike(job'[k], job[k])
  BY <1>3, <1>4, <1>5, <1>7 DEF SetsCompleted, SetsReleased, SetsNotify, Elsewhere
<1>9. Alike(job'[j], c[j])
  BY <1>1, <1>7
<1>10. /\ job'[j].completed = 1 /\ job'[j].released = n
       /\ job'[j].at = job[j].at /\ job'[j].started = job[j].started
       /\ job'[j].ended = job[j].ended /\ job'[j].told = job[j].told
       /\ job'[j].fb = job[j].fb /\ job'[j].nr = job[j].nr
  BY <1>3, <1>4, <1>5, <1>9 DEF Alike, SetsCompleted, SetsReleased, SetsNotify
<1>11. QED
  BY <1>1, <1>7, <1>8, <1>10 DEF n, j

LEMMA PpMarkEffect ==
  ASSUME Types, NEW g \in Groups, NEW notify \in BOOLEAN, PpMark(g, notify)
  PROVE  LET j == running[g]
         IN  /\ j \in PpJobs /\ j \in Jobs
             /\ job' \in [Jobs -> JobRec] /\ Others(j)
             /\ job'[j].completed = job[j].completed + 1 /\ job'[j].nr = job[j].nr
             /\ job'[j].started = job[j].started /\ job'[j].released = job[j].released
             /\ job'[j].ended = job[j].ended /\ job'[j].told = job[j].told
             /\ job'[j].at = job[j].at /\ job'[j].fb = job[j].fb /\ job'[j].wb = job[j].wb
<1> DEFINE j == running[g]
           n == job[j].completed + 1
           a == WithCompleted(job, j, n)
           b == WithNotify(a, j, notify)
<1>1. Records(job) /\ j \in PpJobs /\ j \in Jobs
  BY DEF PpMark, Types, Jobs, Records
<1>2. n \in Int
  BY <1>1 DEF JobRec, Records
<1>3. job' = b
  BY DEF PpMark, WithCompleted, WithNotify
<1> HIDE DEF n, j
<1>4. Records(a) /\ SetsCompleted(a, job, j, n)
  BY <1>1, <1>2, SetCompleted
<1> HIDE DEF a
<1>5. Records(b) /\ SetsNotify(b, a, j, notify)
  BY <1>1, <1>4, SetNotify
<1> HIDE DEF b
<1>6. QED
  BY <1>1, <1>3, <1>4, <1>5 DEF SetsCompleted, SetsNotify, Elsewhere, Records, Others, n, j

LEMMA PpReleaseEffect ==
  ASSUME Types, PpRelease
  PROVE  LET j == done.job
         IN  /\ j \in PpJobs /\ j \in Jobs
             /\ job' \in [Jobs -> JobRec] /\ Others(j) /\ job'[j].nr = job[j].nr
             /\ job'[j].released = IF IsComplete(j) THEN job[j].released + 1 ELSE job[j].released
             /\ job'[j].at = job[j].at /\ job'[j].started = job[j].started
             /\ job'[j].completed = job[j].completed
             /\ job'[j].ended = job[j].ended /\ job'[j].told = job[j].told
             /\ job'[j].fb = job[j].fb /\ job'[j].wb = job[j].wb
             /\ done' # None /\ done'.job = j /\ done'.step = "check"
             /\ done' \in [job : PpJobs, step : {"release", "check"}]
<1> DEFINE j == done.job
           n == job[j].released + 1
           a == WithReleased(job, j, n)
<1>1. Records(job) /\ j \in PpJobs /\ j \in Jobs
  BY DEF PpRelease, Types, Jobs, Records
<1>2. n \in Nat
  BY <1>1 DEF JobRec, Records
<1>3. job' = IF IsComplete(j) THEN a ELSE job
  BY DEF PpRelease, WithReleased
<1>4. Records(a) /\ SetsReleased(a, job, j, n)
  <2> HIDE DEF n, j
  <2>1. QED
    BY <1>1, <1>2, SetReleased
<1>5. /\ done' # None /\ done'.job = j /\ done'.step = "check"
      /\ done' \in [job : PpJobs, step : {"release", "check"}]
  <2>1. /\ done' = [done EXCEPT !.step = "check"]
        /\ done \in [job : PpJobs, step : {"release", "check"}]
    BY DEF PpRelease, Types
  <2>2. done'.job = j /\ done'.step = "check"
    BY <2>1
  <2>3. done' \in [job : PpJobs, step : {"release", "check"}]
    BY <2>1
  <2>4. done' # None
    BY <2>3
  <2>5. QED
    BY <2>2, <2>3, <2>4
<1> HIDE DEF a, j
<1>6. CASE IsComplete(j)
  BY <1>1, <1>3, <1>4, <1>5, <1>6 DEF SetsReleased, Elsewhere, Records, Others, n, j
<1>7. CASE ~IsComplete(j)
  BY <1>1, <1>3, <1>5, <1>7 DEF Records, Others, j
<1>8. QED
  BY <1>6, <1>7

LEMMA EndEffect ==
  ASSUME Types, NEW j \in Jobs, EndJob(j)
  PROVE  Ended(job', job, j, 0, job[j].notify)
<1>1. job \in [Jobs -> JobRec] /\ job[j].notify \in BOOLEAN
  BY DEF Types, JobRec
<1>2. QED
  BY <1>1, CompleteFacts DEF EndJob

LEMMA DeleteEffect ==
  ASSUME Types, NEW j \in PpJobs, DeletePpJob(j)
  PROVE  /\ job' \in [Jobs -> JobRec] /\ Others(j)
         /\ job'[j].at = "deleted" /\ job'[j].started = 0 /\ job'[j].completed = 0
         /\ job'[j].released = job[j].released /\ job'[j].ended = job[j].ended
         /\ job'[j].notify = job[j].notify /\ job'[j].fb = job[j].fb
         /\ job'[j].told = job[j].told + (IF job[j].notify /\ j \notin Silent THEN 1 ELSE 0)
<1> DEFINE told == job[j].notify /\ j \notin Silent
           r == Deleted(job[j], told)
<1>1. job \in [Jobs -> JobRec] /\ job[j] \in JobRec /\ told \in BOOLEAN /\ j \in Jobs
  BY DEF Types, Jobs
<1>2. job' = [job EXCEPT ![j] = r]
  BY DEF DeletePpJob
<1> HIDE DEF told
<1>3. /\ r \in JobRec /\ r.at = "deleted" /\ r.started = 0 /\ r.completed = 0
      /\ r.released = job[j].released /\ r.ended = job[j].ended /\ r.notify = job[j].notify
      /\ r.told = job[j].told + (IF told THEN 1 ELSE 0) /\ r.fb = job[j].fb
  BY <1>1, DeletedFacts
<1> HIDE DEF r
<1>4. job' \in [Jobs -> JobRec] /\ job'[j] = r /\ Others(j)
  BY <1>1, <1>2, <1>3 DEF Others
<1>5. QED
  BY <1>3, <1>4 DEF told

LEMMA AbortMarkEffect ==
  ASSUME Types, NEW s \in Sessions, AbortMark(s)
  PROVE  LET G == JobsOf(s) \cap Queued(gp)
             P == JobsOf(s) \cap Queued(pp)
         IN  /\ G \subseteq GpJobs /\ P \subseteq PpJobs
             /\ job' \in [Jobs -> JobRec]
             /\ \A k \in Jobs \ (G \cup P) : job'[k] = job[k]
             /\ \A k \in G : /\ job'[k].at = "removed" /\ SameCounts(job'[k], job[k])
                             /\ job'[k].fb = job[k].fb
             /\ \A k \in P : /\ job'[k].at = "marked" /\ job'[k].fb = FALSE
                             /\ job'[k].started = Num(k)
                             /\ job'[k].completed = job[k].completed + (Num(k) - job[k].started)
                             /\ job'[k].released = job[k].released /\ job'[k].ended = job[k].ended
                             /\ job'[k].told = job[k].told /\ job'[k].wb = job[k].wb
<1> DEFINE G == JobsOf(s) \cap Queued(gp)
           P == JobsOf(s) \cap Queued(pp)
           rg(k) == [job[k] EXCEPT !.at = "removed"]
           mk(k) == MarkUnstartedFailed(job[k], Num(k))
           rp(k) == [mk(k) EXCEPT !.fb = FALSE, !.at = "marked"]
           new(k) == CASE k \in G -> rg(k) [] k \in P -> rp(k) [] OTHER -> job[k]
<1>1. job \in [Jobs -> JobRec] /\ {"removed", "marked"} \subseteq Places
  BY DEF Types, Places
<1>2. G \subseteq GpJobs /\ P \subseteq PpJobs
  BY DEF Types, Queued, ToSet
<1>3. job' = [k \in Jobs |-> new(k)]
  BY DEF AbortMark, Queued
<1>4. ASSUME NEW k \in Jobs
      PROVE  /\ rg(k) \in JobRec /\ rg(k).at = "removed" /\ SameCounts(rg(k), job[k])
             /\ rg(k).fb = job[k].fb
  <2>1. job[k] \in JobRec
    BY <1>1
  <2>2. rg(k) \in JobRec
    BY <1>1, <2>1 DEF JobRec
  <2>3. rg(k).at = "removed" /\ SameCounts(rg(k), job[k]) /\ rg(k).fb = job[k].fb
    BY <2>1 DEF JobRec, SameCounts
  <2>4. QED
    BY <2>2, <2>3
<1>5. ASSUME NEW k \in Jobs
      PROVE  /\ rp(k) \in JobRec /\ rp(k).at = "marked" /\ rp(k).fb = FALSE
             /\ rp(k).started = Num(k)
             /\ rp(k).completed = job[k].completed + (Num(k) - job[k].started)
             /\ rp(k).released = job[k].released /\ rp(k).ended = job[k].ended
             /\ rp(k).told = job[k].told /\ rp(k).wb = job[k].wb
  <2>1. job[k] \in JobRec /\ Num(k) \in Nat
    BY <1>1, NumType
  <2>2. /\ mk(k) \in JobRec /\ mk(k).started = Num(k)
        /\ mk(k).completed = job[k].completed + (Num(k) - job[k].started)
        /\ mk(k).released = job[k].released /\ mk(k).ended = job[k].ended
        /\ mk(k).told = job[k].told /\ mk(k).wb = job[k].wb
    BY <2>1, MarkFacts
  <2> HIDE DEF mk
  <2>3. rp(k) \in JobRec
    BY <1>1, <2>2 DEF JobRec
  <2>4. /\ rp(k).at = "marked" /\ rp(k).fb = FALSE
        /\ rp(k).started = mk(k).started /\ rp(k).completed = mk(k).completed
        /\ rp(k).released = mk(k).released /\ rp(k).ended = mk(k).ended
        /\ rp(k).told = mk(k).told /\ rp(k).wb = mk(k).wb
    BY <2>2 DEF JobRec
  <2> HIDE DEF rp
  <2>5. QED
    BY <2>2, <2>3, <2>4
<1> HIDE DEF rg, rp
<1>6. \A k \in Jobs : new(k) \in JobRec
  BY <1>1, <1>4, <1>5
<1>7. /\ \A k \in G : new(k) = rg(k)
      /\ \A k \in P : new(k) = rp(k)
      /\ \A k \in Jobs \ (G \cup P) : new(k) = job[k]
  BY <1>2
<1>8. G \subseteq Jobs /\ P \subseteq Jobs
  BY <1>2 DEF Jobs
<1> HIDE DEF new, G, P
<1>9. job' \in [Jobs -> JobRec] /\ \A k \in Jobs : job'[k] = new(k)
  BY <1>3, <1>6
<1>10. \A k \in Jobs \ (G \cup P) : job'[k] = job[k]
  BY <1>7, <1>9
<1>11. \A k \in G : /\ job'[k].at = "removed" /\ SameCounts(job'[k], job[k])
                    /\ job'[k].fb = job[k].fb
  BY <1>4, <1>7, <1>8, <1>9
<1>12. \A k \in P : /\ job'[k].at = "marked" /\ job'[k].fb = FALSE
                    /\ job'[k].started = Num(k)
                    /\ job'[k].completed = job[k].completed + (Num(k) - job[k].started)
                    /\ job'[k].released = job[k].released /\ job'[k].ended = job[k].ended
                    /\ job'[k].told = job[k].told /\ job'[k].wb = job[k].wb
  <2> TAKE k \in P
  <2>1. k \in Jobs /\ job'[k] = rp(k)
    BY <1>7, <1>8, <1>9
  <2>2. QED
    BY <1>5, <2>1
<1>13. QED
  BY <1>2, <1>9, <1>10, <1>11, <1>12 DEF G, P

LEMMA AbortCheckEffect ==
  ASSUME Types, NEW s \in Sessions, AbortCheck(s)
  PROVE  LET M == {j \in JobsOf(s) : job[j].at = "marked"}
         IN  /\ M \subseteq Jobs
             /\ job' \in [Jobs -> JobRec]
             /\ \A k \in Jobs \ M : job'[k] = job[k]
             /\ \A k \in M : /\ job'[k].at = IF IsComplete(k) THEN "removed" ELSE "taken"
                             /\ SameCounts(job'[k], job[k])
                             /\ job'[k].fb = job[k].fb /\ job'[k].wb = job[k].wb
<1> DEFINE M == {j \in JobsOf(s) : job[j].at = "marked"}
           p(k) == IF IsComplete(k) THEN "removed" ELSE "taken"
           r(k) == [job[k] EXCEPT !.at = p(k)]
<1>1. job \in [Jobs -> JobRec] /\ \A k \in Jobs : p(k) \in Places
  BY DEF Types, Places
<1>2. M \subseteq Jobs
  BY DEF JobsOf
<1>3. job' = [k \in Jobs |-> IF k \in M THEN r(k) ELSE job[k]]
  BY DEF AbortCheck
<1> HIDE DEF p
<1>4. ASSUME NEW k \in Jobs
      PROVE  /\ r(k) \in JobRec /\ r(k).at = p(k) /\ SameCounts(r(k), job[k])
             /\ r(k).fb = job[k].fb /\ r(k).wb = job[k].wb
  <2>1. job[k] \in JobRec
    BY <1>1
  <2>2. r(k) \in JobRec
    BY <1>1, <2>1 DEF JobRec
  <2>3. r(k).at = p(k) /\ SameCounts(r(k), job[k]) /\ r(k).fb = job[k].fb /\ r(k).wb = job[k].wb
    BY <2>1 DEF JobRec, SameCounts
  <2>4. QED
    BY <2>2, <2>3
<1> HIDE DEF r, M
<1>5. /\ job' \in [Jobs -> JobRec] /\ \A k \in Jobs \ M : job'[k] = job[k]
      /\ \A k \in M : job'[k] = r(k)
  BY <1>1, <1>2, <1>3, <1>4
<1>6. QED
  BY <1>2, <1>4, <1>5 DEF M, p

LEMMA DisableEffect ==
  ASSUME Types, NEW s \in Sessions, DisableWb(s)
  PROVE  /\ job' \in [Jobs -> JobRec]
         /\ \A k \in Jobs : /\ job'[k].at = job[k].at /\ SameCounts(job'[k], job[k])
                            /\ job'[k].fb = job[k].fb
                            /\ job'[k].wb # job[k].wb => job[k].fb
                            /\ job'[k].nr = job[k].nr
<1> DEFINE F == {j \in JobsOf(s) \cap PpJobs : IsListed(j) /\ job[j].wb}
           r(k) == [job[k] EXCEPT !.wb = FALSE]
<1>1. job \in [Jobs -> JobRec] /\ FALSE \in BOOLEAN
  BY DEF Types
<1>2. \A k \in F : job[k].fb
  BY DEF IsListed
<1>3. job' = [k \in Jobs |-> IF k \in F THEN r(k) ELSE job[k]]
  BY DEF DisableWb
<1>4. ASSUME NEW k \in Jobs
      PROVE  r(k) \in JobRec /\ r(k).at = job[k].at /\ SameCounts(r(k), job[k]) /\ r(k).fb = job[k].fb
             /\ r(k).nr = job[k].nr
  <2>1. job[k] \in JobRec
    BY <1>1
  <2>2. r(k) \in JobRec
    BY <1>1, <2>1 DEF JobRec
  <2>3. r(k).at = job[k].at /\ SameCounts(r(k), job[k]) /\ r(k).fb = job[k].fb
        /\ r(k).nr = job[k].nr
    BY <2>1 DEF JobRec, SameCounts
  <2>4. QED
    BY <2>2, <2>3
<1> HIDE DEF r, F
<1>5. job' \in [Jobs -> JobRec] /\ \A k \in Jobs : job'[k] = IF k \in F THEN r(k) ELSE job[k]
  BY <1>1, <1>3, <1>4
<1>6. ASSUME NEW k \in Jobs
      PROVE  /\ job'[k].at = job[k].at /\ SameCounts(job'[k], job[k])
             /\ job'[k].fb = job[k].fb
             /\ job'[k].wb # job[k].wb => job[k].fb
             /\ job'[k].nr = job[k].nr
  <2>1. CASE k \in F
    <3>1. job'[k] = r(k)
      BY <1>5, <2>1
    <3>2. QED
      BY <3>1, <1>2, <1>4, <2>1
  <2>2. CASE k \notin F
    <3>1. job'[k] = job[k]
      BY <1>5, <2>2
    <3>2. QED
      BY <3>1 DEF SameCounts
  <2>3. QED
    BY <2>1, <2>2
<1>7. QED
  BY <1>5, <1>6

-----------------------------------------------------------------------------
(* What the executor is offered *)

LEMMA NoJobsNoSubJobs ==
  ASSUME NEW S, S = {} PROVE Cardinality(Waiting(S)) = 0
<1>1. Waiting(S) = {}
  BY DEF Waiting
<1>2. QED
  BY <1>1, FS_EmptySet

\* The part of a list before the first place that stops the count begins at its head.
LEMMA CountBegins ==
  ASSUME NEW n \in Nat, NEW stops \in SUBSET (1..n), NEW i,
         i \in 1..(IF stops = {} THEN n ELSE Min(stops) - 1)
  PROVE  n >= 1 /\ 1 \notin stops
<1>1. CASE stops = {}
  BY <1>1
<1>2. CASE stops # {}
  <2>1. stops \in SUBSET Nat /\ n >= 1
    BY <1>2
  <2>2. ASSUME 1 \in stops PROVE FALSE
    <3>1. \A y \in stops : 1 <= y /\ y \in Int
      BY <2>1
    <3>2. Min(stops) \in stops /\ \A y \in stops : Min(stops) <= y
      BY <2>2, <3>1 DEF Min
    <3>3. Min(stops) = 1
      BY <2>2, <3>1, <3>2
    <3>4. i \in 1..0
      BY <1>2, <3>3
    <3>5. QED
      BY <3>4
  <2>3. QED
    BY <2>1, <2>2
<1>3. QED
  BY <1>1, <1>2

\* A list that is not empty has a head, which is in it.
LEMMA HeadFacts ==
  ASSUME NEW T, NEW list \in Seq(T), list # <<>>
  PROVE  Head(list) = list[1] /\ Head(list) \in T /\ Head(list) \in ToSet(list) /\ Len(list) >= 1
<1>1. Head(list) \in ToSet(list) /\ Len(list) \in Nat /\ Len(list) # 0
  BY TailFacts, LenProperties, EmptySeq
<1>2. Head(list) = list[1] /\ 1 \in 1..Len(list)
  BY <1>1, HeadTailProperties
<1>3. list[1] \in T
  BY <1>2, ElementOfSeq
<1>4. QED
  BY <1>1, <1>2, <1>3

\* When sub jobs of the kind that is due are counted, the job that is peeked at is one of
\* that kind.
LEMMA PeekFits ==
  ASSUME Types, PhysicalHeadCount(SecureNeeded) > 0
  PROVE  /\ PhysicalPeek \in PpJobs /\ PhysicalPeek \in Queued(pp)
         /\ PhysicalPeek \in Protected <=> SecureNeeded
<1> DEFINE high == pp["high"]
           normal == pp["normal"]
           fits(j) == j \notin Virtual /\ (j \in Protected) = SecureNeeded
           first == IF PartlyStarted /\ fits(Head(normal)) THEN {Head(normal)} ELSE {}
           order == high \o normal
           stops == {n \in 1..Len(order) : \/ ~fits(order[n])
                                           \/ n > Len(high) /\ job[order[n]].started > 0}
           upto == IF stops = {} THEN Len(order) ELSE Min(stops) - 1
           counted == first \cup {order[n] : n \in 1..upto}
<1>1. high \in Seq(PpJobs) /\ normal \in Seq(PpJobs)
  BY DEF Types, Priorities
<1>2. /\ high # <<>> => Head(high) \in PpJobs /\ Head(high) \in Queued(pp)
      /\ normal # <<>> => Head(normal) \in PpJobs /\ Head(normal) \in Queued(pp)
  <2>1. \A list \in Seq(PpJobs) : list # <<>> => Head(list) \in PpJobs /\ Head(list) \in ToSet(list)
    BY HeadFacts
  <2>2. QED
    BY <1>1, <2>1 DEF Queued, Priorities
<1>3. \A j \in PpJobs : j # None
  BY DEF Jobs
<1>4. counted # {}
  <2>1. PhysicalHeadCount(SecureNeeded) = Cardinality(Waiting(counted))
    BY ZenonT(30) DEF PhysicalHeadCount
  <2>2. counted = {} => Cardinality(Waiting(counted)) = 0
    <3> HIDE DEF counted
    <3>1. QED
      BY NoJobsNoSubJobs
  <2> HIDE DEF counted
  <2>3. QED
    BY <2>1, <2>2
<1>5. SecureNeeded \in BOOLEAN
  BY DEF SecureNeeded
<1>6. CASE first # {}
  <2>1. normal # <<>> /\ job[Head(normal)].started > 0 /\ fits(Head(normal))
    BY <1>6 DEF PartlyStarted
  <2>2. job[Head(normal)].started # 0
    BY <2>1
  <2>3. PhysicalPeek = Head(normal)
    BY <2>1, <2>2, <1>2, <1>3 DEF PhysicalPeek
  <2>4. QED
    BY <2>1, <2>3, <1>2
<1>7. CASE first = {}
  <2>1. Len(order) \in Nat
    <3>1. order \in Seq(PpJobs)
      BY <1>1, ConcatProperties
    <3>2. QED
      BY <3>1, LenProperties
  <2>2. 1 \notin stops /\ Len(order) >= 1
    <3>1. stops \in SUBSET (1..Len(order))
      OBVIOUS
    <3>2. \E i \in 1..upto : TRUE
      <4> DEFINE there == {order[n] : n \in 1..upto}
      <4>1. counted = first \cup there
        OBVIOUS
      <4>2. there # {}
        <5> HIDE DEF there, counted, first
        <5>1. QED
          BY <1>4, <1>7, <4>1
      <4> HIDE DEF upto, order
      <4>3. QED
        BY <4>2
    <3> HIDE DEF stops, order
    <3>3. QED
      BY <2>1, <3>1, <3>2, CountBegins
  <2>3. fits(order[1])
    <3>1. 1 \in 1..Len(order)
      <4> HIDE DEF order, stops
      <4>1. QED
        BY <2>1, <2>2
    <3> HIDE DEF order, fits
    <3>2. QED
      BY <2>2, <3>1
  <2>4. ASSUME high # <<>> PROVE order[1] = Head(high)
    <3>1. Head(high) = high[1] /\ Len(high) >= 1 /\ Len(high) \in Nat
      BY <1>1, <2>4, HeadFacts, LenProperties
    <3>2. \A k \in 1..(Len(high) + Len(normal)) :
          order[k] = IF k <= Len(high) THEN high[k] ELSE normal[k - Len(high)]
      BY <1>1, ConcatProperties
    <3>3. Len(normal) \in Nat
      BY <1>1, LenProperties
    <3> HIDE DEF order, high, normal
    <3>4. 1 \in 1..(Len(high) + Len(normal))
      BY <3>1, <3>3
    <3>5. QED
      BY <3>1, <3>2, <3>4
  <2>5. CASE high # <<>>
    <3>1. fits(Head(high))
      BY <2>3, <2>4, <2>5
    <3>2. ASSUME normal # <<>>, Head(normal) \notin Virtual, job[Head(normal)].started # 0
          PROVE  FALSE
      <4>1. job[Head(normal)].started > 0
        <5>1. job[Head(normal)].started \in Nat
          BY <1>2, <3>2 DEF Types, JobRec, Jobs
        <5>2. QED
          BY <5>1, <3>2
      <4>2. PartlyStarted
        BY <4>1, <3>2 DEF PartlyStarted
      <4>3. PpNext = Head(normal)
        BY <4>2 DEF PpNext
      <4>4. fits(Head(normal))
        BY <4>3, <3>2 DEF SecureNeeded
      <4>5. QED
        BY <4>2, <4>4, <1>7
    <3>3. PhysicalPeek = Head(high)
      BY <2>5, <3>1, <3>2 DEF PhysicalPeek
    <3>4. QED
      BY <1>2, <2>5, <3>1, <3>3
  <2>6. CASE high = <<>>
    <3>1. order = normal /\ normal # <<>>
      <4>1. order = normal
        BY <1>1, <2>6, ConcatEmptySeq
      <4>2. Len(normal) >= 1
        BY <2>2, <4>1
      <4>3. Len(<<>>) = 0
        BY EmptySeq
      <4>4. QED
        BY <4>1, <4>2, <4>3
    <3>2. order[1] = Head(normal)
      BY <1>1, <3>1, HeadFacts
    <3>3. fits(Head(normal))
      BY <2>3, <3>2
    <3>4. PhysicalPeek = Head(normal)
      BY <2>6, <3>1, <3>3 DEF PhysicalPeek
    <3>5. QED
      BY <1>2, <1>5, <3>1, <3>3, <3>4
  <2>7. QED
    BY <2>5, <2>6
<1>8. QED
  BY <1>6, <1>7

LEMMA VirtualFits ==
  ASSUME Types, VirtualPeek # None
  PROVE  VirtualPeek \in PpJobs /\ VirtualPeek \in Queued(pp)
<1>1. \A p \in Priorities : pp[p] # <<>> => Head(pp[p]) \in PpJobs /\ Head(pp[p]) \in ToSet(pp[p])
  BY HeadFacts DEF Types
<1>2. \A p \in Priorities : pp[p] # <<>> => Head(pp[p]) \in PpJobs /\ Head(pp[p]) \in Queued(pp)
  BY <1>1 DEF Queued
<1>3. VirtualPeek # None => \E p \in Priorities : pp[p] # <<>> /\ VirtualPeek = Head(pp[p])
  BY DEF VirtualPeek, Priorities
<1>4. QED
  BY <1>2, <1>3

-----------------------------------------------------------------------------
(* The queues *)

LEMMA GpListAddFacts ==
  ASSUME NEW list \in Seq(GpJobs), NEW j \in GpJobs
  PROVE  /\ GpListAdd(list, j) \in Seq(GpJobs)
         /\ ToSet(GpListAdd(list, j)) = ToSet(list) \cup {j}
         /\ Distinct(list) /\ j \notin ToSet(list) => Distinct(GpListAdd(list, j))
<1> DEFINE stops == {n \in 1..Len(list) : IsAfter(j, list[n])}
           i == Behind(stops)
<1>1. GpListAdd(list, j) = InsertAt(list, i, j)
  BY DEF GpListAdd, InsertBehind, Behind
<1>2. i \in 1..(Len(list) + 1)
  <2>1. Len(list) \in Nat /\ stops \in SUBSET (1..Len(list))
    BY LenProperties
  <2> HIDE DEF stops
  <2>2. QED
    BY <2>1, LastOf
<1> HIDE DEF i
<1>3. QED
  BY <1>1, <1>2, InsertFacts

LEMMA PpListAddFacts ==
  ASSUME NEW list \in Seq(PpJobs), NEW j \in PpJobs
  PROVE  /\ PpListAdd(list, j) \in Seq(PpJobs)
         /\ ToSet(PpListAdd(list, j)) = ToSet(list) \cup {j}
<1> DEFINE stops == {n \in 1..Len(list) : job[list[n]].started > 0 \/ IsAfter(j, list[n])}
           i == Behind(stops)
<1>1. PpListAdd(list, j) = InsertAt(list, i, j)
  BY DEF PpListAdd, InsertBehind, Behind
<1>2. i \in 1..(Len(list) + 1)
  <2>1. Len(list) \in Nat /\ stops \in SUBSET (1..Len(list))
    BY LenProperties
  <2> HIDE DEF stops
  <2>2. QED
    BY <2>1, LastOf
<1> HIDE DEF i
<1>3. QED
  BY <1>1, <1>2, InsertFacts

\* No GP job is in the queue twice, and its depth is the number of jobs in it.
GpQueueExact ==
  /\ \A p \in Priorities : Distinct(gp[p])
  /\ ToSet(gp["normal"]) \cap ToSet(gp["high"]) = {}
  /\ depth.gp = Cardinality(Queued(gp))

\* A member of the queue is a GP job, and the queue is finite.
LEMMA GpQueueFinite ==
  ASSUME Types
  PROVE  /\ Queued(gp) = ToSet(gp["normal"]) \cup ToSet(gp["high"])
         /\ Queued(gp) \subseteq GpJobs /\ IsFiniteSet(Queued(gp))
         /\ Cardinality(Queued(gp)) \in Nat
<1>1. Queued(gp) = ToSet(gp["normal"]) \cup ToSet(gp["high"])
  BY DEF Queued, Priorities
<1>2. \A p \in Priorities : ToSet(gp[p]) \subseteq GpJobs
  BY DEF Types, ToSet
<1>3. Queued(gp) \subseteq GpJobs
  BY <1>2 DEF Queued
<1>4. IsFiniteSet(Queued(gp))
  BY <1>3, FiniteAssumption, FS_Subset DEF Jobs
<1>5. QED
  BY <1>1, <1>3, <1>4, FS_CardinalityType

\* The queue when a GP job that is not in it is added,
LEMMA GpQueueAdd ==
  ASSUME Types, GpQueueExact, NEW j \in GpJobs, j \notin Queued(gp), NEW q \in Priorities,
         gp' = [gp EXCEPT ![q] = GpListAdd(gp[q], j)],
         depth' = [depth EXCEPT !.gp = depth.gp + 1]
  PROVE  /\ gp' \in [Priorities -> Seq(GpJobs)] /\ Depths(depth')
         /\ GpQueueExact' /\ Queued(gp)' = Queued(gp) \cup {j}
<1> DEFINE new == GpListAdd(gp[q], j)
<1>1. gp \in [Priorities -> Seq(GpJobs)] /\ gp[q] \in Seq(GpJobs)
  BY DEF Types
<1>2. j \notin ToSet(gp["normal"]) /\ j \notin ToSet(gp["high"]) /\ j \notin ToSet(gp[q])
  BY GpQueueFinite DEF Priorities
<1>3. new \in Seq(GpJobs) /\ ToSet(new) = ToSet(gp[q]) \cup {j} /\ Distinct(new)
  BY <1>1, <1>2, GpListAddFacts DEF GpQueueExact
<1> HIDE DEF new
<1>4. gp' \in [Priorities -> Seq(GpJobs)] /\ gp'[q] = new /\ \A p \in Priorities \ {q} : gp'[p] = gp[p]
  BY <1>1, <1>3 DEF new
<1>5. \A p \in Priorities : Distinct(gp'[p])
  BY <1>3, <1>4 DEF GpQueueExact
<1>6. ToSet(gp'["normal"]) \cap ToSet(gp'["high"]) = {}
  BY <1>2, <1>3, <1>4 DEF GpQueueExact, Priorities
<1>7. Queued(gp') = Queued(gp) \cup {j}
  BY <1>3, <1>4 DEF Queued, Priorities
<1>8. Cardinality(Queued(gp) \cup {j}) = Cardinality(Queued(gp)) + 1
  BY GpQueueFinite, FS_AddElement
<1>9. Depths(depth') /\ depth'.gp = depth.gp + 1
  <2>1. Depths(depth) /\ depth.gp \in Int
    BY DEF Types, Depths
  <2> DEFINE n == depth.gp + 1
  <2>2. n \in Int /\ depth' = [depth EXCEPT !.gp = n]
    BY <2>1
  <2> HIDE DEF n
  <2>3. Depths([depth EXCEPT !.gp = n]) /\ [depth EXCEPT !.gp = n].gp = n
    BY <2>1, <2>2, GpDepthFacts
  <2>4. QED
    BY <2>2, <2>3 DEF n
<1>10. QED
  BY <1>4, <1>5, <1>6, <1>7, <1>8, <1>9 DEF GpQueueExact, Queued

\* when its first job leaves,
LEMMA GpQueueTake ==
  ASSUME Types, GpQueueExact, NEW q \in Priorities, gp[q] # <<>>,
         gp' = [gp EXCEPT ![q] = Tail(gp[q])],
         depth' = [depth EXCEPT !.gp = depth.gp - 1]
  PROVE  /\ gp' \in [Priorities -> Seq(GpJobs)] /\ Depths(depth')
         /\ Head(gp[q]) \in Queued(gp)
         /\ GpQueueExact' /\ Queued(gp)' = Queued(gp) \ {Head(gp[q])}
<1> DEFINE j == Head(gp[q])
           new == Tail(gp[q])
<1>1. gp \in [Priorities -> Seq(GpJobs)] /\ gp[q] \in Seq(GpJobs)
  BY DEF Types
<1>2. /\ j \in ToSet(gp[q]) /\ new \in Seq(GpJobs) /\ ToSet(gp[q]) = ToSet(new) \cup {j}
      /\ Distinct(new) /\ j \notin ToSet(new)
  BY <1>1, TailFacts DEF GpQueueExact
<1>3. j \in Queued(gp)
  BY <1>2 DEF Queued
<1> HIDE DEF new, j
<1>4. gp' \in [Priorities -> Seq(GpJobs)] /\ gp'[q] = new /\ \A p \in Priorities \ {q} : gp'[p] = gp[p]
  BY <1>1, <1>2 DEF new
<1>5. \A p \in Priorities : Distinct(gp'[p])
  BY <1>2, <1>4 DEF GpQueueExact
<1>6. ToSet(gp'["normal"]) \cap ToSet(gp'["high"]) = {}
  BY <1>2, <1>4 DEF GpQueueExact, Priorities
<1>7. \A p \in Priorities \ {q} : j \notin ToSet(gp[p])
  BY <1>2 DEF GpQueueExact, Priorities
<1>8. Queued(gp') = Queued(gp) \ {j}
  <2>1. Queued(gp') = ToSet(gp'["normal"]) \cup ToSet(gp'["high"])
    BY DEF Queued, Priorities
  <2>2. Queued(gp) = ToSet(gp["normal"]) \cup ToSet(gp["high"])
    BY DEF Queued, Priorities
  <2>3. \A p \in Priorities : ToSet(gp'[p]) = ToSet(gp[p]) \ {j}
    <3> TAKE p \in Priorities
    <3>1. CASE p = q
      BY <1>2, <1>4, <3>1
    <3>2. CASE p # q
      BY <1>4, <1>7, <3>2
    <3>3. QED
      BY <3>1, <3>2
  <2>4. QED
    BY <2>1, <2>2, <2>3 DEF Priorities
<1>9. Cardinality(Queued(gp) \ {j}) = Cardinality(Queued(gp)) - 1
  BY <1>3, GpQueueFinite, FS_RemoveElement
<1>10. Depths(depth') /\ depth'.gp = depth.gp - 1
  <2>1. Depths(depth) /\ depth.gp \in Int
    BY DEF Types, Depths
  <2> DEFINE n == depth.gp - 1
  <2>2. n \in Int /\ depth' = [depth EXCEPT !.gp = n]
    BY <2>1
  <2> HIDE DEF n
  <2>3. Depths([depth EXCEPT !.gp = n]) /\ [depth EXCEPT !.gp = n].gp = n
    BY <2>1, <2>2, GpDepthFacts
  <2>4. QED
    BY <2>2, <2>3 DEF n
<1>11. QED
  BY <1>3, <1>4, <1>5, <1>6, <1>8, <1>9, <1>10 DEF GpQueueExact, Queued, j

\* and when the jobs in G are taken out.
LEMMA GpQueueWithout ==
  ASSUME Types, GpQueueExact, NEW G \in SUBSET Queued(gp), NEW n,
         gp' = [p \in Priorities |-> Without(gp[p], G)],
         depth' = [gp |-> depth.gp - Cardinality(G), pp |-> n]
  PROVE  /\ gp' \in [Priorities -> Seq(GpJobs)] /\ Depths(depth')
         /\ GpQueueExact' /\ Queued(gp)' = Queued(gp) \ G
<1>1. \A p \in Priorities : gp[p] \in Seq(GpJobs) /\ Distinct(gp[p])
  BY DEF Types, GpQueueExact
<1>2. \A p \in Priorities : /\ Without(gp[p], G) \in Seq(GpJobs)
                            /\ ToSet(Without(gp[p], G)) = ToSet(gp[p]) \ G
                            /\ Distinct(Without(gp[p], G))
  BY <1>1, WithoutFacts
<1>3. gp' \in [Priorities -> Seq(GpJobs)] /\ \A p \in Priorities : gp'[p] = Without(gp[p], G)
  BY <1>2
<1>4. \A p \in Priorities : ToSet(gp'[p]) = ToSet(gp[p]) \ G /\ Distinct(gp'[p])
  BY <1>2, <1>3
<1>5. ToSet(gp'["normal"]) \cap ToSet(gp'["high"]) = {}
  BY <1>4 DEF GpQueueExact, Priorities
<1>6. Queued(gp') = Queued(gp) \ G
  BY <1>4 DEF Queued, Priorities
<1>7. IsFiniteSet(G) /\ Cardinality(G) \in Nat
  BY GpQueueFinite, FS_Subset, FS_CardinalityType
<1>8. Cardinality(Queued(gp) \ G) = Cardinality(Queued(gp)) - Cardinality(G)
  <2>1. Cardinality(Queued(gp) \ G) = Cardinality(Queued(gp)) - Cardinality(Queued(gp) \cap G)
    BY GpQueueFinite, <1>7, FS_Difference
  <2>2. Queued(gp) \cap G = G
    OBVIOUS
  <2>3. QED
    BY <2>1, <2>2
<1>9. Depths(depth') /\ depth'.gp = depth.gp - Cardinality(G)
  <2>1. Depths(depth) /\ depth.gp \in Int
    BY DEF Types, Depths
  <2>2. depth.gp - Cardinality(G) \in Int
    BY <2>1, <1>7
  <2>3. QED
    BY <2>2 DEF Depths
<1>10. QED
  BY <1>3, <1>4, <1>5, <1>6, <1>8, <1>9 DEF GpQueueExact, Queued

-----------------------------------------------------------------------------
(* What holds with Races, too *)

\* Where a GP job is found there is no doubt about its state.
GpPlaced ==
  \A j \in GpJobs :
    /\ j \in Queued(gp) => job[j].at = "queued"
    /\ j \in ending \/ running["gp"] = j => job[j].at = "taken"
    /\ ~(j \in ending /\ running["gp"] = j)
    /\ j \in removed => job[j].at = "removed"

\* A PP job that may lose its output has not started.
PpUnwritten ==
  \A j \in PpJobs :
    /\ j \in Queued(pp) => job[j].at \notin {"none", "created"}
    /\ job[j].at \in {"none", "created"} \/ job[j].fb => job[j].started = 0

Base == Types /\ GpQueueExact /\ GpPlaced /\ PpUnwritten
Common == Base /\ SecureModesApart

LEMMA InitCommon == Init => Common
<1> SUFFICES ASSUME Init PROVE Common
  OBVIOUS
<1>1. \A j \in Jobs : job[j] = NewJob
  BY DEF Init
<1>2. NewJob \in JobRec
  BY DEF NewJob, JobRec, Places
<1>3. Types
  BY <1>2 DEF Init, Types, Phases, Priorities, Groups, Depths
<1>4. \A p \in Priorities : gp[p] = <<>> /\ pp[p] = <<>>
  BY DEF Init
<1>5. Queued(gp) = {} /\ Queued(pp) = {}
  BY <1>4 DEF Queued, ToSet
<1>6. GpQueueExact
  <2>1. \A p \in Priorities : ToSet(gp[p]) = {}
    BY <1>4 DEF ToSet
  <2>2. \A p \in Priorities : Distinct(gp[p])
    <3>1. Len(<<>>) = 0
      BY EmptySeq
    <3>2. \A p \in Priorities : 1..Len(gp[p]) = {}
      BY <1>4, <3>1
    <3>3. QED
      BY <3>2 DEF Distinct
  <2>3. depth.gp = 0 /\ Cardinality({}) = 0
    BY FS_EmptySet DEF Init
  <2>4. QED
    BY <2>1, <2>2, <2>3, <1>5 DEF GpQueueExact, Priorities
<1>7. GpPlaced
  BY <1>5 DEF GpPlaced, Init, Groups, Jobs
<1>8. PpUnwritten
  BY <1>1, <1>5 DEF PpUnwritten, NewJob, Jobs
<1>9. SecureModesApart
  BY DEF SecureModesApart, Init, Jobs
<1>10. QED
  BY <1>3, <1>6, <1>7, <1>8, <1>9 DEF Common, Base

\* As long as no group takes a job the modes stay apart.
LEMMA ModesKept ==
  ASSUME SecureModesApart, running \in [Groups -> Jobs \cup {None}],
         \A g \in Groups : running'[g] \in {running[g], None}
  PROVE  SecureModesApart'
BY DEF SecureModesApart, Jobs

\* Steps that change jobs and none of the queues, lists and groups.
LEMMA JobsKept ==
  ASSUME Base, job' \in [Jobs -> JobRec], numbered' \in Nat,
         session' \in [Sessions -> [phase : Phases, high : BOOLEAN]],
         lock' \in Sessions \cup {None},
         UNCHANGED <<queues, lists, running, done, devRefs>>,
         \A k \in GpJobs : job'[k].at = job[k].at \/ job[k].at \in {"none", "created", "tracked"},
         \A k \in PpJobs : /\ k \in Queued(pp) => job'[k].at \notin {"none", "created"}
                           /\ job'[k].at \in {"none", "created"} \/ job'[k].fb => job'[k].started = 0
  PROVE  Base'
<1>1. Types'
  BY DEF Base, Types, queues, lists
<1>2. GpQueueExact' /\ Queued(gp)' = Queued(gp) /\ Queued(pp)' = Queued(pp)
  BY DEF Base, GpQueueExact, queues, Queued
<1>3. GpPlaced'
  BY <1>2 DEF Base, GpPlaced, lists
<1>4. PpUnwritten'
  BY <1>2 DEF PpUnwritten
<1>5. QED
  BY <1>1, <1>2, <1>3, <1>4 DEF Base

\* Steps that start jobs.
LEMMA StartKeeps ==
  ASSUME Common, Start
  PROVE  Common'
<1>0. Types /\ Base
  BY Zenon DEF Common, Base
<1>1. UNCHANGED <<queues, lists, running, done, lock, session, devRefs>>
  BY Zenon DEF Start, GpStartJob, PpStartJob, PpAndGpStartJob, Submission, ListPpJob, SubmitPpJob
<1>2. SecureModesApart'
  BY <1>0, <1>1, ModesKept DEF Common, Types
<1>3. session' \in [Sessions -> [phase : Phases, high : BOOLEAN]] /\ lock' \in Sessions \cup {None}
  BY <1>0, <1>1 DEF Types
<1>4. ASSUME NEW j \in GpJobs, GpStartJob(j) PROVE Base'
  <2>1. j \in Jobs /\ "tracked" \in Places /\ job[j].at = "none" /\ j \notin PpJobs
    BY <1>4 DEF GpStartJob, Fresh, Jobs, Places
  <2>2. /\ job' \in [Jobs -> JobRec] /\ Others(j) /\ job'[j].at = "tracked"
        /\ SameCounts(job'[j], job[j]) /\ job'[j].fb = job[j].fb
    BY <1>0, <1>4, <2>1, StartEffect DEF GpStartJob
  <2>3. numbered' \in Nat
    BY <1>0, <1>4 DEF GpStartJob, Types
  <2>4. \A k \in GpJobs : job'[k].at = job[k].at \/ job[k].at \in {"none", "created", "tracked"}
    BY <2>1, <2>2 DEF Others, Jobs
  <2>5. \A k \in PpJobs : /\ k \in Queued(pp) => job'[k].at \notin {"none", "created"}
                          /\ job'[k].at \in {"none", "created"} \/ job'[k].fb => job'[k].started = 0
    BY <1>0, <2>1, <2>2 DEF Others, Jobs, Base, PpUnwritten
  <2>6. QED
    BY <1>0, <1>1, <1>3, <2>2, <2>3, <2>4, <2>5, JobsKept
<1>5. ASSUME NEW j \in PpJobs, PpStartJob(j) PROVE Base'
  <2>1. j \in Jobs /\ "created" \in Places /\ job[j].at = "none" /\ j \notin GpJobs
    BY <1>5 DEF PpStartJob, Fresh, Jobs, Places
  <2>2. /\ job' \in [Jobs -> JobRec] /\ Others(j) /\ job'[j].at = "created"
        /\ SameCounts(job'[j], job[j]) /\ job'[j].fb = job[j].fb
    BY <1>0, <1>5, <2>1, StartEffect DEF PpStartJob
  <2>3. numbered' \in Nat
    BY <1>0, <1>5 DEF PpStartJob, Types
  <2>4. \A k \in GpJobs : job'[k].at = job[k].at \/ job[k].at \in {"none", "created", "tracked"}
    BY <2>1, <2>2 DEF Others, Jobs
  <2>5. \A k \in PpJobs : /\ k \in Queued(pp) => job'[k].at \notin {"none", "created"}
                          /\ job'[k].at \in {"none", "created"} \/ job'[k].fb => job'[k].started = 0
    BY <1>0, <2>1, <2>2 DEF Others, Jobs, Base, PpUnwritten, SameCounts
  <2>6. QED
    BY <1>0, <1>1, <1>3, <2>2, <2>3, <2>4, <2>5, JobsKept
<1>6. ASSUME NEW g \in GpJobs, NEW created \in BOOLEAN, PpAndGpStartJob(g, created) PROVE Base'
  <2> DEFINE p == Partner[g]
  <2>1. job[g].at = "none" /\ job[p].at = "none"
    BY <1>6 DEF PpAndGpStartJob, Fresh
  <2>2. /\ p \in PpJobs
        /\ job' \in [Jobs -> JobRec] /\ \A k \in Jobs \ {g, p} : job'[k] = job[k]
        /\ \A k \in {g, p} : SameCounts(job'[k], job[k]) /\ job'[k].fb = job[k].fb
    BY <1>0, <1>6, PairEffect
  <2>3. numbered' \in Nat
    BY <1>0, <1>6 DEF PpAndGpStartJob, Types
  <2> HIDE DEF p
  <2>4. \A k \in GpJobs : job'[k].at = job[k].at \/ job[k].at \in {"none", "created", "tracked"}
    BY <2>1, <2>2 DEF Jobs
  <2>5. \A k \in PpJobs : /\ k \in Queued(pp) => job'[k].at \notin {"none", "created"}
                          /\ job'[k].at \in {"none", "created"} \/ job'[k].fb => job'[k].started = 0
    <3> TAKE k \in PpJobs
    <3>1. k # g /\ k \in Jobs
      BY DEF Jobs
    <3>2. CASE k = p
      BY <1>0, <2>1, <2>2, <3>2 DEF Base, PpUnwritten, SameCounts
    <3>3. CASE k # p
      BY <1>0, <2>2, <3>1, <3>3 DEF Base, PpUnwritten
    <3>4. QED
      BY <3>2, <3>3
  <2>6. QED
    BY <1>0, <1>1, <1>3, <2>2, <2>3, <2>4, <2>5, JobsKept
<1>7. ASSUME NEW j \in PpJobs, Submission(j) PROVE Base'
  <2>1. j \in Jobs /\ j \notin GpJobs
    BY DEF Jobs
  <2>2. /\ job' \in [Jobs -> JobRec] /\ Others(j)
        /\ SameCounts(job'[j], job[j])
        /\ job[j].at = "created" /\ job'[j].at \in {"created", "tracked", "leaked"}
    BY <1>0, <1>7, SubmitEffect
  <2>3. numbered' \in Nat
    BY <1>0, <1>7 DEF Submission, ListPpJob, SubmitPpJob, Types
  <2>4. \A k \in GpJobs : job'[k].at = job[k].at \/ job[k].at \in {"none", "created", "tracked"}
    BY <2>1, <2>2 DEF Others, Jobs
  <2>5. \A k \in PpJobs : /\ k \in Queued(pp) => job'[k].at \notin {"none", "created"}
                          /\ job'[k].at \in {"none", "created"} \/ job'[k].fb => job'[k].started = 0
    BY <1>0, <2>1, <2>2 DEF Others, Jobs, Base, PpUnwritten, SameCounts
  <2>6. QED
    BY <1>0, <1>1, <1>3, <2>2, <2>3, <2>4, <2>5, JobsKept
<1>8. Base'
  BY <1>4, <1>5, <1>6, <1>7 DEF Start
<1>9. QED
  BY <1>2, <1>8 DEF Common

\* PP jobs that keep their place, or leave the beginning of their life.
LEMMA PpKept ==
  ASSUME PpUnwritten,
         \A k \in PpJobs :
           /\ k \in Queued(pp') => k \in Queued(pp) \/ job'[k].at \notin {"none", "created"}
           /\ job'[k].at = job[k].at \/ job'[k].at \notin {"none", "created"}
           /\ job'[k].fb => job[k].fb
           /\ \/ job'[k].started = job[k].started
              \/ ~job'[k].fb /\ job'[k].at \notin {"none", "created"}
  PROVE  PpUnwritten'
<1>1. Queued(pp)' = Queued(pp')
  BY DEF Queued
<1>2. QED
  BY <1>1 DEF PpUnwritten

\* A job that is queued joins one of the two queues.
LEMMA QueueJobEffect ==
  ASSUME Types, GpQueueExact, NEW j \in Jobs, j \notin Queued(gp), QueueJob(j)
  PROVE  /\ job' \in [Jobs -> JobRec] /\ Others(j) /\ job'[j].at = "queued"
         /\ SameCounts(job'[j], job[j]) /\ job'[j].fb = job[j].fb /\ job'[j].wb = job[j].wb
         /\ gp' \in [Priorities -> Seq(GpJobs)] /\ pp' \in [Priorities -> Seq(PpJobs)]
         /\ Depths(depth') /\ bigNum' \in Int
         /\ devRefs' = devRefs + 1 /\ deleting' = deleting
         /\ GpQueueExact'
         /\ j \in GpJobs => Queued(gp') = Queued(gp) \cup {j} /\ pp' = pp
         /\ j \in PpJobs => gp' = gp /\ Queued(pp') = Queued(pp) \cup {j}
<1>1. "queued" \in Places /\ Priority(j) \in Priorities
  BY DEF Places, Priority, Priorities
<1>2. /\ job' \in [Jobs -> JobRec] /\ Others(j) /\ job'[j].at = "queued"
      /\ SameCounts(job'[j], job[j]) /\ job'[j].fb = job[j].fb /\ job'[j].wb = job[j].wb
  BY <1>1, AtEffect DEF QueueJob
<1>3. CASE j \in GpJobs
  <2>1. /\ gp' = [gp EXCEPT ![Priority(j)] = GpListAdd(gp[Priority(j)], j)]
        /\ depth' = [depth EXCEPT !.gp = depth.gp + 1] /\ pp' = pp
        /\ bigNum' = bigNum + (IF j \in Big THEN 1 ELSE 0)
    BY <1>3 DEF QueueJob
  <2>2. /\ gp' \in [Priorities -> Seq(GpJobs)] /\ Depths(depth')
        /\ GpQueueExact' /\ Queued(gp)' = Queued(gp) \cup {j}
    BY <1>1, <1>3, <2>1, GpQueueAdd
  <2>3. Queued(gp)' = Queued(gp') /\ j \notin PpJobs
    BY <1>3 DEF Queued
  <2>4. bigNum' \in Int /\ pp' \in [Priorities -> Seq(PpJobs)]
    BY <2>1 DEF Types
  <2>5. devRefs' = devRefs + 1 /\ deleting' = deleting
    BY DEF QueueJob
  <2>6. QED
    BY <1>2, <1>3, <2>1, <2>2, <2>3, <2>4, <2>5
<1>4. CASE j \in PpJobs
  <2> DEFINE q == Priority(j)
             new == PpListAdd(pp[q], j)
  <2>1. /\ pp' = [pp EXCEPT ![q] = new]
        /\ depth' = [depth EXCEPT !.pp = depth.pp + Num(j)] /\ gp' = gp /\ bigNum' = bigNum
    BY <1>4 DEF QueueJob
  <2>2. pp \in [Priorities -> Seq(PpJobs)] /\ q \in Priorities
    BY <1>1 DEF Types
  <2> HIDE DEF q
  <2>3. new \in Seq(PpJobs) /\ ToSet(new) = ToSet(pp[q]) \cup {j}
    BY <1>4, <2>2, PpListAddFacts
  <2> HIDE DEF new
  <2>4. /\ pp' \in [Priorities -> Seq(PpJobs)] /\ pp'[q] = new
        /\ \A p \in Priorities \ {q} : pp'[p] = pp[p]
    BY <2>1, <2>2, <2>3
  <2>5. Queued(pp') = Queued(pp) \cup {j}
    <3>1. q = "normal" \/ q = "high"
      BY <2>2 DEF Priorities
    <3>2. ToSet(pp'[q]) = ToSet(pp[q]) \cup {j}
      BY <2>3, <2>4
    <3>3. \A p \in Priorities \ {q} : ToSet(pp'[p]) = ToSet(pp[p])
      BY <2>4
    <3> DEFINE A(p) == ToSet(pp[p])
               B(p) == ToSet(pp'[p])
    <3> HIDE DEF A, B
    <3>4. B(q) = A(q) \cup {j} /\ \A p \in Priorities \ {q} : B(p) = A(p)
      BY <3>2, <3>3 DEF A, B
    <3>5. B("normal") \cup B("high") = (A("normal") \cup A("high")) \cup {j}
      BY <3>1, <3>4 DEF Priorities
    <3>6. Queued(pp) = A("normal") \cup A("high") /\ Queued(pp') = B("normal") \cup B("high")
      BY DEF Queued, Priorities, A, B
    <3>7. QED
      BY <3>5, <3>6
  <2>6. Depths(depth') /\ depth'.gp = depth.gp
    <3>1. Depths(depth)
      BY DEF Types
    <3>2. QED
      BY <2>1, <3>1, DepthsFacts
  <2>7. GpQueueExact'
    BY <2>1, <2>6 DEF GpQueueExact, Queued
  <2>8. bigNum' \in Int /\ gp' \in [Priorities -> Seq(GpJobs)] /\ j \notin GpJobs
    BY <1>4, <2>1 DEF Types
  <2>9. devRefs' = devRefs + 1 /\ deleting' = deleting
    BY DEF QueueJob
  <2>10. QED
    BY <1>2, <1>4, <2>1, <2>4, <2>5, <2>6, <2>7, <2>8, <2>9
<1>5. QED
  BY <1>3, <1>4 DEF Jobs

\* Queueing a job and refusing it, with any of the two lists of deferred jobs changed.
LEMMA QueueJobKeeps ==
  ASSUME Base, NEW j \in Jobs, j \in GpJobs => job[j].at = "tracked", QueueJob(j),
         mapping' \in Seq(DmaBuf), deferred' \in Seq(DmaBuf),
         UNCHANGED <<numbered, removed, ending, running, done, lock, session>>
  PROVE  Base'
<1>1. Types /\ GpQueueExact /\ GpPlaced /\ PpUnwritten
  BY DEF Base
<1>2. j \notin Queued(gp)
  BY <1>1, GpQueueFinite DEF GpPlaced
<1>3. /\ job' \in [Jobs -> JobRec] /\ Others(j) /\ job'[j].at = "queued"
      /\ SameCounts(job'[j], job[j]) /\ job'[j].fb = job[j].fb
      /\ gp' \in [Priorities -> Seq(GpJobs)] /\ pp' \in [Priorities -> Seq(PpJobs)]
      /\ Depths(depth') /\ bigNum' \in Int
      /\ devRefs' = devRefs + 1 /\ deleting' = deleting
      /\ GpQueueExact'
      /\ j \in GpJobs => Queued(gp') = Queued(gp) \cup {j} /\ pp' = pp
      /\ j \in PpJobs => gp' = gp /\ Queued(pp') = Queued(pp) \cup {j}
  BY <1>1, <1>2, QueueJobEffect
<1>4. devRefs' \in Int
  BY <1>1, <1>3 DEF Types
<1>5. Types'
  BY <1>1, <1>3, <1>4 DEF Types
<1>6. GpPlaced'
  <2>1. Queued(gp)' = Queued(gp')
    BY DEF Queued
  <2>2. Queued(gp') \subseteq Queued(gp) \cup ({j} \cap GpJobs)
    BY <1>3 DEF Jobs
  <2>3. \A k \in GpJobs : IF k = j THEN job[k].at = "tracked" /\ job'[k].at = "queued"
                          ELSE job'[k] = job[k]
    BY <1>3 DEF Others, Jobs
  <2>4. QED
    BY <1>1, <2>1, <2>2, <2>3 DEF GpPlaced
<1>7. PpUnwritten'
  <2>1. \A k \in PpJobs : k # j => job'[k] = job[k] /\ (k \in Queued(pp') => k \in Queued(pp))
    BY <1>3 DEF Others, Jobs
  <2>2. QED
    BY <1>1, <1>3, <2>1, PpKept DEF SameCounts
<1>8. QED
  BY <1>3, <1>5, <1>6, <1>7 DEF Base

LEMMA RefuseJobKeeps ==
  ASSUME Base, NEW j \in Jobs, j \in GpJobs => job[j].at = "tracked", RefuseJob(j),
         mapping' \in Seq(DmaBuf), deferred' \in Seq(DmaBuf),
         UNCHANGED <<numbered, removed, ending, running, done, lock, session>>
  PROVE  Base'
<1>1. Types /\ GpQueueExact /\ GpPlaced /\ PpUnwritten
  BY DEF Base
<1>2. /\ job' \in [Jobs -> JobRec] /\ \A k \in Jobs \ {j} : Alike(job'[k], job[k])
      /\ job'[j].fb = FALSE
      /\ j \in GpJobs => job'[j].at = "deleted"
      /\ j \in PpJobs => job'[j].at = "deleting"
  BY <1>1, RefuseEffect
<1>3. UNCHANGED <<gp, pp, depth, bigNum, devRefs>>
  BY DEF RefuseJob, queues
<1>4. deleting' \in SUBSET PpJobs
  BY <1>1 DEF RefuseJob, CompleteToList, Types
<1>5. Types'
  BY <1>1, <1>2, <1>3, <1>4 DEF Types
<1>6. GpQueueExact'
  BY <1>1, <1>3 DEF GpQueueExact, Queued
<1>7. Queued(gp)' = Queued(gp) /\ Queued(pp') = Queued(pp)
  BY <1>3 DEF Queued
<1>8. GpPlaced'
  <2>1. \A k \in GpJobs : IF k = j THEN job[k].at = "tracked" ELSE job'[k].at = job[k].at
    BY <1>2 DEF Alike, Jobs
  <2>2. QED
    BY <1>1, <1>7, <2>1 DEF GpPlaced
<1>9. PpUnwritten'
  <2>1. \A k \in PpJobs : k # j => Alike(job'[k], job[k])
    BY <1>2 DEF Jobs
  <2>2. QED
    BY <1>1, <1>2, <1>7, <2>1, PpKept DEF Alike
<1>10. QED
  BY <1>5, <1>6, <1>8, <1>9 DEF Base

\* Steps of the timeline system's callbacks and of the workers.
LEMMA WorkersKeep ==
  ASSUME Common, Workers
  PROVE  Common'
<1>0. Types /\ Base /\ PpUnwritten
  BY DEF Common, Base
<1>1. UNCHANGED <<numbered, removed, ending, running, done, lock, session>>
  BY DEF Workers, Activate, DeferredTake, DeferredQueue, DeletePpJob
<1>2. SecureModesApart'
  BY <1>0, <1>1, ModesKept DEF Common, Types
<1>3. mapping \in Seq(DmaBuf) /\ deferred \in Seq(DmaBuf) /\ <<>> \in Seq(DmaBuf)
  BY <1>0, EmptySeq DEF Types
<1>4. ASSUME NEW j \in Jobs, NEW error \in BOOLEAN, Activate(j, error) PROVE Base'
  <2>1. job[j].at = "tracked" /\ mapping' = mapping
    BY <1>4 DEF Activate
  <2>2. CASE RefuseJob(j) /\ UNCHANGED deferred
    BY <1>0, <1>1, <1>3, <2>1, <2>2, RefuseJobKeeps
  <2>3. CASE QueueJob(j) /\ UNCHANGED deferred
    BY <1>0, <1>1, <1>3, <2>1, <2>3, QueueJobKeeps
  <2>4. CASE /\ j \in DmaBuf /\ job' = [job EXCEPT ![j].at = "deferred"]
             /\ deferred' = Append(deferred, j) /\ UNCHANGED <<queues, devRefs, deleting>>
    <3>1. deferred' \in Seq(DmaBuf)
      BY <1>3, <2>4, AppendFacts
    <3>2. /\ job' \in [Jobs -> JobRec] /\ Others(j) /\ job'[j].at = "deferred"
          /\ SameCounts(job'[j], job[j]) /\ job'[j].fb = job[j].fb
      BY <1>0, <2>4, AtEffect DEF Places
    <3>3. j \in PpJobs /\ j \notin GpJobs
      BY <2>4
    <3>4. Types'
      BY <1>0, <1>1, <2>1, <2>4, <3>1, <3>2 DEF Types, queues
    <3>5. Queued(gp)' = Queued(gp) /\ Queued(pp') = Queued(pp) /\ GpQueueExact'
      BY <1>0, <2>4 DEF Base, Queued, GpQueueExact, queues
    <3>6. GpPlaced'
      BY <1>0, <1>1, <3>2, <3>3, <3>5 DEF Base, GpPlaced, Others, Jobs
    <3>7. PpUnwritten'
      <4>1. \A k \in PpJobs : k # j => job'[k] = job[k]
        BY <3>2 DEF Others, Jobs
      <4>2. QED
        BY <1>0, <3>2, <3>5, <4>1, PpKept DEF SameCounts
    <3>8. QED
      BY <3>4, <3>5, <3>6, <3>7 DEF Base
  <2>5. QED
    BY <1>4, <2>2, <2>3, <2>4 DEF Activate
<1>5. ASSUME DeferredTake PROVE Base'
  <2>1. /\ mapping' = deferred /\ deferred' = <<>>
        /\ UNCHANGED <<job, numbered, gp, pp, depth, bigNum, deleting, devRefs>>
    BY <1>5 DEF DeferredTake, queues
  <2>2. Types'
    BY <1>0, <1>1, <1>3, <2>1 DEF Types
  <2>3. Queued(gp)' = Queued(gp) /\ Queued(pp)' = Queued(pp) /\ GpQueueExact'
    BY <1>0, <2>1 DEF Base, Queued, GpQueueExact
  <2>4. GpPlaced' /\ PpUnwritten'
    BY <1>0, <1>1, <2>1, <2>3 DEF Base, GpPlaced, PpUnwritten
  <2>5. QED
    BY <2>2, <2>3, <2>4 DEF Base
<1>6. ASSUME DeferredQueue PROVE Base'
  <2>1. Head(mapping) \in DmaBuf /\ Tail(mapping) \in Seq(DmaBuf)
    BY <1>3, <1>6, HeadFacts, TailFacts DEF DeferredQueue
  <2>2. Head(mapping) \in Jobs /\ Head(mapping) \notin GpJobs
    BY <2>1 DEF Jobs
  <2>3. mapping' = Tail(mapping) /\ deferred' = deferred
    BY <1>6 DEF DeferredQueue
  <2>4. QueueJob(Head(mapping)) \/ RefuseJob(Head(mapping))
    BY <1>6 DEF DeferredQueue
  <2>5. QED
    BY <1>0, <1>1, <1>3, <2>1, <2>2, <2>3, <2>4, QueueJobKeeps, RefuseJobKeeps
<1>7. ASSUME NEW j \in PpJobs, DeletePpJob(j) PROVE Base'
  <2>1. /\ job' \in [Jobs -> JobRec] /\ Others(j) /\ job'[j].at = "deleted"
        /\ job'[j].started = 0 /\ job'[j].fb = job[j].fb
    BY <1>0, <1>7, DeleteEffect
  <2>2. /\ UNCHANGED <<numbered, gp, pp, depth, bigNum, mapping, deferred, devRefs>>
        /\ deleting' = deleting \ {j}
    BY <1>7 DEF DeletePpJob, queues
  <2>3. Types'
    BY <1>0, <1>1, <2>1, <2>2 DEF Types
  <2>4. Queued(gp)' = Queued(gp) /\ Queued(pp)' = Queued(pp) /\ GpQueueExact'
    BY <1>0, <2>2 DEF Base, Queued, GpQueueExact
  <2>5. GpPlaced'
    BY <1>0, <1>1, <2>1, <2>4 DEF Base, GpPlaced, Others, Jobs
  <2>6. PpUnwritten'
    BY <1>0, <2>1, <2>4 DEF PpUnwritten, Others, Jobs
  <2>7. QED
    BY <2>3, <2>4, <2>5, <2>6 DEF Base
<1>8. Base'
  BY <1>4, <1>5, <1>6, <1>7 DEF Workers
<1>9. QED
  BY <1>2, <1>8 DEF Common

\* The queue of PP jobs when those in S leave it.
LEMMA PpQueueWithout ==
  ASSUME Types, NEW S, pp' = [p \in Priorities |-> Without(pp[p], S)]
  PROVE  pp' \in [Priorities -> Seq(PpJobs)] /\ Queued(pp') = Queued(pp) \ S
<1>1. \A p \in Priorities : pp[p] \in Seq(PpJobs)
  BY DEF Types
<1>2. \A p \in Priorities : /\ Without(pp[p], S) \in Seq(PpJobs)
                            /\ ToSet(Without(pp[p], S)) = ToSet(pp[p]) \ S
  BY <1>1, WithoutFacts
<1>3. pp' \in [Priorities -> Seq(PpJobs)] /\ \A p \in Priorities : pp'[p] = Without(pp[p], S)
  BY <1>2
<1>4. \A p \in Priorities : ToSet(pp'[p]) = ToSet(pp[p]) \ S
  BY <1>2, <1>3
<1>5. QED
  BY <1>3, <1>4 DEF Queued, Priorities

\* The head of the GP queue that the executor takes.
LEMMA GpHead ==
  ASSUME Types, GpQueueExact, depth.gp > 0
  PROVE  gp[IF gp["high"] # <<>> THEN "high" ELSE "normal"] # <<>>
<1>1. CASE gp["high"] = <<>> /\ gp["normal"] = <<>>
  <2>1. ToSet(<<>>) = {}
    <3>1. DOMAIN <<>> = {}
      OBVIOUS
    <3>2. QED
      BY <3>1 DEF ToSet
  <2>2. ToSet(gp["high"]) = {} /\ ToSet(gp["normal"]) = {}
    BY <1>1, <2>1
  <2>3. Queued(gp) = {}
    BY <2>2, GpQueueFinite
  <2>4. depth.gp = 0
    BY <2>3, FS_EmptySet DEF GpQueueExact
  <2>5. QED
    BY <2>4
<1>2. QED
  BY <1>1

\* What the step that starts a GP job does.
LEMMA GpGetKeeps ==
  ASSUME Common, GpGet
  PROVE  Common'
<1> DEFINE p == IF gp["high"] # <<>> THEN "high" ELSE "normal"
           j == Head(gp[p])
<1>0. Types /\ Base /\ GpQueueExact /\ GpPlaced /\ PpUnwritten
  BY DEF Common, Base
<1>1. p \in Priorities /\ gp[p] # <<>>
  BY <1>0, GpHead DEF GpGet, Priorities
<1>2. /\ gp' = [gp EXCEPT ![p] = Tail(gp[p])] /\ depth' = [depth EXCEPT !.gp = depth.gp - 1]
      /\ bigNum' = bigNum - (IF j \in Big THEN 1 ELSE 0)
      /\ job' = [job EXCEPT ![j].at = "taken", ![j].started = 1]
      /\ running' = [running EXCEPT !["gp"] = j]
      /\ UNCHANGED <<numbered, pp, mapping, deferred, removed, ending, deleting,
                     done, lock, session, devRefs>>
  BY DEF GpGet, lists
<1> HIDE DEF p
<1>3. /\ gp' \in [Priorities -> Seq(GpJobs)] /\ Depths(depth')
      /\ Head(gp[p]) \in Queued(gp)
      /\ GpQueueExact' /\ Queued(gp)' = Queued(gp) \ {Head(gp[p])}
  BY <1>0, <1>1, <1>2, GpQueueTake
<1>4. j \in Queued(gp) /\ j \in GpJobs /\ j \in Jobs /\ j \notin PpJobs
  BY <1>0, <1>3, GpQueueFinite DEF Jobs
<1>5. bigNum' \in Int
  BY <1>0, <1>2 DEF Types
<1> HIDE DEF j
<1>6. /\ job' \in [Jobs -> JobRec] /\ Others(j) /\ job'[j].at = "taken"
  BY <1>0, <1>2, <1>4, GpGetEffect
<1>7. running' \in [Groups -> Jobs \cup {None}] /\ running'["gp"] = j
      /\ \A g \in Groups \ {"gp"} : running'[g] = running[g]
  BY <1>0, <1>2, <1>4 DEF Types, Groups
<1>8. Types'
  BY <1>0, <1>2, <1>3, <1>4, <1>5, <1>6, <1>7 DEF Types
<1>9. GpPlaced'
  <2>1. Queued(gp)' = Queued(gp) \ {j}
    BY <1>3 DEF j
  <2>2. \A k \in GpJobs : k # j => job'[k] = job[k]
    BY <1>6 DEF Others, Jobs
  <2>3. j \notin ending /\ j \notin removed
    BY <1>0, <1>4 DEF GpPlaced
  <2>4. ending' = ending /\ removed' = removed
    BY <1>2
  <2>5. QED
    BY <1>0, <1>6, <1>7, <2>1, <2>2, <2>3, <2>4 DEF GpPlaced
<1>10. PpUnwritten'
  <2>1. Queued(pp)' = Queued(pp) /\ \A k \in PpJobs : job'[k] = job[k]
    BY <1>2, <1>4, <1>6 DEF Queued, Others, Jobs
  <2>2. QED
    BY <1>0, <2>1 DEF PpUnwritten
<1>11. SecureModesApart'
  <2>1. \A g \in Groups \ {"gp"} : running[g] \notin Protected
    <3> DEFINE working == {running[g] : g \in Groups \ {"gp"}} \ {None}
    <3>1. working \cap Protected = {} /\ None \notin Protected
      BY DEF GpGet, MaySchedule, MayStart, Jobs
    <3>2. QED
      BY <3>1
  <2>2. \A g \in Groups : running'[g] \notin Protected
    BY <1>4, <1>7, <2>1
  <2>3. QED
    BY <2>2 DEF SecureModesApart
<1>12. QED
  BY <1>3, <1>8, <1>9, <1>10, <1>11 DEF Common, Base

\* A sub job starts: which jobs share the GPU with it,
LEMMA TakeKeepsModes ==
  ASSUME Types, SecureModesApart, MayStart, NEW g \in Groups \ {"gp"}, NEW j \in PpJobs,
         j \in Protected <=> SecureNeeded, running' = [running EXCEPT ![g] = j]
  PROVE  SecureModesApart'
<1> DEFINE working == {running[h] : h \in Groups \ {"gp"}} \ {None}
<1>1. running \in [Groups -> Jobs \cup {None}] /\ "gp" \in Groups /\ None \notin PpJobs
  BY DEF Types, Groups, Jobs
<1>2. running'[g] = j /\ \A h \in Groups \ {g} : running'[h] = running[h]
  BY <1>1
<1>3. CASE SecureNeeded
  <2>1. j \in Protected
    BY <1>3
  <2>2. IF working # {} THEN working \cap Protected # {} ELSE running["gp"] = None
    BY <1>3 DEF MayStart
  <2>3. \A h \in Groups : running[h] # None => running[h] \in Protected
    <3>1. CASE working # {}
      <4>1. PICK f \in Groups \ {"gp"} : running[f] \in Protected
        BY <2>2, <3>1
      <4>2. QED
        BY <4>1 DEF SecureModesApart
    <3>2. CASE working = {}
      BY <2>2, <3>2
    <3>3. QED
      BY <3>1, <3>2
  <2>4. QED
    <3>1. \A h \in Groups : running'[h] # None => running'[h] \in Protected
      BY <1>2, <2>1, <2>3
    <3>2. QED
      BY <3>1 DEF SecureModesApart
<1>4. CASE ~SecureNeeded
  <2>1. j \notin Protected /\ working \cap Protected = {}
    BY <1>4 DEF MayStart
  <2>2. \A h \in Groups \ {"gp"} : running[h] \notin Protected
    BY <1>1, <2>1
  <2>3. running["gp"] \notin Protected
    <3>1. running["gp"] \in GpJobs \cup {None} /\ None \notin Protected
      BY <1>1 DEF Types
    <3>2. QED
      BY <3>1
  <2>4. \A h \in Groups : running'[h] \notin Protected
    BY <1>2, <2>1, <2>2, <2>3
  <2>5. QED
    BY <2>4 DEF SecureModesApart
<1>5. QED
  BY <1>3, <1>4

\* and what else the step changes.
LEMMA TakeKeeps ==
  ASSUME Common, MayStart, NEW g \in Groups \ {"gp"}, NEW j \in PpJobs, j \in Queued(pp),
         j \in Protected <=> SecureNeeded, TakeSubJob(j, g)
  PROVE  Common'
<1>0. Types /\ Base /\ GpQueueExact /\ GpPlaced /\ PpUnwritten /\ j \in Jobs
  BY DEF Common, Base, Jobs
<1>1. /\ job' \in [Jobs -> JobRec] /\ Others(j) /\ job'[j].fb = FALSE
      /\ job'[j].at = IF Unstarted(j) = 1 THEN "taken" ELSE job[j].at
  BY <1>0, TakeEffect
<1>2. /\ running' = [running EXCEPT ![g] = j]
      /\ depth' = [depth EXCEPT !.pp = depth.pp - 1]
      /\ UNCHANGED <<numbered, gp, bigNum, mapping, deferred, removed, ending, deleting,
                     done, lock, session, devRefs>>
  BY DEF TakeSubJob, lists
<1>3. pp' \in [Priorities -> Seq(PpJobs)] /\ Queued(pp') \subseteq Queued(pp)
  <2>1. CASE pp' = pp
    BY <1>0, <2>1 DEF Types
  <2>2. CASE pp' = [p \in Priorities |-> Without(pp[p], {j})]
    BY <1>0, <2>2, PpQueueWithout
  <2>3. QED
    BY <2>1, <2>2 DEF TakeSubJob
<1>4. Depths(depth') /\ depth'.gp = depth.gp
  <2>1. Depths(depth)
    BY <1>0 DEF Types
  <2>2. QED
    BY <1>2, <2>1, DepthsFacts
<1>5. /\ running' \in [Groups -> Jobs \cup {None}] /\ running'[g] = j
      /\ \A h \in Groups \ {g} : running'[h] = running[h]
  BY <1>0, <1>2 DEF Types
<1>6. running'["gp"] = running["gp"]
  BY <1>5 DEF Groups
<1>7. Types'
  BY <1>0, <1>1, <1>2, <1>3, <1>4, <1>5, <1>6 DEF Types
<1>8. Queued(gp)' = Queued(gp) /\ GpQueueExact'
  BY <1>0, <1>2, <1>4 DEF GpQueueExact, Queued
<1>9. GpPlaced'
  <2>1. \A k \in GpJobs : job'[k] = job[k]
    BY <1>0, <1>1 DEF Others, Jobs
  <2>2. QED
    BY <1>0, <1>2, <1>6, <1>8, <2>1 DEF GpPlaced
<1>10. PpUnwritten'
  <2>1. \A k \in PpJobs : k # j => job'[k] = job[k]
    BY <1>1 DEF Others, Jobs
  <2>2. job[j].at \notin {"none", "created"}
    BY <1>0 DEF PpUnwritten
  <2>3. QED
    BY <1>0, <1>1, <1>3, <2>1, <2>2, PpKept
<1>11. SecureModesApart'
  BY <1>0, <1>2, TakeKeepsModes DEF Common
<1>12. QED
  BY <1>7, <1>8, <1>9, <1>10, <1>11 DEF Common, Base

\* Steps that leave the queues, in which no group takes a job and the PP jobs stay in
\* the middle or the end of their life.
LEMMA QueuesKept ==
  ASSUME Common, Types', GpPlaced', UNCHANGED <<gp, pp, depth>>,
         \A g \in Groups : running'[g] \in {running[g], None},
         \A k \in PpJobs :
           /\ job'[k].at = job[k].at \/ job'[k].at \notin {"none", "created"}
           /\ job'[k].fb => job[k].fb
           /\ job'[k].started = job[k].started \/ job'[k].started = 0
  PROVE  Common'
<1>1. Types /\ GpQueueExact /\ PpUnwritten /\ SecureModesApart
  BY DEF Common, Base
<1>2. GpQueueExact' /\ Queued(pp)' = Queued(pp)
  BY <1>1 DEF GpQueueExact, Queued
<1>3. PpUnwritten'
  BY <1>1, <1>2 DEF PpUnwritten
<1>4. SecureModesApart'
  BY <1>1, ModesKept DEF Types
<1>5. QED
  BY <1>2, <1>3, <1>4 DEF Common, Base

\* The end of a GP job,
LEMMA GpCompleteKeeps ==
  ASSUME Common, NEW success \in BOOLEAN, NEW notify \in BOOLEAN, GpComplete(success, notify),
         UNCHANGED <<numbered, queues, mapping, deferred, removed, deleting, done, lock,
                     session, devRefs>>
  PROVE  Common'
<1> DEFINE j == running["gp"]
<1>0. Types /\ GpPlaced
  BY DEF Common, Base
<1>1. /\ j \in GpJobs /\ j \in Jobs
      /\ job' \in [Jobs -> JobRec] /\ \A k \in Jobs \ {j} : Alike(job'[k], job[k])
      /\ job'[j].at = job[j].at
  BY <1>0, GpCompleteEffect
<1>2. running' = [running EXCEPT !["gp"] = None] /\ ending' = ending \cup {j}
  BY DEF GpComplete
<1>3. UNCHANGED <<gp, pp, depth, bigNum>>
  BY DEF queues
<1>4. /\ running' \in [Groups -> Jobs \cup {None}] /\ running'["gp"] = None
      /\ \A g \in Groups \ {"gp"} : running'[g] = running[g]
  BY <1>0, <1>2 DEF Types, Groups
<1>5. Types'
  BY <1>0, <1>1, <1>2, <1>3, <1>4 DEF Types
<1>6. \A k \in Jobs : job'[k].at = job[k].at
  BY <1>1 DEF Alike
<1>7. Queued(gp)' = Queued(gp) /\ None \notin GpJobs /\ \A k \in GpJobs : k \in Jobs
  BY <1>3 DEF Queued, Jobs
<1>8. GpPlaced'
  BY <1>0, <1>1, <1>2, <1>4, <1>6, <1>7 DEF GpPlaced
<1>9. \A k \in PpJobs : Alike(job'[k], job[k])
  BY <1>1 DEF Jobs
<1>10. \A g \in Groups : running'[g] \in {running[g], None}
  BY <1>4
<1>11. QED
  BY <1>3, <1>5, <1>8, <1>9, <1>10, QueuesKept DEF Alike

\* of a sub job of a PP job,
LEMMA PpMarkKeeps ==
  ASSUME Common, NEW g \in Groups, NEW notify \in BOOLEAN, PpMark(g, notify),
         UNCHANGED <<numbered, queues, mapping, deferred, removed, ending, deleting, lock,
                     session, devRefs>>
  PROVE  Common'
<1> DEFINE j == running[g]
<1>0. Types /\ GpPlaced
  BY DEF Common, Base
<1>1. /\ j \in PpJobs /\ j \in Jobs
      /\ job' \in [Jobs -> JobRec] /\ Others(j)
      /\ job'[j].at = job[j].at /\ job'[j].started = job[j].started /\ job'[j].fb = job[j].fb
  BY <1>0, PpMarkEffect
<1>2. /\ running' = [running EXCEPT ![g] = None] /\ done' = [job |-> j, step |-> "release"]
      /\ g # "gp"
  BY DEF PpMark
<1>3. UNCHANGED <<gp, pp, depth, bigNum>>
  BY DEF queues
<1>4. /\ running' \in [Groups -> Jobs \cup {None}] /\ running'[g] = None
      /\ \A h \in Groups \ {g} : running'[h] = running[h]
  BY <1>0, <1>2 DEF Types
<1>5. running'["gp"] = running["gp"]
  BY <1>2, <1>4 DEF Groups
<1>6. done' \in [job : PpJobs, step : {"release", "check"}]
  BY <1>1, <1>2
<1>7. Types'
  BY <1>0, <1>1, <1>3, <1>4, <1>5, <1>6 DEF Types
<1>8. Queued(gp)' = Queued(gp) /\ \A k \in GpJobs : job'[k] = job[k]
  BY <1>1, <1>3 DEF Queued, Others, Jobs
<1>9. GpPlaced'
  BY <1>0, <1>5, <1>8 DEF GpPlaced
<1>10. \A k \in PpJobs : /\ job'[k].at = job[k].at /\ job'[k].fb = job[k].fb
                         /\ job'[k].started = job[k].started
  BY <1>1 DEF Others, Jobs
<1>11. \A h \in Groups : running'[h] \in {running[h], None}
  BY <1>4
<1>12. QED
  BY <1>3, <1>7, <1>9, <1>10, <1>11, QueuesKept

\* and what follows it,
LEMMA PpReleaseKeeps ==
  ASSUME Common, PpRelease
  PROVE  Common'
<1> DEFINE j == done.job
<1>0. Types /\ GpPlaced
  BY DEF Common, Base
<1>1. /\ j \in PpJobs /\ j \in Jobs
      /\ job' \in [Jobs -> JobRec] /\ Others(j)
      /\ job'[j].at = job[j].at /\ job'[j].started = job[j].started /\ job'[j].fb = job[j].fb
      /\ done' \in [job : PpJobs, step : {"release", "check"}]
  BY <1>0, PpReleaseEffect
<1>2. UNCHANGED <<numbered, gp, pp, depth, bigNum, mapping, deferred, removed, ending, deleting,
                  running, lock, session, devRefs>>
  BY DEF PpRelease, queues, lists
<1> HIDE DEF j
<1>3. Types'
  BY <1>0, <1>1, <1>2 DEF Types
<1>4. Queued(gp)' = Queued(gp) /\ \A k \in GpJobs : job'[k] = job[k]
  BY <1>1, <1>2 DEF Queued, Others, Jobs
<1>5. GpPlaced'
  BY <1>0, <1>2, <1>4 DEF GpPlaced
<1>6. \A k \in PpJobs : /\ job'[k].at = job[k].at /\ job'[k].fb = job[k].fb
                        /\ job'[k].started = job[k].started
  BY <1>1 DEF Others, Jobs
<1>7. \A h \in Groups : running'[h] \in {running[h], None}
  BY <1>2
<1>8. QED
  BY <1>2, <1>3, <1>5, <1>6, <1>7, QueuesKept

LEMMA PpCheckKeeps ==
  ASSUME Common, PpCheck
  PROVE  Common'
<1>0. Types /\ GpPlaced
  BY DEF Common, Base
<1>1. done.job \in PpJobs /\ done.job \in Jobs /\ done.job \notin GpJobs
  BY <1>0 DEF PpCheck, Types, Jobs
<1>2. /\ UNCHANGED <<job, numbered, gp, pp, depth, bigNum, mapping, deferred, removed, deleting,
                     running, lock, session, devRefs>>
      /\ done' = None
      /\ ending' \subseteq ending \cup {done.job}
  BY DEF PpCheck, queues
<1>3. Types'
  BY <1>0, <1>1, <1>2 DEF Types
<1>4. Queued(gp)' = Queued(gp)
  BY <1>2 DEF Queued
<1>5. GpPlaced'
  <2>1. \A k \in GpJobs : k \in ending' => k \in ending
    BY <1>1, <1>2
  <2>2. job' = job /\ running' = running /\ removed' = removed
    BY <1>2
  <2>3. QED
    BY <1>0, <1>4, <2>1, <2>2 DEF GpPlaced
<1>6. QED
  BY <1>2, <1>3, <1>5, QueuesKept

\* and the end of the job itself.
LEMMA EndKeeps ==
  ASSUME Common, NEW j \in Jobs, EndJob(j)
  PROVE  Common'
<1>0. Types /\ GpPlaced /\ j \in ending
  BY DEF Common, Base, EndJob
<1>1. Ended(job', job, j, 0, job[j].notify)
  BY <1>0, EndEffect
<1>2. /\ job' \in [Jobs -> JobRec] /\ \A k \in Jobs \ {j} : Alike(job'[k], job[k])
      /\ job'[j].fb = job[j].fb
      /\ j \in GpJobs => job'[j].at = "deleted"
      /\ j \in PpJobs => job'[j].at = "deleting" /\ job'[j].started = job[j].started
  BY <1>1 DEF Ended
<1>3. /\ UNCHANGED <<numbered, gp, pp, depth, bigNum, mapping, deferred, removed,
                     running, done, lock, session>>
      /\ ending' = ending \ {j} /\ devRefs' = devRefs - 1
  BY DEF EndJob, queues
<1>4. deleting' \in SUBSET PpJobs
  BY <1>0 DEF EndJob, CompleteToList, Types
<1>5. Types'
  BY <1>0, <1>2, <1>3, <1>4 DEF Types
<1>6. GpPlaced'
  <2>1. Queued(gp)' = Queued(gp)
    BY <1>3 DEF Queued
  <2>2. \A k \in GpJobs : IF k = j THEN job'[k].at = "deleted" ELSE job'[k].at = job[k].at
    BY <1>2 DEF Alike, Jobs
  <2>3. ending' = ending \ {j} /\ removed' = removed /\ running' = running
    BY <1>3
  <2>4. QED
    BY <1>0, <2>1, <2>2, <2>3 DEF GpPlaced
<1>7. \A k \in PpJobs : /\ job'[k].at = job[k].at \/ job'[k].at = "deleting"
                        /\ job'[k].fb = job[k].fb /\ job'[k].started = job[k].started
  BY <1>2 DEF Alike, Jobs
<1>8. \A h \in Groups : running'[h] \in {running[h], None}
  BY <1>3
<1>9. QED
  BY <1>3, <1>5, <1>6, <1>7, <1>8, QueuesKept

\* Steps of the executor.
LEMMA ExecuteKeeps ==
  ASSUME Common, Execute
  PROVE  Common'
<1>0. Types
  BY DEF Common, Base
<1>1. CASE GpGet
  BY <1>1, GpGetKeeps
<1>2. CASE PpVirtualGet
  <2>1. /\ VirtualPeek # None /\ MayStart /\ TakeSubJob(VirtualPeek, "virtual")
        /\ VirtualPeek \in Protected <=> SecureNeeded
    BY <1>2 DEF PpVirtualGet, MaySchedule
  <2>2. VirtualPeek \in PpJobs /\ VirtualPeek \in Queued(pp) /\ "virtual" \in Groups \ {"gp"}
    BY <1>0, <2>1, VirtualFits DEF Groups
  <2>3. QED
    BY <2>1, <2>2, TakeKeeps
<1>3. ASSUME NEW g \in PpCores, PpPhysicalGet(g) PROVE Common'
  <2>1. PhysicalHeadCount(SecureNeeded) > 0 /\ MayStart /\ TakeSubJob(PhysicalPeek, g)
    BY <1>3 DEF PpPhysicalGet, MaySchedule
  <2>2. /\ PhysicalPeek \in PpJobs /\ PhysicalPeek \in Queued(pp)
        /\ PhysicalPeek \in Protected <=> SecureNeeded
    BY <1>0, <2>1, PeekFits
  <2>3. g \in Groups \ {"gp"}
    BY DEF Groups
  <2>4. QED
    BY <2>1, <2>2, <2>3, TakeKeeps
<1>4. ASSUME NEW g \in Groups, NEW success \in BOOLEAN, NEW zapped \in BOOLEAN,
             GroupDone(g, success, zapped)
      PROVE  Common'
  <2> DEFINE yes == TRUE
             told == ~zapped
  <2>1. UNCHANGED <<numbered, queues, mapping, deferred, removed, deleting, lock, session, devRefs>>
    BY <1>4 DEF GroupDone
  <2>2. \/ GpComplete(success, yes) /\ UNCHANGED done
        \/ PpMark(g, told) /\ UNCHANGED ending
    BY <1>4 DEF GroupDone
  <2>3. yes \in BOOLEAN /\ told \in BOOLEAN
    OBVIOUS
  <2> HIDE DEF yes, told
  <2>4. QED
    BY <2>1, <2>2, <2>3, GpCompleteKeeps, PpMarkKeeps
<1>5. QED
  BY <1>1, <1>2, <1>3, <1>4, PpReleaseKeeps, PpCheckKeeps, EndKeeps DEF Execute

\* Steps that close a session: those that change the session only,
LEMMA SessionKeeps ==
  ASSUME Common, session' \in [Sessions -> [phase : Phases, high : BOOLEAN]],
         UNCHANGED <<job, numbered, queues, lists, running, done, lock, devRefs>>
  PROVE  Common'
<1>0. Types /\ GpPlaced
  BY DEF Common, Base
<1>1. UNCHANGED <<job, numbered, gp, pp, depth, bigNum, mapping, deferred, removed, ending,
                  deleting, running, done, lock, devRefs>>
  BY DEF queues, lists
<1>2. Types'
  BY <1>0, <1>1 DEF Types
<1>3. GpPlaced'
  BY <1>0, <1>1 DEF GpPlaced, Queued
<1>4. QED
  BY <1>1, <1>2, <1>3, QueuesKept

LEMMA EnterTyped ==
  ASSUME Types, NEW s \in Sessions, NEW from, NEW to \in Phases, Enter(s, from, to)
  PROVE  /\ session' \in [Sessions -> [phase : Phases, high : BOOLEAN]]
         /\ session[s].phase = from /\ session'[s].phase = to
         /\ \A u \in Sessions \ {s} : session'[u] = session[u]
<1>1. session \in [Sessions -> [phase : Phases, high : BOOLEAN]]
  BY DEF Types
<1>2. session' = [session EXCEPT ![s].phase = to] /\ session[s].phase = from
  BY DEF Enter
<1> DEFINE r == [session[s] EXCEPT !.phase = to]
<1>3. r \in [phase : Phases, high : BOOLEAN] /\ r.phase = to
  BY <1>1
<1>4. session' = [session EXCEPT ![s] = r]
  BY <1>2
<1> HIDE DEF r
<1>5. QED
  BY <1>1, <1>2, <1>3, <1>4

\* that which takes the jobs off the queues,
LEMMA AbortMarkKeeps ==
  ASSUME Common, NEW s \in Sessions, AbortMark(s)
  PROVE  Common'
<1> DEFINE G == JobsOf(s) \cap Queued(gp)
           P == JobsOf(s) \cap Queued(pp)
<1>0. Types /\ GpPlaced /\ GpQueueExact /\ PpUnwritten
  BY DEF Common, Base
<1>1. /\ G \subseteq GpJobs /\ P \subseteq PpJobs
      /\ job' \in [Jobs -> JobRec]
      /\ \A k \in Jobs \ (G \cup P) : job'[k] = job[k]
      /\ \A k \in G : job'[k].at = "removed"
      /\ \A k \in P : job'[k].at = "marked" /\ job'[k].fb = FALSE
  BY <1>0, AbortMarkEffect
<1>2. /\ gp' = [p \in Priorities |-> Without(gp[p], G)]
      /\ pp' = [p \in Priorities |-> Without(pp[p], P)]
      /\ removed' = removed \cup G /\ lock' = s
      /\ UNCHANGED <<numbered, mapping, deferred, ending, deleting, running, done, devRefs>>
      /\ Enter(s, "aborting", "marked")
  BY DEF AbortMark, Queued
<1> DEFINE n == depth.pp - Cardinality(Waiting(P))
<1>3. /\ depth' = [gp |-> depth.gp - Cardinality(G), pp |-> n]
      /\ bigNum' = bigNum - Cardinality(G \cap Big)
  BY DEF AbortMark, Queued
<1>4. G \in SUBSET Queued(gp) /\ IsFiniteSet(G \cap Big)
  <2>1. IsFiniteSet(G \cap Big)
    BY <1>1, FiniteAssumption, FS_Subset DEF Jobs
  <2>2. QED
    BY <2>1
<1>5. bigNum' \in Int
  <2>1. Cardinality(G \cap Big) \in Nat
    BY <1>4, FS_CardinalityType
  <2>2. QED
    BY <1>0, <1>3, <2>1 DEF Types
<1> HIDE DEF G, P, n
<1>6. /\ gp' \in [Priorities -> Seq(GpJobs)] /\ Depths(depth')
      /\ GpQueueExact' /\ Queued(gp)' = Queued(gp) \ G
  BY <1>0, <1>2, <1>3, <1>4, GpQueueWithout
<1>7. pp' \in [Priorities -> Seq(PpJobs)] /\ Queued(pp') = Queued(pp) \ P
  BY <1>0, <1>2, PpQueueWithout
<1>8. session' \in [Sessions -> [phase : Phases, high : BOOLEAN]]
  BY <1>0, <1>2, EnterTyped DEF Phases
<1>9. removed' \in SUBSET Jobs
  BY <1>0, <1>1, <1>2 DEF Types, Jobs
<1>10. Types'
  BY <1>0, <1>1, <1>2, <1>5, <1>6, <1>7, <1>8, <1>9 DEF Types
<1>11. GpPlaced'
  <2>1. \A k \in GpJobs : IF k \in G THEN job[k].at = "queued" /\ job'[k].at = "removed"
                          ELSE job'[k] = job[k]
    BY <1>0, <1>1, <1>4 DEF GpPlaced, Jobs
  <2>2. ending' = ending /\ running' = running /\ removed' = removed \cup G
    BY <1>2
  <2>3. QED
    BY <1>0, <1>6, <2>1, <2>2 DEF GpPlaced
<1>12. PpUnwritten'
  <2>1. \A k \in PpJobs : k \notin P => job'[k] = job[k]
    BY <1>1 DEF Jobs
  <2>2. QED
    BY <1>0, <1>1, <1>7, <2>1, PpKept
<1>13. SecureModesApart'
  BY <1>0, <1>2, ModesKept DEF Common, Types
<1>14. QED
  BY <1>6, <1>10, <1>11, <1>12, <1>13 DEF Common, Base

\* that which looks at them again,
LEMMA AbortCheckKeeps ==
  ASSUME Common, NEW s \in Sessions, AbortCheck(s)
  PROVE  Common'
<1> DEFINE M == {j \in JobsOf(s) : job[j].at = "marked"}
<1>0. Types /\ GpPlaced /\ PpUnwritten
  BY DEF Common, Base
<1>1. /\ M \subseteq Jobs /\ job' \in [Jobs -> JobRec]
      /\ \A k \in Jobs \ M : job'[k] = job[k]
      /\ \A k \in M : /\ job'[k].at = IF IsComplete(k) THEN "removed" ELSE "taken"
                      /\ job'[k].started = job[k].started /\ job'[k].fb = job[k].fb
  BY <1>0, AbortCheckEffect DEF SameCounts
<1>2. /\ UNCHANGED <<numbered, gp, pp, depth, bigNum, mapping, deferred, ending, deleting,
                     running, done, devRefs>>
      /\ removed' = removed \cup {j \in M : IsComplete(j)}
      /\ lock' = None /\ Enter(s, "marked", "removing")
  BY DEF AbortCheck, queues
<1>3. session' \in [Sessions -> [phase : Phases, high : BOOLEAN]]
  BY <1>0, <1>2, EnterTyped DEF Phases
<1>4. removed' \in SUBSET Jobs
  BY <1>0, <1>1, <1>2 DEF Types
<1>5. Types'
  BY <1>0, <1>1, <1>2, <1>3, <1>4 DEF Types
<1>6. \A k \in M : job[k].at = "marked"
  OBVIOUS
<1> HIDE DEF M
<1>7. GpPlaced'
  <2>1. Queued(gp)' = Queued(gp)
    BY <1>2 DEF Queued
  <2>2. \A k \in GpJobs \cap M : k \notin Queued(gp) \cup ending \cup removed /\ running["gp"] # k
    BY <1>0, <1>6 DEF GpPlaced
  <2>3. \A k \in GpJobs : IF k \in M THEN k \in removed' => job'[k].at = "removed"
                          ELSE job'[k] = job[k] /\ (k \in removed' => k \in removed)
    BY <1>1, <1>2, <2>2 DEF Jobs
  <2>4. ending' = ending /\ running' = running
    BY <1>2
  <2>5. QED
    BY <1>0, <2>1, <2>2, <2>3, <2>4 DEF GpPlaced
<1>8. \A k \in PpJobs : /\ job'[k].at = job[k].at \/ job'[k].at \notin {"none", "created"}
                        /\ job'[k].fb = job[k].fb /\ job'[k].started = job[k].started
  BY <1>1 DEF Jobs
<1>9. \A h \in Groups : running'[h] \in {running[h], None}
  BY <1>2
<1>10. QED
  BY <1>2, <1>5, <1>7, <1>8, <1>9, QueuesKept

\* and that which completes one.
LEMMA AbortJobKeeps ==
  ASSUME Common, NEW j \in Jobs, AbortJob(j)
  PROVE  Common'
<1>0. Types /\ GpPlaced /\ j \in removed
  BY DEF Common, Base, AbortJob
<1>1. /\ job' \in [Jobs -> JobRec] /\ \A k \in Jobs \ {j} : Alike(job'[k], job[k])
      /\ job'[j].fb = job[j].fb
      /\ j \in GpJobs => job'[j].at = "deleted"
      /\ j \in PpJobs => job'[j].at = "deleting" /\ job'[j].started = job[j].started
  BY <1>0, AbortEffect
<1>2. /\ UNCHANGED <<numbered, gp, pp, depth, bigNum, mapping, deferred, ending,
                     running, done, lock, session>>
      /\ removed' = removed \ {j} /\ devRefs' = devRefs - 1
  BY DEF AbortJob, queues
<1>3. deleting' \in SUBSET PpJobs
  BY <1>0 DEF AbortJob, CompleteToList, Types
<1>4. Types'
  BY <1>0, <1>1, <1>2, <1>3 DEF Types
<1>5. GpPlaced'
  <2>1. Queued(gp)' = Queued(gp)
    BY <1>2 DEF Queued
  <2>2. \A k \in GpJobs : k # j => job'[k].at = job[k].at
    BY <1>1 DEF Alike, Jobs
  <2>3. ending' = ending /\ removed' = removed \ {j} /\ running' = running
    BY <1>2
  <2>4. QED
    BY <1>0, <2>1, <2>2, <2>3 DEF GpPlaced
<1>6. \A k \in PpJobs : /\ job'[k].at = job[k].at \/ job'[k].at = "deleting"
                        /\ job'[k].fb = job[k].fb /\ job'[k].started = job[k].started
  BY <1>1 DEF Alike, Jobs
<1>7. \A h \in Groups : running'[h] \in {running[h], None}
  BY <1>2
<1>8. QED
  BY <1>2, <1>4, <1>5, <1>6, <1>7, QueuesKept

\* Steps of a thread that closes a session.
LEMMA ClosingKeeps ==
  ASSUME Common, NEW s \in Sessions, Closing(s)
  PROVE  Common'
<1>0. Types
  BY DEF Common, Base
<1>1. CASE AbortRunning(s) \/ AbortTimeline(s) \/ TimelineEmpty(s) \/ Closed(s)
  <2>1. \E from, to \in Phases : Enter(s, from, to)
    BY <1>1 DEF AbortRunning, AbortTimeline, TimelineEmpty, Closed, Phases
  <2>2. session' \in [Sessions -> [phase : Phases, high : BOOLEAN]]
    BY <1>0, <2>1, EnterTyped
  <2>3. UNCHANGED <<job, numbered, queues, lists, running, done, lock, devRefs>>
    BY <1>1 DEF AbortRunning, AbortTimeline, TimelineEmpty, Closed
  <2>4. QED
    BY <2>2, <2>3, SessionKeeps
<1>2. ASSUME NEW g \in Groups, AbortGroup(s, g) PROVE Common'
  <2> DEFINE no == FALSE
  <2>1. UNCHANGED <<numbered, queues, mapping, deferred, removed, deleting, lock, session, devRefs>>
    BY <1>2 DEF AbortGroup
  <2>2. \/ GpComplete(no, no) /\ UNCHANGED done
        \/ PpMark(g, no) /\ UNCHANGED ending
    BY <1>2 DEF AbortGroup
  <2>3. no \in BOOLEAN
    OBVIOUS
  <2> HIDE DEF no
  <2>4. QED
    BY <2>1, <2>2, <2>3, GpCompleteKeeps, PpMarkKeeps
<1>3. ASSUME NEW j \in JobsOf(s), AbortJob(j) PROVE Common'
  BY <1>3, AbortJobKeeps DEF JobsOf
<1>4. QED
  BY <1>1, <1>2, <1>3, AbortMarkKeeps, AbortCheckKeeps DEF Closing

\* The other requests of a user.
LEMMA RequestsKeep ==
  ASSUME Common, NEW s \in Sessions, Close(s) \/ RequestHighPriority(s) \/ DisableWb(s)
  PROVE  Common'
<1>0. Types /\ GpPlaced
  BY DEF Common, Base
<1>1. CASE Close(s)
  <2>1. session' \in [Sessions -> [phase : Phases, high : BOOLEAN]]
    BY <1>0, <1>1, EnterTyped DEF Close, Phases
  <2>2. QED
    BY <1>1, <2>1, SessionKeeps DEF Close
<1>2. CASE RequestHighPriority(s)
  <2>1. session' \in [Sessions -> [phase : Phases, high : BOOLEAN]]
    <3> DEFINE r == [session[s] EXCEPT !.high = TRUE]
    <3>1. session \in [Sessions -> [phase : Phases, high : BOOLEAN]]
      BY <1>0 DEF Types
    <3>2. r \in [phase : Phases, high : BOOLEAN]
      BY <3>1
    <3>3. session' = [session EXCEPT ![s] = r]
      BY <1>2 DEF RequestHighPriority
    <3> HIDE DEF r
    <3>4. QED
      BY <3>1, <3>2, <3>3
  <2>2. QED
    BY <1>2, <2>1, SessionKeeps DEF RequestHighPriority
<1>3. CASE DisableWb(s)
  <2>1. /\ job' \in [Jobs -> JobRec]
        /\ \A k \in Jobs : /\ job'[k].at = job[k].at /\ job'[k].fb = job[k].fb
                           /\ job'[k].started = job[k].started
    BY <1>0, <1>3, DisableEffect DEF SameCounts
  <2>2. UNCHANGED <<numbered, gp, pp, depth, bigNum, mapping, deferred, removed, ending, deleting,
                    running, done, lock, session, devRefs>>
    BY <1>3 DEF DisableWb, queues, lists
  <2>3. Types'
    BY <1>0, <2>1, <2>2 DEF Types
  <2>4. GpPlaced'
    BY <1>0, <2>1, <2>2 DEF GpPlaced, Queued, Jobs
  <2>5. \A k \in PpJobs : k \in Jobs
    BY DEF Jobs
  <2>6. QED
    BY <2>1, <2>2, <2>3, <2>4, <2>5, QueuesKept
<1>4. QED
  BY <1>1, <1>2, <1>3

\* Every step.
LEMMA NextCommon ==
  ASSUME Common, [Next]_vars
  PROVE  Common'
<1>1. ASSUME UNCHANGED <<job, numbered, queues, lists, running, done, lock, session, devRefs>>
      PROVE  Common'
  <2>1. session' \in [Sessions -> [phase : Phases, high : BOOLEAN]]
    BY <1>1 DEF Common, Base, Types
  <2>2. QED
    BY <1>1, <2>1, SessionKeeps
<1>2. CASE UNCHANGED vars
  BY <1>1, <1>2 DEF vars
<1>3. ASSUME NEW t \in Threads, PendingSubmit(t) \/ Interrupted(t) PROVE Common'
  BY <1>1, <1>3 DEF PendingSubmit, Interrupted
<1>4. QED
  BY <1>2, <1>3, StartKeeps, WorkersKeep, ExecuteKeeps, ClosingKeeps, RequestsKeep DEF Next

LEMMA SpecCommon == Spec => []Common
BY InitCommon, NextCommon, PTL DEF Spec

\* A protected PP job never shares the GPU with a GP job or an unprotected PP job
\* (mali_executor_schedule, mali_scheduler_schedule_is_early_out).
THEOREM ModesApart == Spec => []SecureModesApart
<1>1. Common => SecureModesApart
  BY DEF Common
<1>2. QED
  BY <1>1, SpecCommon, PTL

-----------------------------------------------------------------------------
(* The output of a job that has started *)

\* What WritebackKept says of a job.
OutputKept(j) == job[j].started > 0 /\ job'[j].started > 0 => job'[j].wb = job[j].wb

LEMMA OutputStep ==
  ASSUME Common, Next
  PROVE  \A j \in PpJobs : OutputKept(j)
<1>0. Types /\ GpQueueExact /\ GpPlaced /\ PpUnwritten /\ \A k \in PpJobs : k \in Jobs /\ k \notin GpJobs
  BY DEF Common, Base, Jobs
<1>1. ASSUME NEW j \in Jobs,
             \A k \in Jobs \ {j} : job'[k] = job[k] \/ Alike(job'[k], job[k]),
             j \in PpJobs => job'[j].wb = job[j].wb
      PROVE  \A k \in PpJobs : OutputKept(k)
  BY <1>0, <1>1 DEF OutputKept, Alike
<1>2. CASE Start
  <2>1. ASSUME NEW j \in Jobs, GpStartJob(j) \/ PpStartJob(j) PROVE \A k \in PpJobs : OutputKept(k)
    <3>1. /\ Others(j) /\ job'[j].wb = job[j].wb
      <4>1. PICK a \in {"tracked", "created"} : job' = [job EXCEPT ![j].at = a, ![j].nr = numbered + 1]
        BY <2>1 DEF GpStartJob, PpStartJob
      <4>2. a \in Places
        BY DEF Places
      <4>3. QED
        BY <1>0, <4>1, <4>2, StartEffect
    <3>2. QED
      BY <1>1, <3>1 DEF Others
  <2>2. ASSUME NEW g \in GpJobs, NEW created \in BOOLEAN, PpAndGpStartJob(g, created)
        PROVE  \A k \in PpJobs : OutputKept(k)
    <3> DEFINE p == Partner[g]
    <3>1. /\ \A k \in Jobs \ {g, p} : job'[k] = job[k]
          /\ \A k \in {g, p} : SameCounts(job'[k], job[k]) /\ job'[k].wb = job[k].wb
      BY <1>0, <2>2, PairEffect
    <3> HIDE DEF p
    <3>2. QED
      BY <1>0, <3>1 DEF OutputKept
  <2>3. ASSUME NEW j \in PpJobs, Submission(j)
        PROVE  \A k \in PpJobs : OutputKept(k)
    BY <1>0, <1>1, <2>3, SubmitEffect DEF Others
  <2>4. QED
    BY <1>2, <2>1, <2>2, <2>3 DEF Start, Jobs
<1>3. CASE Workers
  <2>1. ASSUME NEW j \in Jobs, RefuseJob(j) PROVE \A k \in PpJobs : OutputKept(k)
    BY <1>0, <1>1, <2>1, RefuseEffect
  <2>2. ASSUME NEW j \in Jobs, QueueJob(j) PROVE \A k \in PpJobs : OutputKept(k)
    <3>1. "queued" \in Places /\ job' = [job EXCEPT ![j].at = "queued"]
      BY <2>2 DEF Places, QueueJob
    <3>2. Others(j) /\ job'[j].wb = job[j].wb
      BY <1>0, <3>1, AtEffect
    <3>3. QED
      BY <1>1, <3>2 DEF Others
  <2>3. ASSUME NEW j \in Jobs, job' = [job EXCEPT ![j].at = "deferred"]
        PROVE  \A k \in PpJobs : OutputKept(k)
    <3>1. "deferred" \in Places
      BY DEF Places
    <3>2. Others(j) /\ job'[j].wb = job[j].wb
      BY <1>0, <2>3, <3>1, AtEffect
    <3>3. QED
      BY <1>1, <3>2 DEF Others
  <2>4. ASSUME NEW j \in Jobs, NEW error \in BOOLEAN, Activate(j, error)
        PROVE  \A k \in PpJobs : OutputKept(k)
    BY <2>1, <2>2, <2>3, <2>4 DEF Activate
  <2>5. CASE DeferredTake
    BY <2>5 DEF DeferredTake, OutputKept
  <2>6. CASE DeferredQueue
    <3>1. Head(mapping) \in Jobs
      BY <1>0, <2>6, HeadFacts DEF DeferredQueue, Types, Jobs
    <3>2. QED
      BY <2>1, <2>2, <2>6, <3>1 DEF DeferredQueue
  <2>7. ASSUME NEW j \in PpJobs, DeletePpJob(j) PROVE \A k \in PpJobs : OutputKept(k)
    <3>1. Others(j) /\ job'[j].started = 0
      BY <1>0, <2>7, DeleteEffect
    <3>2. QED
      BY <1>0, <3>1 DEF Others, OutputKept
  <2>8. QED
    BY <1>3, <2>4, <2>5, <2>6, <2>7 DEF Workers
<1>4. ASSUME NEW success \in BOOLEAN, NEW notify \in BOOLEAN, GpComplete(success, notify)
      PROVE  \A k \in PpJobs : OutputKept(k)
  BY <1>0, <1>1, <1>4, GpCompleteEffect
<1>5. ASSUME NEW g \in Groups, NEW notify \in BOOLEAN, PpMark(g, notify)
      PROVE  \A k \in PpJobs : OutputKept(k)
  BY <1>0, <1>1, <1>5, PpMarkEffect DEF Others
<1>6. CASE Execute
  <2>1. CASE GpGet
    <3> DEFINE p == IF gp["high"] # <<>> THEN "high" ELSE "normal"
               j == Head(gp[p])
    <3>1. p \in Priorities /\ gp[p] # <<>> /\ gp[p] \in Seq(GpJobs)
      <4>1. p \in Priorities /\ gp[p] # <<>>
        BY <1>0, <2>1, GpHead DEF GpGet, Priorities
      <4>2. QED
        BY <1>0, <4>1 DEF Types
    <3>2. j \in GpJobs
      BY <3>1, HeadFacts
    <3>3. job' = [job EXCEPT ![j].at = "taken", ![j].started = 1]
      BY <2>1 DEF GpGet
    <3> HIDE DEF j
    <3>4. Others(j) /\ job'[j].wb = job[j].wb /\ j \in Jobs
      BY <1>0, <3>2, <3>3, GpGetEffect DEF Jobs
    <3>5. QED
      BY <1>1, <3>4 DEF Others
  <2>2. ASSUME NEW j \in PpJobs, NEW g, TakeSubJob(j, g) PROVE \A k \in PpJobs : OutputKept(k)
    <3>1. Others(j) /\ job'[j].wb = job[j].wb
      BY <1>0, <2>2, TakeEffect
    <3>2. QED
      BY <1>0, <1>1, <3>1 DEF Others
  <2>3. CASE PpVirtualGet
    BY <1>0, <2>2, <2>3, VirtualFits DEF PpVirtualGet
  <2>4. ASSUME NEW g \in PpCores, PpPhysicalGet(g) PROVE \A k \in PpJobs : OutputKept(k)
    <3>1. PhysicalPeek \in PpJobs
      BY <1>0, <2>4, PeekFits DEF PpPhysicalGet
    <3>2. QED
      BY <2>2, <2>4, <3>1 DEF PpPhysicalGet
  <2>5. ASSUME NEW g \in Groups, NEW success \in BOOLEAN, NEW zapped \in BOOLEAN,
               GroupDone(g, success, zapped)
        PROVE  \A k \in PpJobs : OutputKept(k)
    <3> DEFINE yes == TRUE
               told == ~zapped
    <3>1. GpComplete(success, yes) \/ PpMark(g, told)
      BY <2>5 DEF GroupDone
    <3>2. yes \in BOOLEAN /\ told \in BOOLEAN
      OBVIOUS
    <3> HIDE DEF yes, told
    <3>3. QED
      BY <1>4, <1>5, <3>1, <3>2
  <2>6. CASE PpRelease
    BY <1>0, <1>1, <2>6, PpReleaseEffect DEF Others
  <2>7. CASE PpCheck
    BY <2>7 DEF PpCheck, OutputKept
  <2>8. ASSUME NEW j \in Jobs, EndJob(j) PROVE \A k \in PpJobs : OutputKept(k)
    <3>1. Ended(job', job, j, 0, job[j].notify)
      BY <1>0, <2>8, EndEffect
    <3>2. QED
      BY <1>1, <3>1 DEF Ended
  <2>9. QED
    BY <1>6, <2>1, <2>3, <2>4, <2>5, <2>6, <2>7, <2>8 DEF Execute
<1>7. ASSUME NEW s \in Sessions, Closing(s) PROVE \A k \in PpJobs : OutputKept(k)
  <2>1. CASE AbortRunning(s) \/ AbortTimeline(s) \/ TimelineEmpty(s) \/ Closed(s)
    BY <2>1 DEF AbortRunning, AbortTimeline, TimelineEmpty, Closed, OutputKept
  <2>2. CASE AbortMark(s)
    <3> DEFINE G == JobsOf(s) \cap Queued(gp)
               P == JobsOf(s) \cap Queued(pp)
    <3>1. /\ G \subseteq GpJobs /\ P \subseteq PpJobs
          /\ \A k \in Jobs \ (G \cup P) : job'[k] = job[k]
          /\ \A k \in P : job'[k].wb = job[k].wb
      BY <1>0, <2>2, AbortMarkEffect
    <3> HIDE DEF G, P
    <3>2. \A k \in PpJobs : job'[k] = job[k] \/ job'[k].wb = job[k].wb
      BY <1>0, <3>1
    <3>3. QED
      BY <3>2 DEF OutputKept
  <2>3. CASE AbortCheck(s)
    <3>1. \A k \in Jobs : job'[k] = job[k] \/ job'[k].wb = job[k].wb
      BY <1>0, <2>3, AbortCheckEffect
    <3>2. QED
      BY <1>0, <3>1 DEF OutputKept
  <2>4. ASSUME NEW j \in JobsOf(s), AbortJob(j) PROVE \A k \in PpJobs : OutputKept(k)
    <3>1. j \in Jobs
      BY DEF JobsOf
    <3>2. QED
      BY <1>0, <1>1, <2>4, <3>1, AbortEffect
  <2>5. ASSUME NEW g \in Groups, AbortGroup(s, g) PROVE \A k \in PpJobs : OutputKept(k)
    <3> DEFINE no == FALSE
    <3>1. GpComplete(no, no) \/ PpMark(g, no)
      BY <2>5 DEF AbortGroup
    <3>2. no \in BOOLEAN
      OBVIOUS
    <3> HIDE DEF no
    <3>3. QED
      BY <1>4, <1>5, <3>1, <3>2
  <2>6. QED
    BY <1>7, <2>1, <2>2, <2>3, <2>4, <2>5 DEF Closing
<1>8. ASSUME NEW s \in Sessions, DisableWb(s) PROVE \A k \in PpJobs : OutputKept(k)
  <2>1. \A k \in Jobs : job'[k].wb # job[k].wb => job[k].fb
    BY <1>0, <1>8, DisableEffect
  <2>2. \A k \in PpJobs : job[k].fb => job[k].started = 0
    BY <1>0 DEF PpUnwritten
  <2>3. QED
    BY <1>0, <2>1, <2>2 DEF OutputKept
<1>9. ASSUME job' = job PROVE \A k \in PpJobs : OutputKept(k)
  BY <1>9 DEF OutputKept
<1>10. QED
  BY <1>2, <1>3, <1>6, <1>7, <1>8, <1>9
     DEF Next, Close, RequestHighPriority, PendingSubmit, Interrupted

\* mali_pp_job_disable_wb does not reach a job once one of its sub jobs has started: the
\* job leaves the list of its frame builder with its first sub job
\* (mali_scheduler_job_pp_physical_get, _mali_ukk_pp_job_disable_wb).
THEOREM OutputOfStarted == Spec => WritebackKept
<1>1. Common /\ [Next]_vars => [\A j \in PpJobs : OutputKept(j)]_vars
  BY OutputStep
<1>2. QED
  BY <1>1, SpecCommon, PTL DEF Spec, WritebackKept, OutputKept

-----------------------------------------------------------------------------
(* The life of a job, when the executor and the scheduler do not race *)

OnGroups(j) == {g \in Groups : running[g] = j}
Pending(j) == done # None /\ done.job = j

\* The states before a job is queued, and those of a job that holds a reference on the
\* powered device.
Before == {"none", "created", "tracked", "deferred", "leaked"}
Held == {"queued", "taken", "marked", "removed"}

\* The counts of a job go with its place,
Counted(j) ==
  LET r == job[j] IN
  /\ Cardinality(OnGroups(j)) = r.started - r.completed /\ 0 <= r.completed
  /\ r.released <= 1 /\ r.ended <= 1 /\ r.told <= 1
  /\ r.at \in Before =>
       r.started = 0 /\ r.completed = 0 /\ r.released = 0 /\ r.ended = 0 /\ r.told = 0
  /\ r.at \in Held => r.ended = 0 /\ r.told = 0
  /\ r.at \in Held \ {"taken"} => r.released = 0
  /\ r.at = "queued" => r.started < Num(j)
  /\ r.at \in {"taken", "marked"} => r.started = Num(j)
  /\ r.at \in {"removed", "deleting", "deleted"} => r.completed = r.started
  /\ r.at \in {"removed", "deleting"} /\ j \in PpJobs => r.started = Num(j)
  /\ r.at = "taken" /\ r.released = 1 => r.completed = r.started
  /\ r.at \in {"marked", "deleting"} => j \in PpJobs
  /\ r.at = "deleting" => r.ended = 1 /\ r.told = 0
  /\ r.at = "deleted" /\ r.ended = 1 /\ r.notify /\ j \notin Silent => r.told = 1
  /\ r.fb => j \in PpJobs /\ r.at \in {"created", "tracked", "deferred", "queued"}

\* and it is where its place says.
Located(j) ==
  LET r == job[j] IN
  /\ j \in Queued(gp) \cup Queued(pp) => r.at = "queued"
  /\ j \in ToSet(mapping) \cup ToSet(deferred) => r.at = "deferred"
  /\ j \in removed => r.at = "removed"
  /\ j \in deleting <=> r.at = "deleting"
  /\ j \in ending => r.at = "taken" /\ r.completed = r.started /\ r.released = 1 /\ ~Pending(j)
  /\ r.at = "taken" /\ r.completed = r.started => j \in ending \/ Pending(j)
  /\ Pending(j) => /\ r.at \in {"queued", "taken"}
                   /\ done.step = "release" => r.released = 0
                   /\ done.step = "check" /\ r.completed = Num(j) => r.released = 1
  /\ r.at = "marked" => lock = Session[j]

\* What a session that closes has left behind.
Left(j) ==
  LET phase == session[Session[j]].phase IN
  /\ job[j].at = "created" => phase = "open"
  /\ phase \in {"flushing", "closed"} =>
       job[j].at \in {"none", "leaked", "deleted"} \/ job[j].released = 1
  /\ phase = "closed" => job[j].at \in {"none", "leaked", "deleted"}

\* The lists of the worker, and the locks.
Deferrals ==
  /\ Distinct(mapping) /\ Distinct(deferred) /\ ToSet(mapping) \cap ToSet(deferred) = {}
  /\ lock # None => done = None

HeldJobs == {j \in Jobs : job[j].at \in Held}
DeviceCounted == devRefs = Cardinality(HeldJobs)

Fine(j) == Counted(j) /\ Located(j) /\ Left(j)
Accounts == (\A j \in Jobs : Fine(j)) /\ Deferrals /\ DeviceCounted
Inv == Common /\ Accounts

LEMMA GroupsFinite ==
  ASSUME NEW j
  PROVE  IsFiniteSet(OnGroups(j)) /\ Cardinality(OnGroups(j)) \in Nat
<1>1. IsFiniteSet({"gp", "virtual"}) /\ IsFiniteSet(Groups)
  <2>1. IsFiniteSet({"gp"}) /\ IsFiniteSet({"gp"} \cup {"virtual"})
    BY FS_EmptySet, FS_AddElement, FS_Singleton
  <2>2. {"gp"} \cup {"virtual"} = {"gp", "virtual"}
    OBVIOUS
  <2>3. IsFiniteSet({"gp", "virtual"})
    BY <2>1, <2>2
  <2>4. QED
    BY <2>3, FS_Union DEF Groups
<1>2. OnGroups(j) \subseteq Groups
  BY DEF OnGroups
<1>3. QED
  BY <1>1, <1>2, FS_Subset, FS_CardinalityType

\* The groups that work for a job when one takes it, or is done with it.
LEMMA GroupTakes ==
  ASSUME Types, NEW g \in Groups, NEW j \in Jobs, running[g] = None,
         running' = [running EXCEPT ![g] = j]
  PROVE  /\ Cardinality(OnGroups(j)') = Cardinality(OnGroups(j)) + 1
         /\ \A k \in Jobs \ {j} : OnGroups(k)' = OnGroups(k)
<1>1. running'[g] = j /\ \A h \in Groups \ {g} : running'[h] = running[h]
  BY DEF Types
<1>2. OnGroups(j)' = OnGroups(j) \cup {g} /\ g \notin OnGroups(j)
  BY <1>1 DEF OnGroups, Jobs
<1>3. Cardinality(OnGroups(j) \cup {g}) = Cardinality(OnGroups(j)) + 1
  BY <1>2, GroupsFinite, FS_AddElement
<1>4. \A k \in Jobs \ {j} : OnGroups(k)' = OnGroups(k)
  BY <1>1 DEF OnGroups, Jobs
<1>5. QED
  BY <1>2, <1>3, <1>4

LEMMA GroupLeaves ==
  ASSUME Types, NEW g \in Groups, NEW j \in Jobs, running[g] = j,
         running' = [running EXCEPT ![g] = None]
  PROVE  /\ Cardinality(OnGroups(j)') = Cardinality(OnGroups(j)) - 1
         /\ Cardinality(OnGroups(j)) >= 1
         /\ \A k \in Jobs \ {j} : OnGroups(k)' = OnGroups(k)
<1>1. running'[g] = None /\ \A h \in Groups \ {g} : running'[h] = running[h]
  BY DEF Types
<1>2. OnGroups(j)' = OnGroups(j) \ {g} /\ g \in OnGroups(j)
  BY <1>1 DEF OnGroups, Jobs
<1>3. Cardinality(OnGroups(j) \ {g}) = Cardinality(OnGroups(j)) - 1
  BY <1>2, GroupsFinite, FS_RemoveElement
<1>4. Cardinality(OnGroups(j) \ {g}) \in Nat
  <2>1. IsFiniteSet(OnGroups(j))
    BY GroupsFinite
  <2>2. IsFiniteSet(OnGroups(j) \ {g})
    BY <2>1, FS_RemoveElement
  <2>3. QED
    BY <2>2, FS_CardinalityType
<1>5. \A k \in Jobs \ {j} : OnGroups(k)' = OnGroups(k)
  BY <1>1 DEF OnGroups, Jobs
<1>6. Cardinality(OnGroups(j)) \in Nat
  BY GroupsFinite
<1>7. QED
  BY <1>2, <1>3, <1>4, <1>5, <1>6

\* The references on the device when a job is queued, or over.
LEMMA HeldFinite == IsFiniteSet(HeldJobs) /\ Cardinality(HeldJobs) \in Nat
BY FiniteAssumption, FS_Subset, FS_CardinalityType DEF HeldJobs

LEMMA HeldSame ==
  ASSUME DeviceCounted, devRefs' = devRefs,
         \A k \in Jobs : job'[k].at \in Held <=> job[k].at \in Held
  PROVE  DeviceCounted'
<1>1. HeldJobs' = HeldJobs
  BY DEF HeldJobs
<1>2. QED
  BY <1>1 DEF DeviceCounted

LEMMA HeldAdd ==
  ASSUME DeviceCounted, devRefs' = devRefs + 1, NEW j \in Jobs,
         job[j].at \notin Held, job'[j].at \in Held,
         \A k \in Jobs \ {j} : job'[k].at = job[k].at
  PROVE  DeviceCounted'
<1>1. HeldJobs' = HeldJobs \cup {j} /\ j \notin HeldJobs
  BY DEF HeldJobs
<1>2. Cardinality(HeldJobs \cup {j}) = Cardinality(HeldJobs) + 1
  BY <1>1, HeldFinite, FS_AddElement
<1>3. QED
  BY <1>1, <1>2 DEF DeviceCounted

LEMMA HeldDrop ==
  ASSUME DeviceCounted, devRefs' = devRefs - 1, NEW j \in Jobs,
         job[j].at \in Held, job'[j].at \notin Held,
         \A k \in Jobs \ {j} : job'[k].at = job[k].at
  PROVE  DeviceCounted'
<1>1. HeldJobs' = HeldJobs \ {j} /\ j \in HeldJobs
  BY DEF HeldJobs
<1>2. Cardinality(HeldJobs \ {j}) = Cardinality(HeldJobs) - 1
  BY <1>1, HeldFinite, FS_RemoveElement
<1>3. QED
  BY <1>1, <1>2 DEF DeviceCounted

\* A job that a step has nothing to do with:
LEMMA CountedKept ==
  ASSUME NEW k, Counted(k), Alike(job'[k], job[k]), OnGroups(k)' = OnGroups(k)
  PROVE  Counted(k)'
<1>1. Cardinality(OnGroups(k))' = Cardinality(OnGroups(k))
  OBVIOUS
<1>2. QED
  BY <1>1 DEF Counted, Alike, Num

\* it is no more in a list than it was,
Unmoved(k) ==
  /\ k \in Queued(gp') \cup Queued(pp') => k \in Queued(gp) \cup Queued(pp)
  /\ k \in ToSet(mapping') \cup ToSet(deferred') => k \in ToSet(mapping) \cup ToSet(deferred)
  /\ k \in removed' => k \in removed
  /\ k \in deleting' <=> k \in deleting
  /\ k \in ending' <=> k \in ending
  /\ Pending(k)' <=> Pending(k)
  /\ Pending(k) => done'.step = done.step
  /\ job[k].at = "marked" => lock' = lock

LEMMA LocatedKept ==
  ASSUME NEW k, Located(k), Alike(job'[k], job[k]), Unmoved(k)
  PROVE  Located(k)'
BY DEF Located, Unmoved, Alike, Pending, Queued, Num

\* and its session is the same.
LEMMA LeftKept ==
  ASSUME NEW k, Left(k), Alike(job'[k], job[k]), session' = session
  PROVE  Left(k)'
BY DEF Left, Alike

\* A job that a step moves on.
LEMMA LeftMoved ==
  ASSUME Types, NEW j \in Jobs, Left(j), session' = session, job'[j].at # "created",
         job[j].at \notin {"none", "leaked", "deleted"},
         job'[j].released \in {job[j].released, 1}
  PROVE  Left(j)'
BY DEF Left

\* A step that moves one job at most.
LEMMA OneMoves ==
  ASSUME Accounts, NEW j \in Jobs, session' = session,
         \A k \in Jobs \ {j} : /\ Alike(job'[k], job[k]) /\ Unmoved(k)
                               /\ OnGroups(k)' = OnGroups(k),
         Counted(j)', Located(j)', Left(j)', Deferrals', DeviceCounted'
  PROVE  Accounts'
<1>1. ASSUME NEW k \in Jobs \ {j} PROVE Fine(k)'
  <2>1. Counted(k) /\ Located(k) /\ Left(k)
    BY DEF Accounts, Fine
  <2>2. Counted(k)' /\ Located(k)' /\ Left(k)'
    BY <2>1, CountedKept, LocatedKept, LeftKept
  <2>3. QED
    BY <2>2 DEF Fine
<1>2. \A k \in Jobs : Fine(k)'
  BY <1>1 DEF Fine
<1>3. QED
  BY <1>2 DEF Accounts

LEMMA NothingMoves ==
  ASSUME UNCHANGED <<queues, lists, running, done, lock>>
  PROVE  \A k \in Jobs : Unmoved(k) /\ OnGroups(k)' = OnGroups(k)
<1>1. UNCHANGED <<gp, pp, mapping, deferred, removed, ending, deleting, running, done, lock>>
  BY DEF queues, lists
<1>2. QED
  BY <1>1 DEF Unmoved, OnGroups, Pending, Queued

LEMMA DeferralsKept ==
  ASSUME Deferrals, UNCHANGED <<mapping, deferred>>, lock' = lock, done' \in {done, None}
  PROVE  Deferrals'
BY DEF Deferrals, Distinct

\* A job that was not submitted yet.
LEMMA NewMoves ==
  ASSUME Types, Accounts, NEW j \in Jobs, job[j].at \in {"none", "created"},
         SameCounts(job'[j], job[j]), job'[j].at \in {"created", "tracked", "leaked", "deleted"},
         \/ job[j].at = "none" /\ job'[j].fb = job[j].fb
         \/ j \in PpJobs /\ (job'[j].fb => job'[j].at \in {"created", "tracked"}),
         job[j].at = "none" => session[Session[j]].phase = "open",
         UNCHANGED <<queues, lists, running, done, lock, session>>
  PROVE  Fine(j)'
<1>1. Fine(j)
  BY DEF Accounts
<1>2. OnGroups(j)' = OnGroups(j)
  BY NothingMoves
<1>3. job[j].at = "none" => ~job[j].fb
  BY <1>1 DEF Fine, Counted
<1>4. Counted(j)'
  <2>1. /\ Cardinality(OnGroups(j)) = job[j].started - job[j].completed
        /\ job[j].started = 0 /\ job[j].completed = 0 /\ job[j].released = 0
        /\ job[j].ended = 0 /\ job[j].told = 0
    BY <1>1 DEF Fine, Counted, Before
  <2>2. Cardinality(OnGroups(j))' = 0
    BY <1>2, <2>1
  <2>3. QED
    BY <1>3, <2>1, <2>2 DEF Counted, Before, Held, SameCounts
<1>5. Located(j)'
  <2>1. UNCHANGED <<gp, pp, mapping, deferred, removed, ending, deleting, done>>
    BY DEF queues, lists
  <2>2. /\ j \notin Queued(gp) \cup Queued(pp) /\ j \notin ToSet(mapping) \cup ToSet(deferred)
        /\ j \notin removed \cup deleting \cup ending /\ ~Pending(j)
    BY <1>1 DEF Fine, Located
  <2>3. QED
    BY <2>1, <2>2 DEF Located, Queued, Pending
<1>6. Left(j)'
  <2>1. session[Session[j]].phase = "open"
    BY <1>1 DEF Fine, Left
  <2>2. QED
    BY <2>1 DEF Left
<1>7. QED
  BY <1>4, <1>5, <1>6 DEF Fine

LEMMA StartAccounts ==
  ASSUME Types, Accounts, Start
  PROVE  Accounts'
<1>1. UNCHANGED <<queues, lists, running, done, lock, session, devRefs>>
  BY Zenon DEF Start, GpStartJob, PpStartJob, PpAndGpStartJob, Submission, ListPpJob, SubmitPpJob
<1>2. \A k \in Jobs : Unmoved(k) /\ OnGroups(k)' = OnGroups(k)
  BY <1>1, NothingMoves
<1>3. Deferrals'
  BY <1>1, DeferralsKept DEF Accounts, lists
<1>4. ASSUME NEW j \in Jobs, job[j].at \notin Held, job'[j].at \notin Held, Others(j), Fine(j)'
      PROVE  Accounts'
  <2>1. \A k \in Jobs \ {j} : job'[k] = job[k]
    BY <1>4 DEF Others
  <2>2. \A k \in Jobs : job'[k].at \in Held <=> job[k].at \in Held
    BY <1>4, <2>1
  <2>3. DeviceCounted'
    BY <1>1, <2>2, HeldSame DEF Accounts
  <2>4. \A k \in Jobs \ {j} : Alike(job'[k], job[k])
    BY <2>1 DEF Alike
  <2>5. QED
    BY <1>1, <1>2, <1>3, <1>4, <2>3, <2>4, OneMoves DEF Fine
<1>5. ASSUME NEW j \in Jobs, GpStartJob(j) \/ PpStartJob(j) PROVE Accounts'
  <2>1. PICK a \in {"tracked", "created"} : job' = [job EXCEPT ![j].at = a, ![j].nr = numbered + 1]
    BY <1>5 DEF GpStartJob, PpStartJob
  <2>2. a \in Places
    BY DEF Places
  <2>3. /\ Others(j) /\ job'[j].at = a /\ SameCounts(job'[j], job[j]) /\ job'[j].fb = job[j].fb
    BY <2>1, <2>2, StartEffect
  <2>4. job[j].at = "none" /\ session[Session[j]].phase = "open"
    BY <1>5 DEF GpStartJob, PpStartJob, Fresh
  <2>5. Fine(j)'
    BY <1>1, <2>3, <2>4, NewMoves
  <2>6. QED
    BY <1>4, <2>3, <2>4, <2>5 DEF Held
<1>6. ASSUME NEW j \in PpJobs, Submission(j) PROVE Accounts'
  <2>1. /\ Others(j) /\ SameCounts(job'[j], job[j])
        /\ job[j].at = "created" /\ job'[j].at \in {"created", "tracked", "leaked"}
        /\ job'[j].fb => job'[j].at \in {"created", "tracked"}
    BY <1>6, SubmitEffect
  <2>2. j \in Jobs
    BY DEF Jobs
  <2>3. Fine(j)'
    BY <1>1, <2>1, <2>2, NewMoves
  <2>4. QED
    BY <1>4, <2>1, <2>2, <2>3 DEF Held
<1>7. ASSUME NEW g \in GpJobs, NEW created \in BOOLEAN, PpAndGpStartJob(g, created) PROVE Accounts'
  <2> DEFINE p == Partner[g]
  <2>1. /\ p \in PpJobs /\ \A k \in Jobs \ {g, p} : job'[k] = job[k]
        /\ \A k \in {g, p} : SameCounts(job'[k], job[k]) /\ job'[k].fb = job[k].fb
        /\ job'[p].at = IF created THEN "created" ELSE "deleted"
        /\ job'[g].at = IF created THEN "tracked" ELSE "deleted"
    BY <1>7, PairEffect
  <2>2. /\ job[g].at = "none" /\ session[Session[g]].phase = "open"
        /\ job[p].at = "none" /\ session[Session[p]].phase = "open"
    BY <1>7 DEF PpAndGpStartJob, Fresh
  <2> HIDE DEF p
  <2>3. g \in Jobs /\ p \in Jobs
    BY <2>1 DEF Jobs
  <2>4. Fine(g)'
    BY <1>1, <2>1, <2>2, <2>3, NewMoves
  <2>5. Fine(p)'
    BY <1>1, <2>1, <2>2, <2>3, NewMoves
  <2>6. \A k \in Jobs \ {g, p} : Fine(k)'
    <3> TAKE k \in Jobs \ {g, p}
    <3>1. Counted(k) /\ Located(k) /\ Left(k)
      BY DEF Accounts, Fine
    <3>2. Alike(job'[k], job[k])
      BY <2>1 DEF Alike
    <3>3. Counted(k)' /\ Located(k)' /\ Left(k)'
      BY <1>1, <1>2, <3>1, <3>2, CountedKept, LocatedKept, LeftKept
    <3>4. QED
      BY <3>3 DEF Fine
  <2>7. DeviceCounted'
    <3>1. \A k \in Jobs : job'[k].at \in Held <=> job[k].at \in Held
      BY <2>1, <2>2 DEF Held
    <3>2. QED
      BY <1>1, <3>1, HeldSame DEF Accounts
  <2>8. \A k \in Jobs : Fine(k)'
    BY <2>4, <2>5, <2>6
  <2>9. QED
    BY <1>3, <2>7, <2>8 DEF Accounts
<1>8. QED
  <2>1. \A j \in GpJobs \cup PpJobs : j \in Jobs
    BY DEF Jobs
  <2> DEFINE Good == Accounts'
  <2>2. \A j \in Jobs : GpStartJob(j) \/ PpStartJob(j) => Good
    BY <1>5
  <2>3. \A j \in PpJobs : Submission(j) => Good
    BY <1>6
  <2>4. \A g \in GpJobs, created \in BOOLEAN : PpAndGpStartJob(g, created) => Good
    BY <1>7
  <2> HIDE DEF Good
  <2>5. Good
    BY <2>1, <2>2, <2>3, <2>4, Zenon DEF Start
  <2>6. QED
    BY <2>5 DEF Good

\* A job that the timeline system or the worker lets go: it is not in the worker's lists.
Released(j) ==
  /\ job[j].at \in {"tracked", "deferred"}
  /\ j \notin ToSet(mapping') \cup ToSet(deferred')
  /\ ToSet(mapping') \cup ToSet(deferred') \subseteq ToSet(mapping) \cup ToSet(deferred)
  /\ UNCHANGED <<removed, ending, running, done, lock, session>>

LEMMA ReleasedFacts ==
  ASSUME Types, Accounts, NEW j \in Jobs, Released(j)
  PROVE  /\ Cardinality(OnGroups(j)) = 0 /\ job[j].started = 0 /\ job[j].completed = 0
         /\ job[j].released = 0 /\ job[j].ended = 0 /\ job[j].told = 0
         /\ job[j].fb => j \in PpJobs
         /\ j \notin Queued(gp) \cup Queued(pp) /\ j \notin removed \cup deleting \cup ending
         /\ ~Pending(j)
         /\ \A k \in Jobs : OnGroups(k)' = OnGroups(k) /\ Pending(k)' = Pending(k)
<1>1. Counted(j) /\ Located(j)
  BY DEF Accounts, Fine
<1>2. /\ Cardinality(OnGroups(j)) = job[j].started - job[j].completed
      /\ job[j].started = 0 /\ job[j].completed = 0
      /\ job[j].released = 0 /\ job[j].ended = 0 /\ job[j].told = 0
      /\ job[j].fb => j \in PpJobs
  BY <1>1 DEF Released, Counted, Before
<1>3. /\ j \notin Queued(gp) \cup Queued(pp) /\ j \notin removed \cup deleting \cup ending
      /\ ~Pending(j)
  BY <1>1 DEF Released, Located
<1>4. \A k \in Jobs : OnGroups(k)' = OnGroups(k) /\ Pending(k)' = Pending(k)
  BY DEF Released, OnGroups, Pending
<1>5. QED
  BY <1>2, <1>3, <1>4

LEMMA RefuseAccounts ==
  ASSUME Types, Accounts, NEW j \in Jobs, Released(j), RefuseJob(j), Deferrals'
  PROVE  Accounts'
<1>1. /\ Cardinality(OnGroups(j)) = 0 /\ job[j].started = 0 /\ job[j].completed = 0
      /\ job[j].released = 0 /\ job[j].ended = 0 /\ job[j].told = 0
      /\ j \notin Queued(gp) \cup Queued(pp) /\ j \notin removed \cup deleting \cup ending
      /\ ~Pending(j)
      /\ \A k \in Jobs : OnGroups(k)' = OnGroups(k) /\ Pending(k)' = Pending(k)
  BY ReleasedFacts
<1>2. /\ \A k \in Jobs \ {j} : Alike(job'[k], job[k])
      /\ job'[j].released = job[j].released + 1 /\ job'[j].ended = job[j].ended + 1
      /\ job'[j].notify = TRUE /\ job'[j].fb = FALSE
      /\ j \in GpJobs => /\ job'[j].at = "deleted" /\ job'[j].told = job[j].told + 1
                         /\ job'[j].started = 0 /\ job'[j].completed = 0
      /\ j \in PpJobs => /\ job'[j].at = "deleting" /\ job'[j].told = job[j].told
                         /\ job'[j].started = Num(j)
                         /\ job'[j].completed = job[j].completed + (Num(j) - job[j].started)
  BY RefuseEffect
<1>3. /\ UNCHANGED <<gp, pp, devRefs>>
      /\ deleting' = IF j \in PpJobs THEN deleting \cup {j} ELSE deleting
  BY DEF RefuseJob, CompleteToList, queues
<1>4. /\ UNCHANGED <<removed, ending, done, lock, session>>
      /\ job[j].at \in {"tracked", "deferred"}
      /\ j \notin ToSet(mapping') \cup ToSet(deferred')
      /\ ToSet(mapping') \cup ToSet(deferred') \subseteq ToSet(mapping) \cup ToSet(deferred)
  BY DEF Released
<1>5. Num(j) \in Nat \ {0} /\ (j \in GpJobs <=> j \notin PpJobs)
  BY NumType DEF Jobs
<1>6. Counted(j)'
  <2>1. Cardinality(OnGroups(j))' = 0
    BY <1>1
  <2>2. CASE j \in GpJobs
    BY <1>1, <1>2, <1>5, <2>1, <2>2 DEF Counted, Before, Held
  <2>3. CASE j \in PpJobs
    <3>1. job'[j].started = Num(j) /\ job'[j].completed = Num(j) /\ job'[j].at = "deleting"
      BY <1>1, <1>2, <1>5, <2>3
    <3>2. QED
      BY <1>1, <1>2, <1>5, <2>1, <2>3, <3>1 DEF Counted, Before, Held
  <2>4. QED
    BY <1>5, <2>2, <2>3
<1>7. Located(j)'
  BY <1>1, <1>2, <1>3, <1>4, <1>5 DEF Located, Queued
<1>8. Left(j)'
  <2>1. Left(j)
    BY DEF Accounts, Fine
  <2>2. QED
    BY <1>1, <1>2, <1>4, <1>5, <2>1, LeftMoved
<1>9. \A k \in Jobs \ {j} : Unmoved(k)
  BY <1>1, <1>3, <1>4 DEF Unmoved
<1>10. DeviceCounted'
  <2>1. job[j].at \notin Held /\ job'[j].at \notin Held
    BY <1>2, <1>4, <1>5 DEF Held
  <2>2. \A k \in Jobs : job'[k].at \in Held <=> job[k].at \in Held
    BY <1>2, <2>1 DEF Alike
  <2>3. QED
    BY <1>3, <2>2, HeldSame DEF Accounts
<1>11. QED
  BY <1>1, <1>2, <1>4, <1>6, <1>7, <1>8, <1>9, <1>10, OneMoves

LEMMA QueueAccounts ==
  ASSUME Types, GpQueueExact, Accounts, NEW j \in Jobs, Released(j), QueueJob(j), Deferrals'
  PROVE  Accounts'
<1>1. /\ Cardinality(OnGroups(j)) = 0 /\ job[j].started = 0 /\ job[j].completed = 0
      /\ job[j].released = 0 /\ job[j].ended = 0 /\ job[j].told = 0
      /\ job[j].fb => j \in PpJobs
      /\ j \notin Queued(gp) \cup Queued(pp) /\ j \notin removed \cup deleting \cup ending
      /\ ~Pending(j)
      /\ \A k \in Jobs : OnGroups(k)' = OnGroups(k) /\ Pending(k)' = Pending(k)
  BY ReleasedFacts
<1>2. j \notin Queued(gp)
  BY <1>1
<1>3. /\ Others(j) /\ job'[j].at = "queued"
      /\ SameCounts(job'[j], job[j]) /\ job'[j].fb = job[j].fb
      /\ devRefs' = devRefs + 1 /\ deleting' = deleting
      /\ j \in GpJobs => Queued(gp') = Queued(gp) \cup {j} /\ pp' = pp
      /\ j \in PpJobs => gp' = gp /\ Queued(pp') = Queued(pp) \cup {j}
  BY <1>2, QueueJobEffect
<1>4. /\ UNCHANGED <<removed, ending, done, lock, session>>
      /\ job[j].at \in {"tracked", "deferred"}
      /\ j \notin ToSet(mapping') \cup ToSet(deferred')
      /\ ToSet(mapping') \cup ToSet(deferred') \subseteq ToSet(mapping) \cup ToSet(deferred)
  BY DEF Released
<1>5. Num(j) \in Nat \ {0} /\ (j \in GpJobs \/ j \in PpJobs)
  BY NumType DEF Jobs
<1>6. Counted(j)'
  <2>1. Cardinality(OnGroups(j))' = 0
    BY <1>1
  <2>2. Num(j)' = Num(j)
    BY DEF Num
  <2>3. QED
    BY <1>1, <1>3, <1>5, <2>1, <2>2 DEF Counted, Before, Held, SameCounts
<1>7. Located(j)'
  BY <1>1, <1>3, <1>4 DEF Located, Queued
<1>8. Left(j)'
  <2>1. Left(j)
    BY DEF Accounts, Fine
  <2>2. job'[j].released = job[j].released
    BY <1>3 DEF SameCounts
  <2>3. QED
    BY <1>3, <1>4, <2>1, <2>2, LeftMoved
<1>9. \A k \in Jobs \ {j} : Unmoved(k)
  <2>1. \A k \in Jobs \ {j} : k \in Queued(gp') \cup Queued(pp') => k \in Queued(gp) \cup Queued(pp)
    BY <1>3, <1>5
  <2>2. QED
    BY <1>1, <1>3, <1>4, <2>1 DEF Unmoved
<1>10. DeviceCounted'
  <2>1. job[j].at \notin Held /\ job'[j].at \in Held
    BY <1>3, <1>4 DEF Held
  <2>2. \A k \in Jobs \ {j} : job'[k].at = job[k].at
    BY <1>3 DEF Others
  <2>3. QED
    BY <1>3, <2>1, <2>2, HeldAdd DEF Accounts
<1>11. \A k \in Jobs \ {j} : Alike(job'[k], job[k])
  BY <1>3 DEF Others, Alike
<1>12. QED
  BY <1>1, <1>4, <1>6, <1>7, <1>8, <1>9, <1>10, <1>11, OneMoves

LEMMA WorkersAccounts ==
  ASSUME Types, GpQueueExact, Accounts, Workers
  PROVE  Accounts'
<1>1. mapping \in Seq(DmaBuf) /\ deferred \in Seq(DmaBuf)
  BY DEF Types
<1>2. Deferrals /\ DeviceCounted /\ \A k \in Jobs : Counted(k) /\ Located(k) /\ Left(k)
  BY DEF Accounts, Fine
<1>3. UNCHANGED <<removed, ending, running, done, lock, session>>
  BY DEF Workers, Activate, DeferredTake, DeferredQueue, DeletePpJob
<1>4. ASSUME NEW j \in Jobs, NEW error \in BOOLEAN, Activate(j, error) PROVE Accounts'
  <2>1. job[j].at = "tracked" /\ mapping' = mapping
    BY <1>4 DEF Activate
  <2>2. j \notin ToSet(mapping) \cup ToSet(deferred)
    BY <1>2, <2>1 DEF Located
  <2>3. ASSUME UNCHANGED deferred PROVE Released(j) /\ Deferrals'
    <3>1. Deferrals'
      BY <1>2, <1>3, <2>1, <2>3, DeferralsKept
    <3>2. QED
      BY <1>3, <2>1, <2>2, <2>3, <3>1 DEF Released
  <2>4. CASE RefuseJob(j) /\ UNCHANGED deferred
    BY <2>3, <2>4, RefuseAccounts
  <2>5. CASE QueueJob(j) /\ UNCHANGED deferred
    BY <2>3, <2>5, QueueAccounts
  <2>6. CASE /\ j \in DmaBuf /\ job' = [job EXCEPT ![j].at = "deferred"]
             /\ deferred' = Append(deferred, j) /\ UNCHANGED <<queues, devRefs, deleting>>
    <3>1. /\ ToSet(deferred') = ToSet(deferred) \cup {j} /\ Distinct(deferred')
      BY <1>1, <1>2, <2>2, <2>6, AppendFacts DEF Deferrals
    <3>2. /\ Others(j) /\ job'[j].at = "deferred"
          /\ SameCounts(job'[j], job[j]) /\ job'[j].fb = job[j].fb
      BY <2>6, AtEffect DEF Places
    <3>3. UNCHANGED <<gp, pp, deleting>> /\ j \in PpJobs
      BY <2>6 DEF queues
    <3>4. \A k \in Jobs : OnGroups(k)' = OnGroups(k) /\ Pending(k)' = Pending(k)
      BY <1>3 DEF OnGroups, Pending
    <3>5. Counted(j)'
      <4>1. Counted(j) /\ Cardinality(OnGroups(j))' = Cardinality(OnGroups(j))
        BY <1>2, <3>4
      <4>2. QED
        BY <2>1, <3>2, <3>3, <4>1 DEF Counted, Before, Held, SameCounts
    <3>6. Located(j)'
      <4>1. Located(j)
        BY <1>2
      <4>2. QED
        BY <1>3, <2>1, <3>2, <3>3, <3>4, <4>1 DEF Located, Queued
    <3>7. Left(j)'
      BY <1>2, <1>3, <2>1, <3>2, LeftMoved DEF SameCounts
    <3>8. \A k \in Jobs \ {j} : Unmoved(k) /\ Alike(job'[k], job[k])
      <4>1. Queued(gp') = Queued(gp) /\ Queued(pp') = Queued(pp)
        BY <3>3 DEF Queued
      <4>2. QED
        BY <1>3, <2>1, <3>1, <3>2, <3>3, <3>4, <4>1 DEF Unmoved, Others, Alike
    <3>9. DeviceCounted'
      <4>1. \A k \in Jobs : job'[k].at \in Held <=> job[k].at \in Held
        BY <2>1, <3>2 DEF Held, Others
      <4>2. QED
        BY <1>2, <2>6, <4>1, HeldSame
    <3>10. Deferrals'
      BY <1>2, <1>3, <2>1, <2>2, <3>1 DEF Deferrals, Distinct
    <3>11. QED
      BY <1>3, <3>4, <3>5, <3>6, <3>7, <3>8, <3>9, <3>10, OneMoves
  <2>7. QED
    BY <1>4, <2>4, <2>5, <2>6 DEF Activate
<1>5. ASSUME DeferredTake PROVE Accounts'
  <2>1. /\ mapping' = deferred /\ deferred' = <<>>
        /\ UNCHANGED <<job, gp, pp, deleting, devRefs>>
    BY <1>5 DEF DeferredTake, queues
  <2>2. ToSet(deferred') = {} /\ Distinct(deferred')
    <3>1. DOMAIN <<>> = {} /\ Len(<<>>) = 0
      BY EmptySeq
    <3>2. ToSet(deferred') = {}
      BY <2>1, <3>1 DEF ToSet
    <3>3. 1..Len(deferred') = {}
      BY <2>1, <3>1
    <3>4. QED
      BY <3>2, <3>3 DEF Distinct
  <2>3. ToSet(mapping') = ToSet(deferred) /\ Distinct(mapping')
    BY <1>2, <2>1 DEF Deferrals
  <2>4. Deferrals'
    BY <1>2, <1>3, <2>2, <2>3 DEF Deferrals
  <2>5. \A k \in Jobs : Unmoved(k) /\ Alike(job'[k], job[k]) /\ OnGroups(k)' = OnGroups(k)
    BY <1>3, <2>1, <2>2, <2>3 DEF Unmoved, Alike, OnGroups, Pending, Queued
  <2>6. \A k \in Jobs : Fine(k)'
    BY <1>2, <1>3, <2>5, CountedKept, LocatedKept, LeftKept DEF Fine
  <2>7. DeviceCounted'
    BY <1>2, <2>1, HeldSame
  <2>8. QED
    BY <2>4, <2>6, <2>7 DEF Accounts
<1>6. ASSUME DeferredQueue PROVE Accounts'
  <2> DEFINE j == Head(mapping)
  <2>1. /\ j \in DmaBuf /\ j \in ToSet(mapping) /\ j \notin ToSet(Tail(mapping))
        /\ Distinct(Tail(mapping)) /\ ToSet(Tail(mapping)) \subseteq ToSet(mapping)
    BY <1>1, <1>2, <1>6, HeadFacts, TailFacts DEF DeferredQueue, Deferrals
  <2>2. mapping' = Tail(mapping) /\ deferred' = deferred
    BY <1>6 DEF DeferredQueue
  <2>3. QueueJob(j) \/ RefuseJob(j)
    BY <1>6 DEF DeferredQueue
  <2> HIDE DEF j
  <2>4. j \in Jobs /\ job[j].at = "deferred"
    BY <1>2, <2>1 DEF Jobs, Located
  <2>5. j \notin ToSet(deferred)
    BY <1>2, <2>1 DEF Deferrals
  <2>6. Released(j)
    BY <1>3, <2>1, <2>2, <2>4, <2>5 DEF Released
  <2>7. Deferrals'
    BY <1>2, <1>3, <2>1, <2>2 DEF Deferrals
  <2>8. QED
    BY <2>3, <2>4, <2>6, <2>7, QueueAccounts, RefuseAccounts
<1>7. ASSUME NEW j \in PpJobs, DeletePpJob(j) PROVE Accounts'
  <2>1. /\ Others(j) /\ job'[j].at = "deleted"
        /\ job'[j].started = 0 /\ job'[j].completed = 0
        /\ job'[j].released = job[j].released /\ job'[j].ended = job[j].ended
        /\ job'[j].notify = job[j].notify /\ job'[j].fb = job[j].fb
        /\ job'[j].told = job[j].told + (IF job[j].notify /\ j \notin Silent THEN 1 ELSE 0)
    BY <1>7, DeleteEffect
  <2>2. /\ j \in deleting /\ deleting' = deleting \ {j} /\ j \in Jobs
        /\ UNCHANGED <<gp, pp, mapping, deferred, devRefs>>
    BY <1>7 DEF DeletePpJob, queues, Jobs
  <2>3. job[j].at = "deleting"
    BY <1>2, <2>2 DEF Located
  <2>4. \A k \in Jobs : OnGroups(k)' = OnGroups(k) /\ Pending(k)' = Pending(k)
    BY <1>3 DEF OnGroups, Pending
  <2>5. Counted(j)'
    <3>1. Counted(j) /\ Cardinality(OnGroups(j))' = Cardinality(OnGroups(j))
      BY <1>2, <2>2, <2>4
    <3>2. /\ Cardinality(OnGroups(j)) = job[j].started - job[j].completed
          /\ job[j].completed = job[j].started /\ job[j].completed \in Int
          /\ job[j].ended = 1 /\ job[j].told = 0 /\ job[j].released <= 1 /\ ~job[j].fb
      <4>1. job[j].completed \in Int
        BY <2>2 DEF Types, JobRec
      <4>2. QED
        BY <2>3, <3>1, <4>1 DEF Counted
    <3>3. Cardinality(OnGroups(j))' = 0
      BY <3>1, <3>2
    <3>4. QED
      BY <2>1, <3>2, <3>3 DEF Counted, Before, Held
  <2>6. Located(j)'
    <3>1. Located(j)
      BY <1>2, <2>2
    <3>2. QED
      BY <1>3, <2>1, <2>2, <2>3, <2>4, <3>1 DEF Located, Queued
  <2>7. Left(j)'
    BY <1>2, <1>3, <2>1, <2>2, <2>3, LeftMoved
  <2>8. \A k \in Jobs \ {j} : Unmoved(k) /\ Alike(job'[k], job[k])
    <3>1. Queued(gp') = Queued(gp) /\ Queued(pp') = Queued(pp)
      BY <2>2 DEF Queued
    <3>2. QED
      BY <1>3, <2>1, <2>2, <2>4, <3>1 DEF Unmoved, Others, Alike
  <2>9. DeviceCounted'
    <3>1. \A k \in Jobs : job'[k].at \in Held <=> job[k].at \in Held
      BY <2>1, <2>3 DEF Held, Others
    <3>2. QED
      BY <1>2, <2>2, <3>1, HeldSame
  <2>10. Deferrals'
    BY <1>2, <1>3, <2>2, DeferralsKept
  <2>11. QED
    BY <1>3, <2>2, <2>4, <2>5, <2>6, <2>7, <2>8, <2>9, <2>10, OneMoves
<1>8. QED
  BY <1>4, <1>5, <1>6, <1>7 DEF Workers

\* The executor takes a GP job,
LEMMA GpGetAccounts ==
  ASSUME Common, Accounts, GpGet
  PROVE  Accounts'
<1> DEFINE p == IF gp["high"] # <<>> THEN "high" ELSE "normal"
<1>0. Types /\ GpQueueExact /\ Deferrals /\ DeviceCounted
  BY DEF Common, Base, Accounts
<1>1. p \in Priorities /\ gp[p] # <<>>
  BY <1>0, GpHead DEF GpGet, Priorities
<1>2. PICK j : j = Head(gp[p])
  OBVIOUS
<1>3. /\ gp' = [gp EXCEPT ![p] = Tail(gp[p])] /\ depth' = [depth EXCEPT !.gp = depth.gp - 1]
      /\ job' = [job EXCEPT ![j].at = "taken", ![j].started = 1]
      /\ running' = [running EXCEPT !["gp"] = j] /\ running["gp"] = None
  BY <1>2 DEF GpGet
<1>21. /\ done = None
       /\ UNCHANGED <<pp, mapping, deferred, removed, ending, deleting, done, lock, session,
                      devRefs>>
  BY DEF GpGet, lists, MaySchedule
<1> HIDE DEF p
<1>4. j \in Queued(gp) /\ j \in GpJobs /\ j \in Jobs /\ j \notin PpJobs /\ Queued(gp)' = Queued(gp) \ {j}
  <2>1. Head(gp[p]) \in Queued(gp) /\ Queued(gp)' = Queued(gp) \ {Head(gp[p])}
    BY <1>0, <1>1, <1>3, GpQueueTake
  <2>2. QED
    BY <1>0, <1>2, <2>1, GpQueueFinite DEF Jobs
<1>5. /\ Others(j) /\ job'[j].at = "taken" /\ job'[j].started = 1
      /\ job'[j].completed = job[j].completed
      /\ job'[j].released = job[j].released /\ job'[j].ended = job[j].ended
      /\ job'[j].told = job[j].told /\ job'[j].fb = job[j].fb
  BY <1>0, <1>3, <1>4, GpGetEffect
<1>6. /\ Cardinality(OnGroups(j)') = Cardinality(OnGroups(j)) + 1
      /\ \A k \in Jobs \ {j} : OnGroups(k)' = OnGroups(k)
  <2>1. "gp" \in Groups
    BY DEF Groups
  <2>2. running["gp"] = None /\ running' = [running EXCEPT !["gp"] = j]
    BY <1>3
  <2>3. QED
    BY <1>0, <1>4, <2>1, <2>2, GroupTakes
<1>7. Counted(j) /\ Located(j) /\ Left(j) /\ Cardinality(OnGroups(j)) \in Nat
  BY <1>4, GroupsFinite DEF Accounts, Fine
<1>8. job[j].at = "queued"
  BY <1>4, <1>7 DEF Located
<1>9. /\ Cardinality(OnGroups(j)) = 0 /\ job[j].started = 0 /\ job[j].completed = 0
      /\ job[j].released = 0 /\ job[j].ended = 0 /\ job[j].told = 0 /\ ~job[j].fb
  <2>1. /\ Cardinality(OnGroups(j)) = job[j].started - job[j].completed /\ 0 <= job[j].completed
        /\ job[j].started < 1
        /\ job[j].released = 0 /\ job[j].ended = 0 /\ job[j].told = 0 /\ ~job[j].fb
    BY <1>4, <1>7, <1>8 DEF Counted, Held, Num
  <2>2. job[j].started \in Nat /\ job[j].completed \in Int
    BY <1>0, <1>4 DEF Types, JobRec
  <2>3. QED
    BY <1>7, <2>1, <2>2
<1>10. Num(j) = 1
  BY <1>4 DEF Num
<1>11. Counted(j)'
  <2>1. Cardinality(OnGroups(j))' = 1
    BY <1>6, <1>9
  <2>2. QED
    BY <1>4, <1>5, <1>9, <1>10, <2>1 DEF Counted, Before, Held
<1>12. Located(j)'
  <2>1. j \notin Queued(gp)' \cup Queued(pp)'
    <3>1. Queued(pp)' = Queued(pp) /\ Queued(pp) \subseteq PpJobs
      BY <1>0, <1>21 DEF Queued, Types, ToSet
    <3>2. QED
      BY <1>4, <3>1
  <2>2. QED
    BY <1>21, <1>5, <1>7, <1>8, <1>9, <2>1 DEF Located, Pending
<1>13. Left(j)'
  BY <1>0, <1>21, <1>4, <1>5, <1>7, <1>8, LeftMoved
<1>14. \A k \in Jobs \ {j} : Unmoved(k) /\ Alike(job'[k], job[k])
  <2>1. Queued(gp') \subseteq Queued(gp) /\ Queued(pp') = Queued(pp)
    <3>1. Queued(gp)' = Queued(gp') /\ Queued(pp') = Queued(pp)
      BY <1>21 DEF Queued
    <3>2. QED
      BY <1>4, <3>1
  <2>2. UNCHANGED <<mapping, deferred, removed, deleting, ending, done, lock>>
    BY <1>21
  <2>3. QED
    BY <1>5, <2>1, <2>2 DEF Unmoved, Others, Alike, Pending
<1>15. DeviceCounted'
  <2>1. \A k \in Jobs : job'[k].at \in Held <=> job[k].at \in Held
    BY <1>5, <1>8 DEF Held, Others
  <2>2. QED
    BY <1>0, <1>21, <2>1, HeldSame
<1>16. Deferrals'
  BY <1>0, <1>21, DeferralsKept
<1>17. QED
  BY <1>21, <1>4, <1>6, <1>11, <1>12, <1>13, <1>14, <1>15, <1>16, OneMoves

\* a sub job of a PP job,
LEMMA TakeAccounts ==
  ASSUME Types, Accounts, done = None, NEW g \in Groups, NEW j \in PpJobs, running[g] = None,
         j \in Queued(pp), TakeSubJob(j, g)
  PROVE  Accounts'
<1>0. Deferrals /\ DeviceCounted /\ j \in Jobs
  BY DEF Accounts, Jobs
<1>1. /\ Others(j) /\ job'[j].started = job[j].started + 1 /\ job'[j].fb = FALSE
      /\ job'[j].at = IF Unstarted(j) = 1 THEN "taken" ELSE job[j].at
      /\ job'[j].completed = job[j].completed /\ job'[j].released = job[j].released
      /\ job'[j].ended = job[j].ended /\ job'[j].told = job[j].told
  BY <1>0, TakeEffect
<1>2. /\ running' = [running EXCEPT ![g] = j]
      /\ UNCHANGED <<gp, mapping, deferred, removed, ending, deleting, done, lock, session,
                     devRefs>>
  BY DEF TakeSubJob, lists
<1>3. Queued(pp') = IF Unstarted(j) = 1 THEN Queued(pp) \ {j} ELSE Queued(pp)
  <2>1. CASE Unstarted(j) = 1
    <3>1. pp' = [p \in Priorities |-> Without(pp[p], {j})]
      BY <2>1 DEF TakeSubJob
    <3>2. Queued(pp') = Queued(pp) \ {j}
      BY <3>1, PpQueueWithout
    <3>3. QED
      BY <2>1, <3>2
  <2>2. CASE Unstarted(j) # 1
    BY <2>2 DEF TakeSubJob
  <2>3. QED
    BY <2>1, <2>2
<1>4. /\ Cardinality(OnGroups(j)') = Cardinality(OnGroups(j)) + 1
      /\ \A k \in Jobs \ {j} : OnGroups(k)' = OnGroups(k)
  BY <1>0, <1>2, GroupTakes
<1>5. Counted(j) /\ Located(j) /\ Left(j) /\ Cardinality(OnGroups(j)) \in Nat
  BY <1>0, GroupsFinite DEF Accounts, Fine
<1>6. job[j].at = "queued"
  BY <1>5 DEF Located
<1>7. /\ Cardinality(OnGroups(j)) = job[j].started - job[j].completed /\ 0 <= job[j].completed
      /\ job[j].started < Num(j) /\ job[j].completed <= job[j].started
      /\ job[j].released = 0 /\ job[j].ended = 0 /\ job[j].told = 0
      /\ job[j].started \in Nat /\ job[j].completed \in Nat /\ Num(j) \in Nat
  <2>1. /\ Cardinality(OnGroups(j)) = job[j].started - job[j].completed /\ 0 <= job[j].completed
        /\ job[j].started < Num(j)
        /\ job[j].released = 0 /\ job[j].ended = 0 /\ job[j].told = 0
    BY <1>5, <1>6 DEF Counted, Held
  <2>2. job[j].started \in Nat /\ job[j].completed \in Int /\ Num(j) \in Nat
    BY <1>0, NumType DEF Types, JobRec
  <2>3. QED
    BY <1>5, <2>1, <2>2
<1>8. Counted(j)'
  <2>1. Cardinality(OnGroups(j))' = job'[j].started - job'[j].completed
    BY <1>1, <1>4, <1>7
  <2>2. CASE Unstarted(j) = 1
    <3>1. job'[j].started = Num(j) /\ job'[j].at = "taken"
      BY <1>1, <1>7, <2>2 DEF Unstarted
    <3>2. QED
      BY <1>1, <1>7, <2>1, <3>1 DEF Counted, Before, Held
  <2>3. CASE Unstarted(j) # 1
    <3>1. job'[j].started < Num(j) /\ job'[j].at = "queued"
      BY <1>1, <1>6, <1>7, <2>3 DEF Unstarted
    <3>2. Num(j)' = Num(j)
      BY DEF Num
    <3>3. QED
      BY <1>1, <1>7, <2>1, <3>1, <3>2 DEF Counted, Before, Held
  <2>4. QED
    BY <2>2, <2>3
<1>9. Located(j)'
  <2>1. j \in Queued(gp') \cup Queued(pp') => job'[j].at = "queued"
    <3>1. Queued(gp') = Queued(gp) /\ j \notin Queued(gp)
      BY <1>2, GpQueueFinite DEF Queued
    <3>2. QED
      BY <1>1, <1>3, <1>6, <3>1
  <2>2. job'[j].at \in {"queued", "taken"} /\ job'[j].completed # job'[j].started
    BY <1>1, <1>6, <1>7
  <2>3. QED
    BY <1>2, <1>5, <1>6, <2>1, <2>2 DEF Located, Pending, Queued
<1>10. Left(j)'
  <2>1. job'[j].at # "created"
    BY <1>1, <1>6
  <2>2. QED
    BY <1>0, <1>1, <1>2, <1>5, <1>6, <2>1, LeftMoved
<1>11. \A k \in Jobs \ {j} : Unmoved(k) /\ Alike(job'[k], job[k])
  <2>1. Queued(gp') = Queued(gp) /\ Queued(pp') \subseteq Queued(pp)
    BY <1>2, <1>3 DEF Queued
  <2>2. UNCHANGED <<mapping, deferred, removed, deleting, ending, done, lock>>
    BY <1>2
  <2>3. QED
    BY <1>1, <2>1, <2>2 DEF Unmoved, Others, Alike, Pending
<1>12. DeviceCounted'
  <2>1. \A k \in Jobs : job'[k].at \in Held <=> job[k].at \in Held
    BY <1>1, <1>6 DEF Held, Others
  <2>2. QED
    BY <1>0, <1>2, <2>1, HeldSame
<1>13. Deferrals'
  BY <1>0, <1>2, DeferralsKept
<1>14. QED
  BY <1>0, <1>2, <1>4, <1>8, <1>9, <1>10, <1>11, <1>12, <1>13, OneMoves

\* A job that works on a group is neither before its start nor over.
LEMMA WorkingFacts ==
  ASSUME Types, NEW j \in Jobs, Counted(j), Located(j), Cardinality(OnGroups(j)) >= 1
  PROVE  /\ job[j].at \in {"queued", "taken", "marked"} /\ job[j].completed < job[j].started
         /\ job[j].released = 0 /\ job[j].ended = 0 /\ job[j].told = 0
         /\ job[j].started <= Num(j) /\ j \notin ending
         /\ job[j].at \in {"queued", "marked"} => job[j].started <= Num(j)
         /\ job[j].started \in Nat /\ job[j].completed \in Nat /\ Num(j) \in Nat
<1>1. /\ Cardinality(OnGroups(j)) = job[j].started - job[j].completed /\ 0 <= job[j].completed
      /\ job[j].released <= 1
  BY DEF Counted
<1>2. /\ job[j].started \in Nat /\ job[j].completed \in Nat /\ Num(j) \in Nat
      /\ job[j].released \in Nat /\ job[j].at \in Places
  BY <1>1, NumType DEF Types, JobRec
<1>3. job[j].completed < job[j].started
  BY <1>1, <1>2
<1>4. job[j].at \in {"queued", "taken", "marked"}
  BY <1>2, <1>3 DEF Counted, Before, Places
<1>5. job[j].ended = 0 /\ job[j].told = 0 /\ job[j].released = 0 /\ job[j].started <= Num(j)
  BY <1>1, <1>2, <1>3, <1>4 DEF Counted, Held
<1>6. j \notin ending
  BY <1>3, <1>2 DEF Located
<1>7. QED
  BY <1>2, <1>3, <1>4, <1>5, <1>6

LEMMA GpCompleteAccounts ==
  ASSUME Common, Accounts, NEW success \in BOOLEAN, NEW notify \in BOOLEAN,
         GpComplete(success, notify),
         UNCHANGED <<queues, mapping, deferred, removed, deleting, done, lock, session, devRefs>>
  PROVE  Accounts'
<1>0. Types /\ GpPlaced /\ Deferrals /\ DeviceCounted
  BY DEF Common, Base, Accounts
<1>1. PICK j : j = running["gp"]
  OBVIOUS
<1>2. /\ j \in GpJobs /\ j \in Jobs /\ j \notin PpJobs
      /\ \A k \in Jobs \ {j} : Alike(job'[k], job[k])
      /\ job'[j].completed = 1 /\ job'[j].released = job[j].released + 1
      /\ job'[j].at = job[j].at /\ job'[j].started = job[j].started
      /\ job'[j].ended = job[j].ended /\ job'[j].told = job[j].told
      /\ job'[j].fb = job[j].fb
  BY <1>0, <1>1, GpCompleteEffect
<1>3. /\ running' = [running EXCEPT !["gp"] = None] /\ ending' = ending \cup {j} /\ done = None
      /\ UNCHANGED <<gp, pp>>
  BY <1>1 DEF GpComplete, queues
<1>4. /\ Cardinality(OnGroups(j)') = Cardinality(OnGroups(j)) - 1
      /\ Cardinality(OnGroups(j)) >= 1
      /\ \A k \in Jobs \ {j} : OnGroups(k)' = OnGroups(k)
  <2>1. "gp" \in Groups
    BY DEF Groups
  <2>2. QED
    BY <1>0, <1>1, <1>2, <1>3, <2>1, GroupLeaves
<1>5. Counted(j) /\ Located(j) /\ Left(j)
  BY <1>2 DEF Accounts, Fine
<1>6. job[j].at = "taken"
  BY <1>0, <1>1, <1>2 DEF GpPlaced
<1>7. /\ job[j].completed < job[j].started /\ job[j].released = 0 /\ job[j].ended = 0
      /\ job[j].told = 0 /\ job[j].started \in Nat /\ job[j].completed \in Nat
      /\ job[j].started = 1 /\ Num(j) = 1 /\ ~job[j].fb
      /\ Cardinality(OnGroups(j)) = job[j].started - job[j].completed
  <2>1. Num(j) = 1 /\ job[j].started = Num(j)
    BY <1>2, <1>5, <1>6 DEF Num, Counted
  <2>2. ~job[j].fb /\ Cardinality(OnGroups(j)) = job[j].started - job[j].completed
    BY <1>2, <1>5 DEF Counted
  <2>3. QED
    BY <1>0, <1>2, <1>4, <1>5, <2>1, <2>2, WorkingFacts
<1>8. Cardinality(OnGroups(j)') = 0
  BY <1>4, <1>7
<1>9. Counted(j)'
  <2>1. Num(j)' = 1
    BY <1>7 DEF Num
  <2>2. QED
    BY <1>2, <1>6, <1>7, <1>8, <2>1 DEF Counted, Before, Held
<1>10. Located(j)'
  <2>1. Queued(gp)' = Queued(gp) /\ Queued(pp)' = Queued(pp)
    BY <1>3 DEF Queued
  <2>2. QED
    BY <1>2, <1>3, <1>5, <1>6, <1>7, <2>1 DEF Located, Pending
<1>11. Left(j)'
  BY <1>0, <1>2, <1>5, <1>6, <1>7, LeftMoved
<1>12. \A k \in Jobs \ {j} : Unmoved(k)
  <2>1. Queued(gp') = Queued(gp) /\ Queued(pp') = Queued(pp)
    BY <1>3 DEF Queued
  <2>2. QED
    BY <1>3, <2>1 DEF Unmoved, Pending
<1>13. DeviceCounted'
  <2>1. \A k \in Jobs : job'[k].at \in Held <=> job[k].at \in Held
    BY <1>2 DEF Alike
  <2>2. QED
    BY <1>0, <2>1, HeldSame
<1>14. Deferrals'
  BY <1>0, DeferralsKept
<1>15. QED
  BY <1>2, <1>4, <1>9, <1>10, <1>11, <1>12, <1>13, <1>14, OneMoves

LEMMA PpMarkAccounts ==
  ASSUME ~Races, Types, Accounts, NEW g \in Groups, NEW notify \in BOOLEAN, PpMark(g, notify),
         UNCHANGED <<queues, mapping, deferred, removed, ending, deleting, lock, session, devRefs>>
  PROVE  Accounts'
<1>0. Deferrals /\ DeviceCounted
  BY DEF Accounts
<1>1. PICK j : j = running[g]
  OBVIOUS
<1>2. /\ j \in PpJobs /\ j \in Jobs /\ Others(j)
      /\ job'[j].completed = job[j].completed + 1
      /\ job'[j].started = job[j].started /\ job'[j].released = job[j].released
      /\ job'[j].ended = job[j].ended /\ job'[j].told = job[j].told
      /\ job'[j].at = job[j].at /\ job'[j].fb = job[j].fb
  BY <1>1, PpMarkEffect
<1>3. /\ running' = [running EXCEPT ![g] = None] /\ done = None /\ lock = None
      /\ done' = [job |-> j, step |-> "release"]
  BY <1>1 DEF PpMark
<1>4. UNCHANGED <<gp, pp>> /\ done'.job = j /\ done'.step = "release"
  BY <1>3 DEF queues
<1>5. /\ Cardinality(OnGroups(j)') = Cardinality(OnGroups(j)) - 1
      /\ Cardinality(OnGroups(j)) >= 1
      /\ \A k \in Jobs \ {j} : OnGroups(k)' = OnGroups(k)
  BY <1>1, <1>2, <1>3, GroupLeaves
<1>6. Counted(j) /\ Located(j) /\ Left(j)
  BY <1>2 DEF Accounts, Fine
<1>7. /\ job[j].at \in {"queued", "taken", "marked"} /\ job[j].completed < job[j].started
      /\ job[j].released = 0 /\ job[j].ended = 0 /\ job[j].told = 0
      /\ job[j].started <= Num(j) /\ j \notin ending
      /\ job[j].started \in Nat /\ job[j].completed \in Nat /\ Num(j) \in Nat
  BY <1>2, <1>5, <1>6, WorkingFacts
<1>8. job[j].at \in {"queued", "taken"}
  <2>1. Session[j] # None
    BY <1>2
  <2>2. QED
    BY <1>3, <1>6, <1>7, <2>1 DEF Located
<1>9. Counted(j)'
  <2>1. Cardinality(OnGroups(j))' = job'[j].started - job'[j].completed
    BY <1>2, <1>5, <1>6, <1>7 DEF Counted
  <2>2. Num(j)' = Num(j)
    BY DEF Num
  <2>3. job'[j].completed >= 0 /\ (job[j].at = "queued" => job[j].started < Num(j))
        /\ (job[j].at = "taken" => job[j].started = Num(j))
        /\ (job[j].fb => j \in PpJobs /\ job[j].at \in {"created", "tracked", "deferred", "queued"})
    BY <1>2, <1>6, <1>7 DEF Counted
  <2>4. QED
    BY <1>2, <1>7, <1>8, <2>1, <2>2, <2>3 DEF Counted, Before, Held
<1>10. Located(j)'
  <2>1. Queued(gp)' = Queued(gp) /\ Queued(pp)' = Queued(pp)
    BY <1>4 DEF Queued
  <2>2. Pending(j)'
    <3>1. done' \in [job : PpJobs, step : {"release", "check"}]
      BY <1>2, <1>3
    <3>2. done' # None
      BY <3>1
    <3>3. QED
      BY <1>4, <3>2 DEF Pending
  <2>3. Num(j)' = Num(j)
    BY DEF Num
  <2>4. QED
    BY <1>2, <1>4, <1>6, <1>7, <1>8, <2>1, <2>2, <2>3 DEF Located
<1>11. Left(j)'
  BY <1>2, <1>6, <1>8, LeftMoved
<1>12. \A k \in Jobs \ {j} : Unmoved(k) /\ Alike(job'[k], job[k])
  <2>1. Queued(gp') = Queued(gp) /\ Queued(pp') = Queued(pp)
    BY <1>4 DEF Queued
  <2>2. \A k \in Jobs \ {j} : ~Pending(k) /\ ~Pending(k)'
    BY <1>3, <1>4 DEF Pending
  <2>3. QED
    BY <1>2, <2>1, <2>2 DEF Unmoved, Others, Alike
<1>13. DeviceCounted'
  <2>1. \A k \in Jobs : job'[k].at \in Held <=> job[k].at \in Held
    BY <1>2 DEF Others
  <2>2. QED
    BY <1>0, <2>1, HeldSame
<1>14. Deferrals'
  BY <1>0, <1>3 DEF Deferrals, Distinct
<1>15. QED
  BY <1>2, <1>5, <1>9, <1>10, <1>11, <1>12, <1>13, <1>14, OneMoves

\* Steps that change one job, which stays where it is, and no list but "ending".
LEMMA StayingMoves ==
  ASSUME Types, Accounts, NEW j \in Jobs, Others(j), job'[j].at = job[j].at,
         Counted(j)', Located(j)', Left(j)',
         \A k \in Jobs \ {j} : /\ k \in ending' <=> k \in ending
                               /\ ~Pending(k) /\ ~Pending(k)',
         UNCHANGED <<gp, pp, mapping, deferred, removed, deleting, running, lock, session, devRefs>>,
         lock # None => done' = done
  PROVE  Accounts'
<1>1. /\ (\A k \in Jobs : Fine(k)) /\ Deferrals /\ DeviceCounted
  BY DEF Accounts
<1>2. \A k \in Jobs \ {j} : /\ Alike(job'[k], job[k]) /\ Unmoved(k)
                            /\ OnGroups(k)' = OnGroups(k)
  BY DEF Unmoved, Others, Alike, OnGroups
<1>3. DeviceCounted'
  <2>1. \A k \in Jobs : job'[k].at \in Held <=> job[k].at \in Held
    BY DEF Others
  <2>2. QED
    BY <1>1, <2>1, HeldSame
<1>4. Deferrals'
  BY <1>1 DEF Deferrals, Distinct
<1>5. QED
  BY <1>2, <1>3, <1>4, OneMoves

\* A PP job that has a completion under way.
LEMMA PendingFacts ==
  ASSUME Types, Accounts, NEW j \in Jobs, Pending(j)
  PROVE  /\ j \in PpJobs /\ j \notin ending /\ lock = None
         /\ job[j].at \in {"queued", "taken"}
         /\ job[j].released \in Nat /\ job[j].started \in Nat /\ job[j].completed \in Nat
         /\ Num(j) \in Nat /\ job[j].completed <= job[j].started
         /\ job[j].at = "taken" => job[j].started = Num(j)
         /\ job[j].at = "queued" => job[j].started < Num(j) /\ job[j].released = 0
         /\ done.step = "release" => job[j].released = 0
         /\ done.step = "check" /\ job[j].completed = Num(j) => job[j].released = 1
         /\ done.step \in {"release", "check"}
         /\ \A k \in Jobs \ {j} : ~Pending(k)
<1>1. Counted(j) /\ Located(j) /\ Deferrals
  BY DEF Accounts, Fine
<1>2. j \in PpJobs /\ done.step \in {"release", "check"} /\ \A k \in Jobs \ {j} : ~Pending(k)
  BY DEF Pending, Types
<1>3. lock = None /\ j \notin ending
  BY <1>1 DEF Pending, Deferrals, Located
<1>4. /\ job[j].released \in Nat /\ job[j].started \in Nat /\ job[j].completed \in Int
      /\ Num(j) \in Nat
  BY NumType DEF Types, JobRec
<1>5. Cardinality(OnGroups(j)) \in Nat /\ Cardinality(OnGroups(j)) = job[j].started - job[j].completed
      /\ 0 <= job[j].completed
  BY <1>1, GroupsFinite DEF Counted
<1>6. job[j].completed \in Nat /\ job[j].completed <= job[j].started
  BY <1>4, <1>5
<1>7. /\ job[j].at \in {"queued", "taken"}
      /\ done.step = "release" => job[j].released = 0
      /\ done.step = "check" /\ job[j].completed = Num(j) => job[j].released = 1
  BY <1>1 DEF Located
<1>8. /\ job[j].at = "taken" => job[j].started = Num(j)
      /\ job[j].at = "queued" => job[j].started < Num(j) /\ job[j].released = 0
  BY <1>1 DEF Counted, Held
<1>9. QED
  BY <1>2, <1>3, <1>4, <1>6, <1>7, <1>8

LEMMA PpReleaseAccounts ==
  ASSUME Types, Accounts, PpRelease
  PROVE  Accounts'
<1>1. PICK j : j = done.job
  OBVIOUS
<1>2. /\ j \in PpJobs /\ j \in Jobs /\ Others(j)
      /\ job'[j].released = IF IsComplete(j) THEN job[j].released + 1 ELSE job[j].released
      /\ job'[j].at = job[j].at /\ job'[j].started = job[j].started
      /\ job'[j].completed = job[j].completed
      /\ job'[j].ended = job[j].ended /\ job'[j].told = job[j].told
      /\ job'[j].fb = job[j].fb
      /\ done' # None /\ done'.job = j /\ done'.step = "check"
  BY <1>1, PpReleaseEffect
<1>3. /\ Pending(j) /\ Pending(j)' /\ done.step = "release"
      /\ UNCHANGED <<gp, pp, mapping, deferred, removed, ending, deleting, running, lock,
                     session, devRefs>>
  BY <1>1, <1>2 DEF PpRelease, Pending, queues, lists
<1>4. /\ j \notin ending /\ lock = None
      /\ job[j].at \in {"queued", "taken"}
      /\ job[j].released = 0 /\ job[j].started \in Nat /\ job[j].completed \in Nat
      /\ Num(j) \in Nat /\ job[j].completed <= job[j].started
      /\ job[j].at = "taken" => job[j].started = Num(j)
      /\ job[j].at = "queued" => job[j].started < Num(j)
      /\ \A k \in Jobs \ {j} : ~Pending(k)
  BY <1>2, <1>3, PendingFacts
<1>5. Counted(j) /\ Located(j) /\ Left(j)
  BY <1>2 DEF Accounts, Fine
<1>6. /\ job'[j].released \in {0, 1}
      /\ job[j].at = "queued" => job'[j].released = 0
      /\ job[j].completed = Num(j) <=> job'[j].released = 1
  BY <1>2, <1>4 DEF IsComplete
<1>7. Num(j)' = Num(j)
  BY DEF Num
<1>8. Counted(j)'
  <2>1. Cardinality(OnGroups(j))' = job'[j].started - job'[j].completed
    <3>1. OnGroups(j)' = OnGroups(j)
      BY <1>3 DEF OnGroups
    <3>2. QED
      BY <1>2, <1>5, <3>1 DEF Counted
  <2>2. /\ 0 <= job[j].completed /\ job[j].ended = 0 /\ job[j].told = 0
        /\ job[j].fb => j \in PpJobs /\ job[j].at \in {"created", "tracked", "deferred", "queued"}
    BY <1>4, <1>5 DEF Counted, Held
  <2>3. QED
    BY <1>2, <1>4, <1>6, <1>7, <2>1, <2>2 DEF Counted, Before, Held
<1>9. Located(j)'
  <2>1. Queued(gp)' = Queued(gp) /\ Queued(pp)' = Queued(pp)
    BY <1>3 DEF Queued
  <2>2. QED
    BY <1>2, <1>3, <1>4, <1>5, <1>6, <1>7, <2>1 DEF Located
<1>10. Left(j)'
  BY <1>2, <1>3, <1>4, <1>5, <1>6, LeftMoved
<1>11. \A k \in Jobs \ {j} : ~Pending(k)'
  BY <1>2 DEF Pending
<1>12. QED
  BY <1>2, <1>3, <1>4, <1>8, <1>9, <1>10, <1>11, StayingMoves

LEMMA PpCheckAccounts ==
  ASSUME Types, Accounts, PpCheck
  PROVE  Accounts'
<1>1. PICK j : j = done.job
  OBVIOUS
<1>2. /\ job' = job /\ done' = None /\ done # None /\ done.step = "check"
      /\ ending' = IF IsComplete(j) THEN ending \cup {j} ELSE ending
      /\ UNCHANGED <<gp, pp, mapping, deferred, removed, deleting, running, lock, session, devRefs>>
  BY <1>1 DEF PpCheck, queues
<1>3. Pending(j) /\ j \in Jobs
  BY <1>1, <1>2 DEF Pending, Types, Jobs
<1>4. /\ j \notin ending /\ lock = None
      /\ job[j].at \in {"queued", "taken"} /\ j \in PpJobs
      /\ job[j].started \in Nat /\ job[j].completed \in Nat
      /\ Num(j) \in Nat /\ job[j].completed <= job[j].started
      /\ job[j].at = "taken" => job[j].started = Num(j)
      /\ job[j].at = "queued" => job[j].started < Num(j)
      /\ job[j].completed = Num(j) => job[j].released = 1
      /\ \A k \in Jobs \ {j} : ~Pending(k)
  BY <1>2, <1>3, PendingFacts
<1>5. Counted(j) /\ Located(j) /\ Left(j)
  BY <1>3 DEF Accounts, Fine
<1>6. OnGroups(j)' = OnGroups(j) /\ Num(j)' = Num(j) /\ \A k \in Jobs : ~Pending(k)'
  BY <1>2 DEF OnGroups, Num, Pending
<1>7. Counted(j)'
  <2>1. Alike(job'[j], job[j])
    BY <1>2 DEF Alike
  <2>2. QED
    BY <1>5, <1>6, <2>1, CountedKept
<1>8. Located(j)'
  <2>1. Queued(gp)' = Queued(gp) /\ Queued(pp)' = Queued(pp)
    BY <1>2 DEF Queued
  <2>2. j \in ending' <=> job[j].completed = Num(j)
    BY <1>2, <1>4 DEF IsComplete
  <2>3. job[j].completed = Num(j) => job[j].at = "taken" /\ job[j].completed = job[j].started
    BY <1>4
  <2>4. job[j].at = "taken" /\ job[j].completed = job[j].started => job[j].completed = Num(j)
    BY <1>4
  <2>5. /\ job'[j] = job[j] /\ lock' = lock
        /\ UNCHANGED <<mapping, deferred, removed, deleting>>
    BY <1>2
  <2>6. ~Pending(j)' /\ Num(j)' = Num(j)
    BY <1>3, <1>6
  <2>7. QED
    BY <1>4, <1>5, <2>1, <2>2, <2>3, <2>4, <2>5, <2>6 DEF Located
<1>9. Left(j)'
  BY <1>2, <1>5 DEF Left
<1>10. Others(j) /\ \A k \in Jobs \ {j} : k \in ending' <=> k \in ending
  BY <1>2 DEF Others
<1>11. QED
  BY <1>2, <1>3, <1>4, <1>6, <1>7, <1>8, <1>9, <1>10, StayingMoves

\* The end of a job that the executor is done with, or that was taken off a queue.
LEMMA OverAccounts ==
  ASSUME Types, Accounts, NEW j \in Jobs, NEW n \in Nat, NEW notify \in BOOLEAN,
         Ended(job', job, j, n, notify), CompleteToList(j), devRefs' = devRefs - 1,
         job[j].at \in {"taken", "removed"}, job[j].completed = job[j].started,
         job[j].started = Num(j) \/ j \in GpJobs, job[j].released + n = 1, ~Pending(j),
         removed' = removed \ {j}, ending' = ending \ {j},
         UNCHANGED <<gp, pp, mapping, deferred, running, done, lock, session>>
  PROVE  Accounts'
<1>1. /\ \A k \in Jobs \ {j} : Alike(job'[k], job[k])
      /\ job'[j].released = 1 /\ job'[j].ended = job[j].ended + 1
      /\ job'[j].notify = notify /\ job'[j].fb = job[j].fb
      /\ j \in GpJobs => /\ job'[j].at = "deleted" /\ job'[j].started = 0
                         /\ job'[j].completed = 0
                         /\ job'[j].told = job[j].told + (IF notify THEN 1 ELSE 0)
      /\ j \in PpJobs => /\ job'[j].at = "deleting" /\ job'[j].told = job[j].told
                         /\ job'[j].started = job[j].started
                         /\ job'[j].completed = job[j].completed
  BY DEF Ended
<1>2. deleting' = IF j \in PpJobs THEN deleting \cup {j} ELSE deleting
  BY DEF CompleteToList
<1>3. Counted(j) /\ Located(j) /\ Left(j) /\ Deferrals /\ DeviceCounted
  BY DEF Accounts, Fine
<1>4. Num(j) \in Nat /\ Num(j)' = Num(j) /\ job[j].started \in Nat /\ (j \in GpJobs <=> j \notin PpJobs)
  BY NumType DEF Num, Types, JobRec, Jobs
<1>5. /\ job[j].ended = 0 /\ job[j].told = 0 /\ 0 <= job[j].completed /\ ~job[j].fb
      /\ Cardinality(OnGroups(j)) = job[j].started - job[j].completed
      /\ j \notin Queued(gp) \cup Queued(pp) /\ j \notin ToSet(mapping) \cup ToSet(deferred)
  BY <1>3 DEF Counted, Located, Held
<1>6. \A k \in Jobs : OnGroups(k)' = OnGroups(k) /\ (Pending(k)' <=> Pending(k))
  BY DEF OnGroups, Pending
<1>7. Cardinality(OnGroups(j))' = 0
  BY <1>4, <1>5, <1>6
<1>8. Counted(j)'
  <2>1. CASE j \in GpJobs
    BY <1>1, <1>4, <1>5, <1>7, <2>1 DEF Counted, Before, Held
  <2>2. CASE j \in PpJobs
    <3>1. job'[j].at = "deleting" /\ job'[j].started = Num(j) /\ job'[j].completed = Num(j)
      BY <1>1, <1>4, <2>2
    <3>2. QED
      BY <1>1, <1>4, <1>5, <1>7, <2>2, <3>1 DEF Counted, Before, Held
  <2>3. QED
    BY <1>4, <2>1, <2>2
<1>9. Located(j)'
  <2>1. Queued(gp)' = Queued(gp) /\ Queued(pp)' = Queued(pp)
    BY DEF Queued
  <2>2. j \notin removed' \cup ending'
    OBVIOUS
  <2>3. j \in deleting' <=> j \in PpJobs
    BY <1>2, <1>3 DEF Located
  <2>4. job'[j].at = IF j \in PpJobs THEN "deleting" ELSE "deleted"
    BY <1>1, <1>4
  <2>5. QED
    BY <1>5, <1>6, <2>1, <2>2, <2>3, <2>4 DEF Located
<1>10. Left(j)'
  BY <1>1, <1>3, <1>4, LeftMoved
<1>11. \A k \in Jobs \ {j} : Unmoved(k)
  BY <1>2, <1>6 DEF Unmoved
<1>12. DeviceCounted'
  <2>1. job[j].at \in Held /\ job'[j].at \notin Held
    BY <1>1, <1>4 DEF Held
  <2>2. QED
    BY <1>1, <1>3, <2>1, HeldDrop DEF Alike
<1>13. Deferrals'
  BY <1>3, DeferralsKept
<1>14. QED
  BY <1>1, <1>6, <1>8, <1>9, <1>10, <1>11, <1>12, <1>13, OneMoves

LEMMA EndAccounts ==
  ASSUME Types, Accounts, NEW j \in Jobs, EndJob(j)
  PROVE  Accounts'
<1>1. PICK notify : notify = job[j].notify
  OBVIOUS
<1>2. Ended(job', job, j, 0, job[j].notify) /\ notify \in BOOLEAN
  BY <1>1, EndEffect DEF Types, JobRec
<1>0. PICK n \in Nat : n = 0
  OBVIOUS
<1>9. Ended(job', job, j, n, notify)
  BY <1>0, <1>1, <1>2
<1>3. /\ j \in ending /\ ending' = ending \ {j} /\ CompleteToList(j) /\ devRefs' = devRefs - 1
      /\ UNCHANGED <<gp, pp, mapping, deferred, removed, running, done, lock, session>>
  BY DEF EndJob, queues
<1>4. Counted(j) /\ Located(j)
  BY DEF Accounts, Fine
<1>5. /\ job[j].at = "taken" /\ job[j].completed = job[j].started /\ job[j].released = 1
      /\ ~Pending(j) /\ j \notin removed
  BY <1>3, <1>4 DEF Located
<1>6. job[j].started = Num(j)
  BY <1>4, <1>5 DEF Counted
<1>7. job[j].released + n = 1 /\ removed' = removed \ {j}
  BY <1>0, <1>3, <1>5
<1>8. QED
  BY <1>2, <1>3, <1>5, <1>6, <1>7, <1>9, OverAccounts

LEMMA AbortJobAccounts ==
  ASSUME Types, Accounts, NEW j \in Jobs, AbortJob(j)
  PROVE  Accounts'
<1> DEFINE no == FALSE
<1>1. job' = Cancelled(job, j, no) /\ no \in BOOLEAN /\ job \in [Jobs -> JobRec]
  BY DEF AbortJob, Types
<1> HIDE DEF no
<1>2. Ended(job', job, j, 1, no)
  BY <1>1, CancelledFacts
<1>0. PICK n \in Nat : n = 1
  OBVIOUS
<1>3. Ended(job', job, j, n, no)
  BY <1>0, <1>2
<1>4. /\ j \in removed /\ removed' = removed \ {j} /\ CompleteToList(j) /\ devRefs' = devRefs - 1
      /\ UNCHANGED <<gp, pp, mapping, deferred, ending, running, done, lock, session>>
  BY DEF AbortJob, queues
<1>5. Counted(j) /\ Located(j)
  BY DEF Accounts, Fine
<1>6. job[j].at = "removed" /\ ~Pending(j) /\ j \notin ending
  BY <1>4, <1>5 DEF Located
<1>7. /\ job[j].completed = job[j].started /\ job[j].released = 0
      /\ job[j].started = Num(j) \/ j \in GpJobs
  BY <1>5, <1>6 DEF Counted, Held, Jobs
<1>8. job[j].released + n = 1 /\ ending' = ending \ {j}
  BY <1>0, <1>4, <1>6, <1>7
<1>9. QED
  BY <1>1, <1>3, <1>4, <1>6, <1>7, <1>8, OverAccounts

\* Steps of the executor.
LEMMA ExecuteAccounts ==
  ASSUME ~Races, Common, Accounts, Execute
  PROVE  Accounts'
<1>0. Types
  BY DEF Common, Base
<1>1. CASE GpGet
  BY <1>1, GpGetAccounts
<1>2. CASE PpVirtualGet
  <2>1. PICK j : j = VirtualPeek
    OBVIOUS
  <2>2. /\ VirtualPeek # None /\ TakeSubJob(VirtualPeek, "virtual") /\ done = None
        /\ running["virtual"] = None
    BY <1>2 DEF PpVirtualGet, MaySchedule
  <2>3. j \in PpJobs /\ j \in Queued(pp) /\ "virtual" \in Groups
    BY <1>0, <2>1, <2>2, VirtualFits DEF Groups
  <2>4. QED
    BY <1>0, <2>1, <2>2, <2>3, TakeAccounts
<1>3. ASSUME NEW g \in PpCores, PpPhysicalGet(g) PROVE Accounts'
  <2>1. PICK j : j = PhysicalPeek
    OBVIOUS
  <2>2. /\ PhysicalHeadCount(SecureNeeded) > 0 /\ TakeSubJob(PhysicalPeek, g) /\ done = None
        /\ running[g] = None
    BY <1>3 DEF PpPhysicalGet, MaySchedule
  <2>3. j \in PpJobs /\ j \in Queued(pp)
    BY <1>0, <2>1, <2>2, PeekFits
  <2>4. g \in Groups
    BY DEF Groups
  <2>5. QED
    BY <1>0, <2>1, <2>2, <2>3, <2>4, TakeAccounts
<1>4. ASSUME NEW g \in Groups, NEW success \in BOOLEAN, NEW zapped \in BOOLEAN,
             GroupDone(g, success, zapped)
      PROVE  Accounts'
  <2>1. UNCHANGED <<queues, mapping, deferred, removed, deleting, lock, session, devRefs>>
    BY <1>4 DEF GroupDone
  <2>2. PICK yes \in BOOLEAN, told \in BOOLEAN :
          \/ GpComplete(success, yes) /\ UNCHANGED done
          \/ PpMark(g, told) /\ UNCHANGED ending
    BY <1>4 DEF GroupDone
  <2>3. QED
    BY <1>0, <2>1, <2>2, GpCompleteAccounts, PpMarkAccounts
<1>5. QED
  BY <1>0, <1>1, <1>2, <1>3, <1>4, PpReleaseAccounts, PpCheckAccounts, EndAccounts DEF Execute

\* Steps that change the phase of a session: a job that stays what it was,
LEMMA LeftEntered ==
  ASSUME Types, NEW s \in Sessions, NEW from \in Phases, NEW to \in Phases,
         Enter(s, from, to), from # "open", to \notin {"flushing", "closed"},
         NEW k \in Jobs, Left(k), job'[k].at = job[k].at, job'[k].released = job[k].released
  PROVE  Left(k)'
<1>1. /\ session[s].phase = from /\ session'[s].phase = to
      /\ \A u \in Sessions \ {s} : session'[u] = session[u]
  BY EnterTyped
<1>2. Session[k] \in Sessions
  OBVIOUS
<1>3. CASE Session[k] = s
  BY <1>1, <1>3 DEF Left
<1>4. CASE Session[k] # s
  BY <1>1, <1>2, <1>4 DEF Left
<1>5. QED
  BY <1>3, <1>4

\* and one that the step changes.
LEMMA LeftChanged ==
  ASSUME Types, NEW s \in Sessions, NEW from \in Phases, NEW to \in Phases,
         Enter(s, from, to), to \notin {"flushing", "closed"},
         NEW k \in JobsOf(s), job'[k].at # "created"
  PROVE  Left(k)'
<1>1. session'[s].phase = to
  BY EnterTyped
<1>2. QED
  BY <1>1 DEF Left, JobsOf

\* The abort of a session takes its jobs off the queues. A GP job did not start,
LEMMA MarkedGp ==
  ASSUME Types, NEW k \in GpJobs, Counted(k), job[k].at = "queued", job'[k].at = "removed",
         SameCounts(job'[k], job[k]), job'[k].fb = job[k].fb, OnGroups(k)' = OnGroups(k)
  PROVE  Counted(k)'
<1>1. Num(k) = 1 /\ job[k].started \in Nat /\ k \notin PpJobs
  BY DEF Num, Types, JobRec, Jobs
<1>2. /\ Cardinality(OnGroups(k)) \in Nat /\ 0 <= job[k].completed /\ job[k].started < 1
      /\ Cardinality(OnGroups(k)) = job[k].started - job[k].completed
      /\ ~job[k].fb /\ job[k].released = 0 /\ job[k].ended = 0 /\ job[k].told = 0
      /\ job[k].completed \in Int
  BY <1>1, GroupsFinite DEF Counted, Held, Types, JobRec, Jobs
<1>3. job[k].started = 0 /\ job[k].completed = 0 /\ Cardinality(OnGroups(k)) = 0
  BY <1>1, <1>2
<1>4. Cardinality(OnGroups(k))' = 0
  BY <1>3
<1>5. QED
  BY <1>1, <1>2, <1>3, <1>4 DEF Counted, Before, Held, SameCounts

\* a PP job may have.
LEMMA MarkedPp ==
  ASSUME Types, NEW k \in PpJobs, Counted(k), job[k].at = "queued", job'[k].at = "marked",
         job'[k].fb = FALSE, job'[k].started = Num(k),
         job'[k].completed = job[k].completed + (Num(k) - job[k].started),
         job'[k].released = job[k].released, job'[k].ended = job[k].ended,
         job'[k].told = job[k].told, OnGroups(k)' = OnGroups(k)
  PROVE  Counted(k)'
<1>1. /\ Num(k) \in Nat /\ Num(k)' = Num(k) /\ job[k].started \in Nat
      /\ job[k].completed \in Int
  BY NumType DEF Num, Types, JobRec, Jobs
<1>2. /\ 0 <= job[k].completed /\ job[k].started < Num(k)
      /\ Cardinality(OnGroups(k)) = job[k].started - job[k].completed
      /\ job[k].released = 0 /\ job[k].ended = 0 /\ job[k].told = 0
  BY DEF Counted, Held
<1>3. Cardinality(OnGroups(k))' = job'[k].started - job'[k].completed /\ 0 <= job'[k].completed
  BY <1>1, <1>2
<1>4. QED
  BY <1>1, <1>2, <1>3 DEF Counted, Before, Held

LEMMA AbortMarkAccounts ==
  ASSUME ~Races, Common, Accounts, NEW s \in Sessions, AbortMark(s)
  PROVE  Accounts'
<1> DEFINE G == JobsOf(s) \cap Queued(gp)
           P == JobsOf(s) \cap Queued(pp)
<1>0. Types /\ GpQueueExact /\ Deferrals /\ DeviceCounted /\ \A k \in Jobs : Fine(k)
  BY DEF Common, Base, Accounts
<1>1. /\ G \subseteq GpJobs /\ P \subseteq PpJobs
      /\ \A k \in Jobs \ (G \cup P) : job'[k] = job[k]
      /\ \A k \in G : /\ job'[k].at = "removed" /\ SameCounts(job'[k], job[k])
                      /\ job'[k].fb = job[k].fb
      /\ \A k \in P : /\ job'[k].at = "marked" /\ job'[k].fb = FALSE
                      /\ job'[k].started = Num(k)
                      /\ job'[k].completed = job[k].completed + (Num(k) - job[k].started)
                      /\ job'[k].released = job[k].released /\ job'[k].ended = job[k].ended
                      /\ job'[k].told = job[k].told
  BY <1>0, AbortMarkEffect, ZenonT(30)
<1>2. /\ gp' = [p \in Priorities |-> Without(gp[p], G)]
      /\ pp' = [p \in Priorities |-> Without(pp[p], P)]
      /\ removed' = removed \cup G /\ lock' = s /\ lock = None
      /\ UNCHANGED <<mapping, deferred, ending, deleting, running, done, devRefs>>
      /\ done = None /\ ending = {}
      /\ Enter(s, "aborting", "marked")
  BY DEF AbortMark, Queued, Quiet
<1>3. /\ depth' = [gp |-> depth.gp - Cardinality(G),
                   pp |-> depth.pp - Cardinality(Waiting(P))]
      /\ bigNum' = bigNum - Cardinality(G \cap Big)
  BY DEF AbortMark, Queued
<1>4. /\ \A k \in G : k \in GpJobs /\ k \in JobsOf(s) /\ k \in Jobs /\ k \in Queued(gp)
      /\ \A k \in P : k \in PpJobs /\ k \in JobsOf(s) /\ k \in Jobs /\ k \in Queued(pp)
  BY <1>1 DEF JobsOf
<1>5. Queued(gp') = Queued(gp) \ G /\ Queued(pp') = Queued(pp) \ P
  <2> DEFINE n == depth.pp - Cardinality(Waiting(P))
  <2>1. G \in SUBSET Queued(gp)
    OBVIOUS
  <2>2. depth' = [gp |-> depth.gp - Cardinality(G), pp |-> n]
    BY <1>3
  <2> HIDE DEF G, P, n
  <2>3. Queued(gp)' = Queued(gp) \ G
    BY <1>0, <1>2, <1>3, <2>1, <2>2, GpQueueWithout
  <2>4. Queued(pp') = Queued(pp) \ P
    BY <1>0, <1>2, PpQueueWithout
  <2>5. QED
    BY <2>3, <2>4 DEF Queued
<1>6. Queued(gp) \subseteq GpJobs /\ Queued(pp) \subseteq PpJobs
  BY <1>0 DEF Types, Queued, ToSet
<1>7. \A k \in Jobs : OnGroups(k)' = OnGroups(k) /\ ~Pending(k) /\ ~Pending(k)'
  BY <1>2 DEF OnGroups, Pending
<1>8. {"aborting", "marked"} \subseteq Phases
  BY DEF Phases
<1> HIDE DEF G, P
<1>9. ASSUME NEW k \in G PROVE Fine(k)'
  <2>1. k \in GpJobs /\ k \in JobsOf(s) /\ k \in Jobs /\ k \notin PpJobs /\ k \in Queued(gp)
    BY <1>4, <1>9 DEF Jobs
  <2>2. Counted(k) /\ Located(k) /\ job[k].at = "queued"
    BY <1>0, <2>1 DEF Fine, Located
  <2>3. job'[k].at = "removed" /\ SameCounts(job'[k], job[k]) /\ job'[k].fb = job[k].fb
    BY <1>1, <1>9
  <2>4. Counted(k)'
    BY <1>0, <1>7, <2>1, <2>2, <2>3, MarkedGp
  <2>5. Located(k)'
    <3>1. k \notin Queued(gp') \cup Queued(pp') /\ k \in removed'
      BY <1>2, <1>5, <1>6, <1>9, <2>1
    <3>2. k \notin ToSet(mapping') \cup ToSet(deferred') /\ k \notin deleting' /\ k \notin ending'
      BY <1>2, <2>2 DEF Located
    <3>3. QED
      BY <1>7, <2>1, <2>3, <3>1, <3>2 DEF Located, Queued
  <2>6. Left(k)'
    BY <1>0, <1>2, <1>8, <2>1, <2>3, LeftChanged
  <2>7. QED
    BY <2>4, <2>5, <2>6 DEF Fine
<1>10. ASSUME NEW k \in P PROVE Fine(k)'
  <2>1. k \in PpJobs /\ k \in JobsOf(s) /\ k \in Jobs /\ k \notin GpJobs /\ k \in Queued(pp)
    BY <1>4, <1>10 DEF Jobs
  <2>2. Counted(k) /\ Located(k) /\ job[k].at = "queued"
    BY <1>0, <2>1 DEF Fine, Located
  <2>3. /\ job'[k].at = "marked" /\ job'[k].fb = FALSE
        /\ job'[k].started = Num(k)
        /\ job'[k].completed = job[k].completed + (Num(k) - job[k].started)
        /\ job'[k].released = job[k].released /\ job'[k].ended = job[k].ended
        /\ job'[k].told = job[k].told
    BY <1>1, <1>10
  <2>4. Counted(k)'
    BY <1>0, <1>7, <2>1, <2>2, <2>3, MarkedPp
  <2>5. Located(k)'
    <3>1. k \notin Queued(gp') \cup Queued(pp') /\ k \notin G
      BY <1>1, <1>5, <1>6, <1>10, <2>1
    <3>2. k \notin ToSet(mapping') \cup ToSet(deferred') /\ k \notin deleting' /\ k \notin ending'
      BY <1>2, <2>2 DEF Located
    <3>3. k \notin removed' /\ lock' = Session[k]
      BY <1>2, <2>1, <2>2, <3>1 DEF Located, JobsOf
    <3>4. QED
      BY <1>7, <2>1, <2>3, <3>1, <3>2, <3>3 DEF Located, Queued
  <2>6. Left(k)'
    BY <1>0, <1>2, <1>8, <2>1, <2>3, LeftChanged
  <2>7. QED
    BY <2>4, <2>5, <2>6 DEF Fine
<1>11. ASSUME NEW k \in Jobs \ (G \cup P) PROVE Fine(k)'
  <2>1. Counted(k) /\ Located(k) /\ Left(k) /\ job'[k] = job[k] /\ Session[k] \in Sessions
    BY <1>0, <1>1, <1>11 DEF Fine
  <2>2. Alike(job'[k], job[k])
    BY <2>1 DEF Alike
  <2>3. Unmoved(k)
    <3>1. job[k].at # "marked"
      BY <1>2, <2>1 DEF Located
    <3>2. QED
      BY <1>2, <1>5, <1>7, <1>11, <3>1 DEF Unmoved
  <2>4. Left(k)'
    BY <1>0, <1>2, <1>8, <2>1, LeftEntered
  <2>5. QED
    BY <1>7, <2>1, <2>2, <2>3, <2>4, CountedKept, LocatedKept DEF Fine
<1>12. DeviceCounted'
  <2>1. \A k \in G \cup P : job[k].at = "queued"
    BY <1>0, <1>4 DEF Fine, Located
  <2>2. \A k \in Jobs : job'[k].at \in Held <=> job[k].at \in Held
    BY <1>1, <2>1 DEF Held
  <2>3. QED
    BY <1>0, <1>2, <2>2, HeldSame
<1>13. Deferrals'
  BY <1>0, <1>2 DEF Deferrals, Distinct
<1>14. QED
  BY <1>9, <1>10, <1>11, <1>12, <1>13 DEF Accounts

\* The abort looks at the marked jobs again.
LEMMA AbortCheckAccounts ==
  ASSUME Types, Accounts, NEW s \in Sessions, AbortCheck(s)
  PROVE  Accounts'
<1> DEFINE M == {j \in JobsOf(s) : job[j].at = "marked"}
<1>0. Deferrals /\ DeviceCounted /\ \A k \in Jobs : Fine(k)
  BY DEF Accounts
<1>1. /\ M \subseteq Jobs /\ \A k \in Jobs \ M : job'[k] = job[k]
      /\ \A k \in M : /\ job'[k].at = IF IsComplete(k) THEN "removed" ELSE "taken"
                      /\ SameCounts(job'[k], job[k])
                      /\ job'[k].fb = job[k].fb
  BY AbortCheckEffect
<1>2. /\ UNCHANGED <<gp, pp, mapping, deferred, ending, deleting, running, done, devRefs>>
      /\ removed' = removed \cup {j \in M : IsComplete(j)}
      /\ lock = s /\ lock' = None /\ Enter(s, "marked", "removing")
  BY DEF AbortCheck, queues
<1>3. /\ \A k \in M : k \in JobsOf(s) /\ k \in Jobs /\ job[k].at = "marked"
      /\ \A k \in Jobs : Session[k] = s /\ job[k].at = "marked" => k \in M
  BY DEF JobsOf
<1>4. done = None
  BY <1>0, <1>2 DEF Deferrals
<1>5. \A k \in Jobs : OnGroups(k)' = OnGroups(k) /\ ~Pending(k) /\ ~Pending(k)'
  BY <1>2, <1>4 DEF OnGroups, Pending
<1>6. {"marked", "removing"} \subseteq Phases
  BY DEF Phases
<1>7. Queued(gp') = Queued(gp) /\ Queued(pp') = Queued(pp)
  BY <1>2
<1> HIDE DEF M
<1>8. ASSUME NEW k \in M PROVE Fine(k)'
  <2>1. Counted(k) /\ Located(k) /\ job[k].at = "marked" /\ k \in JobsOf(s) /\ k \in Jobs
    BY <1>0, <1>3, <1>8 DEF Fine
  <2>2. /\ SameCounts(job'[k], job[k]) /\ job'[k].fb = job[k].fb
        /\ IsComplete(k) => job'[k].at = "removed" /\ k \in removed'
        /\ ~IsComplete(k) => job'[k].at = "taken"
    BY <1>1, <1>2, <1>8
  <2>3. /\ Cardinality(OnGroups(k)) = job[k].started - job[k].completed /\ 0 <= job[k].completed
        /\ job[k].started = Num(k) /\ job[k].released = 0 /\ job[k].ended = 0 /\ job[k].told = 0
        /\ k \in PpJobs /\ ~job[k].fb
    BY <2>1 DEF Counted, Held
  <2>4. Num(k)' = Num(k) /\ Cardinality(OnGroups(k))' = Cardinality(OnGroups(k))
    BY <1>5, <2>1 DEF Num
  <2>5. IsComplete(k) <=> job[k].completed = job[k].started
    BY <2>3 DEF IsComplete
  <2>6. Counted(k)'
    BY <2>2, <2>3, <2>4, <2>5 DEF Counted, Before, Held, SameCounts
  <2>7. Located(k)'
    <3>1. /\ k \notin Queued(gp) \cup Queued(pp) /\ k \notin ToSet(mapping) \cup ToSet(deferred)
          /\ k \notin deleting /\ k \notin ending /\ k \notin removed
      BY <2>1 DEF Located
    <3>2. /\ k \notin Queued(gp') \cup Queued(pp') /\ k \notin ToSet(mapping') \cup ToSet(deferred')
          /\ k \notin deleting' /\ k \notin ending'
      BY <1>2, <1>7, <3>1
    <3>3. k \in removed' => IsComplete(k)
      BY <1>2, <3>1
    <3>4. job'[k].completed = job[k].completed /\ job'[k].started = job[k].started
      BY <2>2 DEF SameCounts
    <3>5. QED
      BY <1>5, <2>1, <2>2, <2>5, <3>2, <3>3, <3>4 DEF Located, Queued
  <2>8. Left(k)'
    <3>1. job'[k].at # "created"
      BY <2>2
    <3>2. QED
      BY <1>2, <1>6, <2>1, <3>1, LeftChanged
  <2>9. QED
    BY <2>6, <2>7, <2>8 DEF Fine
<1>9. ASSUME NEW k \in Jobs \ M PROVE Fine(k)'
  <2>1. Counted(k) /\ Located(k) /\ Left(k) /\ job'[k] = job[k]
    BY <1>0, <1>1, <1>9 DEF Fine
  <2>2. Alike(job'[k], job[k])
    BY <2>1 DEF Alike
  <2>3. Unmoved(k)
    <3>1. job[k].at # "marked"
      BY <1>2, <1>3, <1>9, <2>1 DEF Located
    <3>2. QED
      BY <1>2, <1>5, <1>7, <1>9, <3>1 DEF Unmoved
  <2>4. Left(k)'
    BY <1>2, <1>6, <2>1, LeftEntered
  <2>5. QED
    BY <1>5, <2>1, <2>2, <2>3, <2>4, CountedKept, LocatedKept DEF Fine
<1>10. DeviceCounted'
  <2>1. \A k \in Jobs : job'[k].at \in Held <=> job[k].at \in Held
    BY <1>1, <1>3 DEF Held
  <2>2. QED
    BY <1>0, <1>2, <2>1, HeldSame
<1>11. Deferrals'
  BY <1>0, <1>2, DeferralsKept DEF Deferrals, Distinct
<1>12. QED
  BY <1>8, <1>9, <1>10, <1>11 DEF Accounts

\* Steps that leave the jobs where they are: the sessions or the output of a job change.
LEMMA JobsStay ==
  ASSUME Accounts, UNCHANGED <<queues, lists, running, done, lock, devRefs>>,
         \A k \in Jobs : /\ job'[k].at = job[k].at /\ SameCounts(job'[k], job[k])
                         /\ job'[k].fb = job[k].fb /\ Left(k)'
  PROVE  Accounts'
<1>1. UNCHANGED <<gp, pp, mapping, deferred, removed, ending, deleting, running, done, lock, devRefs>>
  BY DEF queues, lists
<1>2. ASSUME NEW k \in Jobs PROVE Fine(k)'
  <2>1. /\ Counted(k) /\ Located(k) /\ Left(k)'
        /\ job'[k].at = job[k].at /\ SameCounts(job'[k], job[k]) /\ job'[k].fb = job[k].fb
    BY DEF Accounts, Fine
  <2>2. Counted(k)'
    <3>1. Cardinality(OnGroups(k))' = Cardinality(OnGroups(k)) /\ Num(k)' = Num(k)
      BY <1>1 DEF OnGroups, Num
    <3>2. QED
      BY <2>1, <3>1 DEF Counted, SameCounts
  <2>3. Located(k)'
    <3>1. Queued(gp)' = Queued(gp) /\ Queued(pp)' = Queued(pp) /\ (Pending(k)' <=> Pending(k))
      BY <1>1 DEF Queued, Pending
    <3>2. Num(k)' = Num(k)
      BY DEF Num
    <3>3. QED
      BY <1>1, <2>1, <3>1, <3>2 DEF Located, SameCounts
  <2>4. QED
    BY <2>1, <2>2, <2>3 DEF Fine
<1>3. DeviceCounted'
  <2>1. DeviceCounted
    BY DEF Accounts
  <2>2. QED
    BY <1>1, <2>1, HeldSame
<1>4. Deferrals'
  BY <1>1, DeferralsKept DEF Accounts
<1>5. QED
  BY <1>2, <1>3, <1>4 DEF Accounts

\* Steps that change the phase of a session only.
LEMMA PhaseAccounts ==
  ASSUME Types, Accounts, NEW s \in Sessions, NEW from \in Phases, NEW to \in Phases,
         Enter(s, from, to), UNCHANGED <<job, queues, lists, running, done, lock, devRefs>>,
         \A k \in JobsOf(s) :
           /\ job[k].at # "created"
           /\ to \in {"flushing", "closed"} =>
                job[k].at \in {"none", "leaked", "deleted"} \/ job[k].released = 1
           /\ to = "closed" => job[k].at \in {"none", "leaked", "deleted"}
  PROVE  Accounts'
<1>1. session'[s].phase = to /\ \A u \in Sessions \ {s} : session'[u] = session[u]
  BY EnterTyped
<1>2. ASSUME NEW k \in Jobs PROVE Left(k)'
  <2>1. Left(k) /\ job' = job /\ Session[k] \in Sessions
    BY DEF Accounts, Fine
  <2>2. CASE Session[k] = s
    BY <1>1, <2>1, <2>2 DEF Left, JobsOf
  <2>3. CASE Session[k] # s
    BY <1>1, <2>1, <2>3 DEF Left
  <2>4. QED
    BY <2>2, <2>3
<1>3. QED
  BY <1>2, JobsStay DEF SameCounts

\* Steps of a thread that closes a session.
LEMMA ClosingAccounts ==
  ASSUME ~Races, Common, Accounts, NEW s \in Sessions, Closing(s)
  PROVE  Accounts'
<1>0. Types /\ {"removing", "executor", "timeline", "flushing", "closed"} \subseteq Phases
  BY DEF Common, Base, Phases
<1>1. \A k \in JobsOf(s) : k \in Jobs /\ Session[k] = s /\ Counted(k) /\ Located(k) /\ Left(k)
  BY DEF JobsOf, Accounts, Fine
<1>2. session[s].phase # "open" => \A k \in JobsOf(s) : job[k].at # "created"
  BY <1>1 DEF Left
<1>3. CASE AbortRunning(s)
  <2>1. /\ Enter(s, "removing", "executor")
        /\ UNCHANGED <<job, queues, lists, running, done, lock, devRefs>>
    BY <1>3 DEF AbortRunning
  <2>2. \A k \in JobsOf(s) : job[k].at # "created"
    BY <1>2, <2>1 DEF Enter
  <2>3. QED
    BY <1>0, <2>1, <2>2, PhaseAccounts
<1>4. CASE AbortTimeline(s)
  <2>1. /\ Enter(s, "executor", "timeline")
        /\ UNCHANGED <<job, queues, lists, running, done, lock, devRefs>>
    BY <1>4 DEF AbortTimeline
  <2>2. \A k \in JobsOf(s) : job[k].at # "created"
    BY <1>2, <2>1 DEF Enter
  <2>3. QED
    BY <1>0, <2>1, <2>2, PhaseAccounts
<1>5. CASE TimelineEmpty(s)
  <2>1. /\ Enter(s, "timeline", "flushing")
        /\ UNCHANGED <<job, queues, lists, running, done, lock, devRefs>>
        /\ \A k \in JobsOf(s) : job[k].at \in {"none", "leaked", "deleted"} \/ job[k].released > 0
    BY <1>5 DEF TimelineEmpty
  <2>2. \A k \in JobsOf(s) : job[k].at # "created"
    BY <1>2, <2>1 DEF Enter
  <2>3. \A k \in JobsOf(s) : job[k].released \in Nat /\ job[k].released <= 1
    BY <1>0, <1>1 DEF Types, JobRec, Counted
  <2>4. \A k \in JobsOf(s) : job[k].at \in {"none", "leaked", "deleted"} \/ job[k].released = 1
    BY <2>1, <2>3
  <2>5. QED
    BY <1>0, <2>1, <2>2, <2>4, PhaseAccounts
<1>6. CASE Closed(s)
  <2>1. /\ Enter(s, "flushing", "closed") /\ done = None /\ ending = {} /\ deleting = {}
        /\ UNCHANGED <<job, queues, lists, running, done, lock, devRefs>>
    BY <1>6 DEF Closed, Quiet
  <2>2. ASSUME NEW k \in JobsOf(s) PROVE job[k].at \in {"none", "leaked", "deleted"}
    <3>1. job[k].at \in {"none", "leaked", "deleted"} \/ job[k].released = 1
      BY <1>1, <2>1 DEF Left, Enter
    <3>2. job[k].at \in Places /\ ~Pending(k) /\ k \notin ending /\ k \notin deleting
      BY <1>0, <1>1, <2>1 DEF Types, JobRec, Pending
    <3>3. job[k].at # "deleting"
      BY <1>1, <3>2 DEF Located
    <3>4. job[k].released = 1 => job[k].at # "taken"
      BY <1>1, <3>2 DEF Located, Counted
    <3>5. job[k].released = 1 => job[k].at \notin Before /\ job[k].at \notin Held \ {"taken"}
      BY <1>1 DEF Counted
    <3>6. QED
      BY <3>1, <3>2, <3>3, <3>4, <3>5 DEF Places, Before, Held
  <2>3. \A k \in JobsOf(s) : job[k].at # "created"
    BY <2>2
  <2>4. QED
    BY <1>0, <2>1, <2>2, <2>3, PhaseAccounts
<1>7. ASSUME NEW g \in Groups, AbortGroup(s, g) PROVE Accounts'
  <2>1. UNCHANGED <<queues, mapping, deferred, removed, deleting, lock, session, devRefs>>
    BY <1>7 DEF AbortGroup
  <2>2. PICK no \in BOOLEAN : \/ GpComplete(no, no) /\ UNCHANGED done
                              \/ PpMark(g, no) /\ UNCHANGED ending
    BY <1>7 DEF AbortGroup
  <2>3. QED
    BY <1>0, <2>1, <2>2, GpCompleteAccounts, PpMarkAccounts
<1>8. ASSUME NEW j \in JobsOf(s), AbortJob(j) PROVE Accounts'
  BY <1>0, <1>1, <1>8, AbortJobAccounts
<1>9. QED
  BY <1>0, <1>3, <1>4, <1>5, <1>6, <1>7, <1>8, AbortMarkAccounts, AbortCheckAccounts DEF Closing

\* The other requests of a user.
LEMMA RequestsAccounts ==
  ASSUME Types, Accounts, NEW s \in Sessions, Close(s) \/ RequestHighPriority(s) \/ DisableWb(s)
  PROVE  Accounts'
<1>1. CASE Close(s)
  <2>1. /\ Enter(s, "open", "aborting") /\ \A k \in JobsOf(s) : job[k].at # "created"
        /\ UNCHANGED <<job, queues, lists, running, done, lock, devRefs>>
    BY <1>1 DEF Close
  <2>2. "open" \in Phases /\ "aborting" \in Phases
    BY DEF Phases
  <2>3. QED
    BY <2>1, <2>2, PhaseAccounts
<1>2. CASE RequestHighPriority(s)
  <2>1. \A u \in Sessions : session'[u].phase = session[u].phase
    <3> DEFINE r == [session[s] EXCEPT !.high = TRUE]
    <3>1. session \in [Sessions -> [phase : Phases, high : BOOLEAN]]
      BY DEF Types
    <3>2. r.phase = session[s].phase
      BY <3>1
    <3>3. session' = [session EXCEPT ![s] = r]
      BY <1>2 DEF RequestHighPriority
    <3> HIDE DEF r
    <3>4. QED
      BY <3>1, <3>2, <3>3
  <2>2. UNCHANGED <<job, queues, lists, running, done, lock, devRefs>>
    BY <1>2 DEF RequestHighPriority
  <2>3. \A k \in Jobs : Left(k)'
    BY <2>1, <2>2 DEF Left, Accounts, Fine
  <2>4. QED
    BY <2>2, <2>3, JobsStay DEF SameCounts
<1>3. CASE DisableWb(s)
  <2>1. \A k \in Jobs : /\ job'[k].at = job[k].at /\ SameCounts(job'[k], job[k])
                        /\ job'[k].fb = job[k].fb
    BY <1>3, DisableEffect
  <2>2. UNCHANGED <<queues, lists, running, done, lock, session, devRefs>>
    BY <1>3 DEF DisableWb
  <2>3. \A k \in Jobs : Left(k)'
    BY <2>1, <2>2 DEF Left, Accounts, Fine, SameCounts
  <2>4. QED
    BY <2>1, <2>2, <2>3, JobsStay
<1>4. QED
  BY <1>1, <1>2, <1>3

LEMMA NextAccounts ==
  ASSUME ~Races, Common, Accounts, [Next]_vars
  PROVE  Accounts'
<1>0. Types /\ GpQueueExact
  BY DEF Common, Base
<1>1. ASSUME UNCHANGED <<job, queues, lists, running, done, lock, session, devRefs>>
      PROVE  Accounts'
  <2>1. \A k \in Jobs : Left(k)'
    BY <1>1 DEF Left, Accounts, Fine
  <2>2. QED
    BY <1>1, <2>1, JobsStay DEF SameCounts
<1>2. CASE UNCHANGED vars
  BY <1>1, <1>2 DEF vars
<1>3. ASSUME NEW t \in Threads, PendingSubmit(t) \/ Interrupted(t) PROVE Accounts'
  BY <1>1, <1>3 DEF PendingSubmit, Interrupted
<1>4. QED
  BY <1>0, <1>2, <1>3, StartAccounts, WorkersAccounts, ExecuteAccounts, ClosingAccounts,
     RequestsAccounts DEF Next

LEMMA InitAccounts == Init => Accounts
<1> SUFFICES ASSUME Init PROVE Accounts
  OBVIOUS
<1>1. /\ \A j \in Jobs : job[j] = NewJob
      /\ mapping = <<>> /\ deferred = <<>> /\ removed = {} /\ ending = {} /\ deleting = {}
      /\ done = None /\ lock = None /\ devRefs = 0
      /\ \A g \in Groups : running[g] = None
      /\ \A s \in Sessions : session[s].phase = "open"
  BY DEF Init
<1>2. Queued(gp) = {} /\ Queued(pp) = {} /\ ToSet(mapping) = {} /\ ToSet(deferred) = {}
  BY <1>1 DEF Init, Queued, ToSet
<1>3. ASSUME NEW j \in Jobs PROVE Fine(j)
  <2>1. Cardinality(OnGroups(j)) = 0
    <3>1. OnGroups(j) = {}
      BY <1>1 DEF OnGroups
    <3>2. QED
      BY <3>1, FS_EmptySet
  <2>2. Counted(j)
    BY <1>1, <2>1 DEF Counted, NewJob, Before, Held
  <2>3. Located(j)
    BY <1>1, <1>2 DEF Located, NewJob, Pending
  <2>4. Left(j)
    BY <1>1 DEF Left, NewJob
  <2>5. QED
    BY <2>2, <2>3, <2>4 DEF Fine
<1>4. Deferrals
  <2>1. Len(<<>>) = 0
    BY EmptySeq
  <2>2. 1..Len(mapping) = {} /\ 1..Len(deferred) = {}
    BY <1>1, <2>1
  <2>3. QED
    BY <1>1, <1>2, <2>2 DEF Deferrals, Distinct
<1>5. DeviceCounted
  <2>1. HeldJobs = {}
    BY <1>1 DEF HeldJobs, NewJob, Held
  <2>2. QED
    BY <1>1, <2>1, FS_EmptySet DEF DeviceCounted
<1>6. QED
  BY <1>3, <1>4, <1>5 DEF Accounts

LEMMA SpecInv ==
  ASSUME ~Races
  PROVE  Spec => []Inv
<1>1. Init => Inv
  BY InitCommon, InitAccounts DEF Inv
<1>2. Inv /\ [Next]_vars => Inv'
  BY NextCommon, NextAccounts DEF Inv
<1>3. QED
  BY <1>1, <1>2, PTL DEF Spec

\* What the accounts say of a job: the properties.
LEMMA InvImplies ==
  ASSUME Inv
  PROVE  CompletedOnce /\ SubJobsExact /\ DeviceHeldForJobs /\ ToldInTheEnd /\ ClosedIsClean
<1>0. Types /\ DeviceCounted /\ \A j \in Jobs : Counted(j) /\ Located(j) /\ Left(j)
  BY DEF Inv, Common, Base, Accounts, Fine
<1>1. CompletedOnce
  BY <1>0 DEF CompletedOnce, Counted
<1>2. SubJobsExact
  <2> SUFFICES ASSUME NEW j \in Jobs
      PROVE  /\ Cardinality(OnGroups(j)) = job[j].started - job[j].completed
             /\ job[j].at = "deleting" \/ j \in ending \cup removed =>
                  Cardinality(OnGroups(j)) = 0 /\ (j \in PpJobs => IsComplete(j))
    BY DEF SubJobsExact, OnGroups
  <2>1. /\ Cardinality(OnGroups(j)) = job[j].started - job[j].completed
        /\ job[j].started \in Nat /\ job[j].completed \in Int
    BY <1>0 DEF Counted, Types, JobRec
  <2>2. job[j].at = "deleting" \/ j \in ending \cup removed =>
          /\ job[j].completed = job[j].started
          /\ j \in PpJobs => job[j].started = Num(j)
    BY <1>0 DEF Counted, Located
  <2>3. QED
    BY <2>1, <2>2 DEF IsComplete
<1>3. DeviceHeldForJobs
  BY <1>0 DEF DeviceHeldForJobs, DeviceCounted, HeldJobs, Held
<1>4. ToldInTheEnd
  BY <1>0 DEF ToldInTheEnd, Counted
<1>5. ClosedIsClean
  <2> SUFFICES ASSUME NEW s \in Sessions, session[s].phase = "closed", NEW j \in JobsOf(s)
      PROVE  /\ job[j].at \in {"none", "deleted", "leaked"} /\ ~job[j].fb
             /\ j \notin ending \cup removed \cup deleting
    BY DEF ClosedIsClean
  <2>1. Counted(j) /\ Located(j) /\ Left(j) /\ Session[j] = s
    BY <1>0 DEF JobsOf
  <2>2. job[j].at \in {"none", "leaked", "deleted"}
    BY <2>1 DEF Left
  <2>3. QED
    BY <2>1, <2>2 DEF Counted, Located
<1>6. QED
  BY <1>1, <1>2, <1>3, <1>4, <1>5

\* If the last sub job of a PP job is not completed while its session is aborted: every
\* job is completed once and its tracker released once, by exactly one of the executor,
\* the abort and the path that refuses it; nothing is completed while a sub job runs; the
\* GPU is kept powered for the jobs between their queueing and their completion, and for
\* no others; the user is told; and a session is freed without a job that refers to it
\* (mali_executor_complete_group, mali_scheduler_complete_gp_job, _complete_pp_job,
\* mali_scheduler_abort_session, _mali_ukk_close).
THEOREM EveryJobAccounted ==
  ASSUME ~Races
  PROVE  Spec => []JobsAccounted
<1>1. Inv => JobsAccounted
  BY InvImplies DEF JobsAccounted
<1>2. QED
  BY <1>1, SpecInv, PTL

-----------------------------------------------------------------------------
(* The counts of the queues, when the executor and the scheduler do not race *)

\* The sub jobs of the jobs in S that have not started, when the jobs are js.
WaitingIn(js, S) == UNION {{j} \X ((js[j].started + 1)..Num(j)) : j \in S}

\* They are pairs of a job and a number,
LEMMA WaitingPairs ==
  ASSUME NEW js \in [Jobs -> JobRec], NEW S \in SUBSET Jobs
  PROVE  /\ WaitingIn(js, S) \subseteq Jobs \X Nat
         /\ \A j \in Jobs, n \in Nat :
              <<j, n>> \in WaitingIn(js, S) <=> j \in S /\ n \in (js[j].started + 1)..Num(j)
<1>1. \A j \in S : js[j].started \in Nat /\ Num(j) \in Nat
  BY NumType DEF JobRec
<1>2. \A j \in S : (js[j].started + 1)..Num(j) \subseteq Nat
  BY <1>1
<1>3. WaitingIn(js, S) \subseteq Jobs \X Nat
  BY <1>2 DEF WaitingIn
<1>4. QED
  BY <1>3 DEF WaitingIn

LEMMA SamePairs ==
  ASSUME NEW A, NEW B, A \subseteq Jobs \X Nat, B \subseteq Jobs \X Nat,
         \A j \in Jobs, n \in Nat : <<j, n>> \in A <=> <<j, n>> \in B
  PROVE  A = B
<1>1. \A x \in Jobs \X Nat : x = <<x[1], x[2]>> /\ x[1] \in Jobs /\ x[2] \in Nat
  OBVIOUS
<1>2. \A x \in Jobs \X Nat : x \in A <=> x \in B
  BY <1>1
<1>3. QED
  BY <1>2

\* and finitely many.
LEMMA WaitingFinite ==
  ASSUME NEW js \in [Jobs -> JobRec], NEW S \in SUBSET Jobs
  PROVE  IsFiniteSet(WaitingIn(js, S)) /\ Cardinality(WaitingIn(js, S)) \in Nat
<1> DEFINE of(j) == {j} \X ((js[j].started + 1)..Num(j))
           f == [j \in S |-> of(j)]
           T == {of(j) : j \in S}
<1>1. ASSUME NEW j \in S PROVE IsFiniteSet(of(j))
  <2>1. js[j].started + 1 \in Int /\ Num(j) \in Int
    BY NumType DEF JobRec
  <2>2. IsFiniteSet((js[j].started + 1)..Num(j)) /\ IsFiniteSet({j})
    BY <2>1, FS_Interval, FS_Singleton
  <2>3. QED
    BY <2>2, FS_Product
<1> HIDE DEF of
<1>2. f \in Surjection(S, T)
  BY DEF Surjection
<1>3. IsFiniteSet(S)
  BY FiniteAssumption, FS_Subset
<1>4. IsFiniteSet(T)
  BY <1>2, <1>3, FS_Surjection
<1>5. IsFiniteSet(UNION T)
  BY <1>1, <1>4, FS_UNION
<1>6. QED
  BY <1>5, FS_CardinalityType DEF WaitingIn, of

\* How many they are when a job is added,
LEMMA WaitingAdd ==
  ASSUME NEW js \in [Jobs -> JobRec], NEW q \in [Jobs -> JobRec], NEW S \in SUBSET Jobs,
         NEW j \in Jobs, j \notin S, \A k \in S : q[k].started = js[k].started,
         q[j].started = 0
  PROVE  Cardinality(WaitingIn(q, S \cup {j})) = Cardinality(WaitingIn(js, S)) + Num(j)
<1> DEFINE A == WaitingIn(js, S)
           B == {j} \X (1..Num(j))
           C == WaitingIn(q, S \cup {j})
<1>1. Num(j) \in Nat
  BY NumType
<1>2. A \subseteq Jobs \X Nat /\ C \subseteq Jobs \X Nat
  BY WaitingPairs
<1>3. \A k \in Jobs, n \in Nat : <<k, n>> \in C <=> <<k, n>> \in A \/ <<k, n>> \in B
  <2> TAKE k \in Jobs, n \in Nat
  <2>1. <<k, n>> \in A <=> k \in S /\ n \in (js[k].started + 1)..Num(k)
    BY WaitingPairs
  <2>2. <<k, n>> \in C <=> k \in S \cup {j} /\ n \in (q[k].started + 1)..Num(k)
    <3> DEFINE U == S \cup {j}
    <3>1. U \in SUBSET Jobs
      OBVIOUS
    <3> HIDE DEF U
    <3>2. <<k, n>> \in WaitingIn(q, U) <=> k \in U /\ n \in (q[k].started + 1)..Num(k)
      BY <3>1, WaitingPairs
    <3>3. QED
      BY <3>2 DEF U
  <2>3. <<k, n>> \in B <=> k = j /\ n \in 1..Num(j)
    OBVIOUS
  <2> HIDE DEF A, B, C
  <2>4. CASE k \in S
    <3>1. k # j /\ q[k].started = js[k].started
      BY <2>4
    <3>2. QED
      BY <2>1, <2>2, <2>3, <2>4, <3>1
  <2>5. CASE k = j
    <3>1. (q[k].started + 1)..Num(k) = 1..Num(j)
      BY <1>1, <2>5
    <3>2. QED
      BY <2>1, <2>2, <2>3, <2>5, <3>1
  <2>6. QED
    BY <2>1, <2>2, <2>3, <2>4, <2>5
<1>4. B \subseteq Jobs \X Nat
  BY <1>1
<1>5. IsFiniteSet(A) /\ Cardinality(A) \in Nat
  BY WaitingFinite
<1>6. IsFiniteSet(B) /\ Cardinality(B) = Num(j)
  <2> DEFINE I == 1..Num(j)
             J == {j}
  <2>1. IsFiniteSet(I) /\ Cardinality(I) = Num(j)
    BY <1>1, FS_Interval
  <2>2. IsFiniteSet(J) /\ Cardinality(J) = 1
    BY FS_Singleton
  <2>3. B = J \X I
    OBVIOUS
  <2> HIDE DEF B, I, J
  <2>4. IsFiniteSet(J \X I) /\ Cardinality(J \X I) = Cardinality(J) * Cardinality(I)
    BY <2>1, <2>2, FS_Product
  <2>5. QED
    BY <1>1, <2>1, <2>2, <2>3, <2>4
<1>7. A \cap B = {}
  <2>1. \A x \in B : x[1] = j
    OBVIOUS
  <2>2. \A x \in A : x[1] \in S
    BY DEF WaitingIn
  <2>3. QED
    BY <2>1, <2>2
<1> HIDE DEF A, B, C
<1>8. C = A \cup B
  <2> DEFINE D == A \cup B
  <2>1. D \subseteq Jobs \X Nat /\ \A k \in Jobs, n \in Nat : <<k, n>> \in C <=> <<k, n>> \in D
    BY <1>2, <1>3, <1>4
  <2> HIDE DEF D
  <2>2. C = D
    BY <1>2, <2>1, SamePairs
  <2>3. QED
    BY <2>2 DEF D
<1>9. Cardinality(A \cup B) = Cardinality(A) + Cardinality(B)
  <2>1. Cardinality(A \cup B) = Cardinality(A) + Cardinality(B) - Cardinality(A \cap B)
    BY <1>5, <1>6, FS_Union
  <2>2. Cardinality(A \cap B) = 0
    BY <1>7, FS_EmptySet
  <2>3. QED
    BY <1>1, <1>5, <1>6, <2>1, <2>2
<1>10. QED
  BY <1>6, <1>8, <1>9 DEF A, C

\* when one of them starts, and its job leaves if it was the last,
LEMMA WaitingTake ==
  ASSUME NEW js \in [Jobs -> JobRec], NEW q \in [Jobs -> JobRec], NEW S \in SUBSET Jobs,
         NEW j \in S, \A k \in S \ {j} : q[k].started = js[k].started,
         js[j].started < Num(j), q[j].started = js[j].started + 1,
         NEW T, T = IF Num(j) - js[j].started = 1 THEN S \ {j} ELSE S
  PROVE  Cardinality(WaitingIn(q, T)) = Cardinality(WaitingIn(js, S)) - 1
<1> DEFINE U == IF Num(j) - js[j].started = 1 THEN S \ {j} ELSE S
           n0 == js[j].started + 1
           A == WaitingIn(js, S)
           C == WaitingIn(q, U)
<1>1. Num(j) \in Nat /\ js[j].started \in Nat /\ U \in SUBSET Jobs
  BY NumType DEF JobRec
<1>2. A \subseteq Jobs \X Nat /\ C \subseteq Jobs \X Nat
  BY <1>1, WaitingPairs
<1>3. \A k \in Jobs, n \in Nat :
        /\ <<k, n>> \in A <=> k \in S /\ n \in (js[k].started + 1)..Num(k)
        /\ <<k, n>> \in C <=> k \in U /\ n \in (q[k].started + 1)..Num(k)
  <2>1. \A k \in Jobs, n \in Nat :
          <<k, n>> \in A <=> k \in S /\ n \in (js[k].started + 1)..Num(k)
    BY WaitingPairs
  <2>2. \A k \in Jobs, n \in Nat :
          <<k, n>> \in C <=> k \in U /\ n \in (q[k].started + 1)..Num(k)
    <3>1. U \in SUBSET Jobs
      BY <1>1
    <3> HIDE DEF U
    <3>2. QED
      BY <3>1, WaitingPairs
  <2> HIDE DEF A, C
  <2>3. QED
    BY <2>1, <2>2
<1>4. IsFiniteSet(A)
  BY WaitingFinite
<1> HIDE DEF A, C
<1>5. <<j, n0>> \in A
  BY <1>1, <1>3
<1>6. C = A \ {<<j, n0>>}
  <2>1. ASSUME NEW k \in Jobs, NEW n \in Nat
        PROVE  <<k, n>> \in C <=> <<k, n>> \in A /\ <<k, n>> # <<j, n0>>
    <3>1. CASE k # j
      <4>1. k \in S <=> k \in U
        BY <3>1
      <4>2. k \in S => q[k].started = js[k].started
        BY <3>1
      <4>3. QED
        BY <1>3, <3>1, <4>1, <4>2
    <3>2. CASE k = j
      <4>1. n \in (q[j].started + 1)..Num(j) <=> n \in (js[j].started + 1)..Num(j) /\ n # n0
        BY <1>1
      <4>2. j \notin U => ~(n \in (js[j].started + 1)..Num(j) /\ n # n0)
        BY <1>1
      <4>3. QED
        BY <1>3, <3>2, <4>1, <4>2
    <3>3. QED
      BY <3>1, <3>2
  <2>2. \A k \in Jobs, n \in Nat : <<k, n>> \in C <=> <<k, n>> \in A \ {<<j, n0>>}
    BY <2>1
  <2>3. A \ {<<j, n0>>} \subseteq Jobs \X Nat
    BY <1>2
  <2> DEFINE D == A \ {<<j, n0>>}
  <2> HIDE DEF D
  <2>4. C = D
    BY <1>2, <2>2, <2>3, SamePairs DEF D
  <2>5. QED
    BY <2>4 DEF D
<1>7. Cardinality(A \ {<<j, n0>>}) = Cardinality(A) - 1
  <2> DEFINE x == <<j, n0>>
  <2>1. x \in A
    BY <1>5
  <2> HIDE DEF x
  <2>2. Cardinality(A \ {x}) = Cardinality(A) - 1
    BY <1>4, <2>1, FS_RemoveElement
  <2>3. QED
    BY <2>2 DEF x
<1>8. Cardinality(WaitingIn(q, U)) = Cardinality(WaitingIn(js, S)) - 1
  BY <1>6, <1>7 DEF A, C
<1>9. QED
  BY <1>8

\* and when jobs are taken out.
LEMMA WaitingWithout ==
  ASSUME NEW js \in [Jobs -> JobRec], NEW q \in [Jobs -> JobRec], NEW S \in SUBSET Jobs,
         NEW P \in SUBSET S, \A k \in S \ P : q[k].started = js[k].started
  PROVE  Cardinality(WaitingIn(q, S \ P))
           = Cardinality(WaitingIn(js, S)) - Cardinality(WaitingIn(js, P))
<1> DEFINE A == WaitingIn(js, S)
           B == WaitingIn(js, P)
           C == WaitingIn(q, S \ P)
<1>1. A \subseteq Jobs \X Nat /\ B \subseteq Jobs \X Nat /\ C \subseteq Jobs \X Nat
  BY WaitingPairs
<1>2. \A k \in Jobs, n \in Nat :
        /\ <<k, n>> \in A <=> k \in S /\ n \in (js[k].started + 1)..Num(k)
        /\ <<k, n>> \in B <=> k \in P /\ n \in (js[k].started + 1)..Num(k)
        /\ <<k, n>> \in C <=> k \in S \ P /\ n \in (q[k].started + 1)..Num(k)
  BY WaitingPairs
<1>3. IsFiniteSet(A)
  BY WaitingFinite
<1> HIDE DEF A, B, C
<1> DEFINE D == A \ B
<1>4. \A k \in Jobs, n \in Nat : <<k, n>> \in C <=> <<k, n>> \in D
  BY <1>2
<1>5. D \subseteq Jobs \X Nat
  BY <1>1
<1> HIDE DEF D
<1>6. C = D
  BY <1>1, <1>4, <1>5, SamePairs
<1>7. A \cap B = B
  <2> DEFINE E == A \cap B
  <2>1. E \subseteq Jobs \X Nat /\ \A k \in Jobs, n \in Nat : <<k, n>> \in E <=> <<k, n>> \in B
    BY <1>1, <1>2
  <2> HIDE DEF E
  <2>2. E = B
    BY <1>1, <2>1, SamePairs
  <2>3. QED
    BY <2>2 DEF E
<1>8. Cardinality(D) = Cardinality(A) - Cardinality(A \cap B)
  BY <1>3, FS_Difference DEF D
<1>9. QED
  BY <1>6, <1>7, <1>8 DEF A, B, C

\* They are the same when the jobs in S have started as many sub jobs.
LEMMA WaitingSame ==
  ASSUME NEW js, NEW q, NEW S, \A k \in S : q[k].started = js[k].started
  PROVE  WaitingIn(q, S) = WaitingIn(js, S)
BY DEF WaitingIn

\* The counts are those of the lists, and a job that is queued is in one of them.
Tally ==
  /\ depth.pp = Cardinality(Waiting(Queued(pp)))
  /\ bigNum = Cardinality(Queued(gp) \cap Big)
  /\ \A j \in Jobs : job[j].at = "queued" => j \in Queued(gp) \cup Queued(pp)

AllLocated == \A j \in Jobs : Located(j)

LEMMA QueuedFacts ==
  ASSUME Types
  PROVE  /\ Queued(gp) \subseteq GpJobs /\ Queued(pp) \subseteq PpJobs
         /\ Queued(gp) \in SUBSET Jobs /\ Queued(pp) \in SUBSET Jobs
         /\ IsFiniteSet(Queued(gp) \cap Big) /\ Cardinality(Queued(gp) \cap Big) \in Nat
<1>1. Queued(gp) \subseteq GpJobs /\ Queued(pp) \subseteq PpJobs
  BY DEF Types, Queued, ToSet
<1>2. Queued(gp) \in SUBSET Jobs /\ Queued(pp) \in SUBSET Jobs
  BY <1>1 DEF Jobs
<1>3. IsFiniteSet(Queued(gp) \cap Big)
  BY <1>2, FiniteAssumption, FS_Subset
<1>4. QED
  BY <1>1, <1>2, <1>3, FS_CardinalityType

LEMMA WaitingNow ==
  /\ Waiting(Queued(pp)) = WaitingIn(job, Queued(pp))
  /\ Waiting(Queued(pp))' = WaitingIn(job', Queued(pp'))
BY DEF Waiting, WaitingIn, Queued

LEMMA DepthsPp ==
  ASSUME NEW d, Depths(d), NEW n
  PROVE  [d EXCEPT !.pp = n].pp = n /\ [d EXCEPT !.gp = n].pp = d.pp
<1>1. PICK a, b : d = [gp |-> a, pp |-> b]
  BY DEF Depths
<1>2. [d EXCEPT !.pp = n] = [gp |-> a, pp |-> n]
  BY <1>1
<1>3. [d EXCEPT !.gp = n] = [gp |-> n, pp |-> b]
  BY <1>1
<1>4. QED
  BY <1>1, <1>2, <1>3

\* A step that leaves the queues alone, and the queued jobs in them;
LEMMA TallyKept ==
  ASSUME Types, AllLocated, Tally, UNCHANGED <<gp, pp, depth, bigNum>>,
         \A k \in Jobs : /\ job'[k].at = "queued" => job[k].at = "queued"
                         /\ job[k].at = "queued" => job'[k].started = job[k].started
  PROVE  Tally'
<1>1. \A k \in Queued(pp) : job'[k].started = job[k].started
  BY QueuedFacts DEF AllLocated, Located
<1>2. Queued(pp') = Queued(pp) /\ Queued(gp') = Queued(gp)
  BY DEF Queued
<1>3. WaitingIn(job', Queued(pp)) = WaitingIn(job, Queued(pp))
  BY <1>1, WaitingSame
<1>4. Waiting(Queued(pp))' = Waiting(Queued(pp))
  BY <1>2, <1>3, WaitingNow
<1>5. depth'.pp = Cardinality(Waiting(Queued(pp)))'
  BY <1>4 DEF Tally
<1>6. bigNum' = Cardinality(Queued(gp) \cap Big)' /\ Queued(gp)' = Queued(gp) /\ Queued(pp)' = Queued(pp)
  BY DEF Tally, Queued
<1>7. \A j \in Jobs : job'[j].at = "queued" => j \in Queued(gp)' \cup Queued(pp)'
  BY <1>6 DEF Tally
<1>8. QED
  BY <1>5, <1>6, <1>7 DEF Tally

\* at most one job is not Alike, and that one is not queued or stays as it is.
LEMMA TallyOne ==
  ASSUME Types, AllLocated, Tally, UNCHANGED <<gp, pp, depth, bigNum>>, NEW j \in Jobs,
         \A k \in Jobs \ {j} : Alike(job'[k], job[k]) \/ job'[k] = job[k],
         \/ job[j].at # "queued" /\ job'[j].at # "queued"
         \/ job'[j].at = job[j].at /\ job'[j].started = job[j].started
  PROVE  Tally'
<1>1. \A k \in Jobs \ {j} : job'[k].at = job[k].at /\ job'[k].started = job[k].started
  BY DEF Alike
<1>2. QED
  BY <1>1, TallyKept

\* A job is queued;
LEMMA QueueTally ==
  ASSUME Types, GpQueueExact, AllLocated, Tally, NEW j \in Jobs, Counted(j),
         job[j].at \in {"tracked", "deferred"}, QueueJob(j)
  PROVE  Tally'
<1>1. j \notin Queued(gp) /\ j \notin Queued(pp) /\ job[j].started = 0
  BY DEF AllLocated, Located, Counted, Before
<1>2. /\ job' \in [Jobs -> JobRec] /\ Others(j) /\ SameCounts(job'[j], job[j])
      /\ j \in GpJobs => Queued(gp') = Queued(gp) \cup {j} /\ pp' = pp
      /\ j \in PpJobs => gp' = gp /\ Queued(pp') = Queued(pp) \cup {j}
  BY <1>1, QueueJobEffect
<1>3. \A k \in Jobs \ {j} : job'[k] = job[k]
  BY <1>2 DEF Others
<1>4. Queued(gp)' = Queued(gp') /\ Queued(pp)' = Queued(pp')
  BY DEF Queued
<1>5. Depths(depth) /\ job \in [Jobs -> JobRec]
  BY DEF Types
<1>6. CASE j \in GpJobs
  <2>1. /\ depth' = [depth EXCEPT !.gp = depth.gp + 1]
        /\ bigNum' = bigNum + (IF j \in Big THEN 1 ELSE 0)
    BY <1>6 DEF QueueJob
  <2>2. depth'.pp = depth.pp
    BY <1>5, <2>1, DepthsPp
  <2>3. Queued(gp') = Queued(gp) \cup {j} /\ pp' = pp /\ Queued(pp') = Queued(pp)
    BY <1>2, <1>6 DEF Queued
  <2>4. WaitingIn(job', Queued(pp)) = WaitingIn(job, Queued(pp))
    <3>1. \A k \in Queued(pp) : job'[k].started = job[k].started
      BY <1>1, <1>3, QueuedFacts
    <3>2. QED
      BY <3>1, WaitingSame
  <2>5. depth'.pp = Cardinality(Waiting(Queued(pp)))'
    BY <2>2, <2>3, <2>4, WaitingNow DEF Tally
  <2>6. bigNum' = Cardinality(Queued(gp') \cap Big)
    <3>1. CASE j \in Big
      <4>1. Queued(gp') \cap Big = (Queued(gp) \cap Big) \cup {j} /\ j \notin Queued(gp) \cap Big
        BY <1>1, <2>3, <3>1
      <4>2. Cardinality((Queued(gp) \cap Big) \cup {j}) = Cardinality(Queued(gp) \cap Big) + 1
        BY <4>1, QueuedFacts, FS_AddElement
      <4>3. QED
        BY <2>1, <3>1, <4>1, <4>2 DEF Tally
    <3>2. CASE j \notin Big
      <4>1. Queued(gp') \cap Big = Queued(gp) \cap Big
        BY <2>3, <3>2
      <4>2. bigNum' = bigNum
        BY <2>1, <3>2 DEF Types
      <4>3. QED
        BY <4>1, <4>2 DEF Tally
    <3>3. QED
      BY <3>1, <3>2
  <2>7. \A k \in Jobs : job'[k].at = "queued" => k \in Queued(gp') \cup Queued(pp')
    BY <1>3, <2>3 DEF Tally
  <2>8. QED
    BY <1>4, <2>5, <2>6, <2>7 DEF Tally
<1>7. CASE j \in PpJobs
  <2>1. depth' = [depth EXCEPT !.pp = depth.pp + Num(j)] /\ bigNum' = bigNum
    BY <1>7 DEF QueueJob
  <2>2. depth'.pp = depth.pp + Num(j)
    BY <1>5, <2>1, DepthsPp
  <2>3. gp' = gp /\ Queued(gp') = Queued(gp) /\ Queued(pp') = Queued(pp) \cup {j}
    BY <1>2, <1>7 DEF Queued
  <2>4. Cardinality(WaitingIn(job', Queued(pp) \cup {j}))
          = Cardinality(WaitingIn(job, Queued(pp))) + Num(j)
    <3>1. \A k \in Queued(pp) : job'[k].started = job[k].started
      BY <1>1, <1>3, QueuedFacts
    <3>2. job'[j].started = 0
      BY <1>1, <1>2 DEF SameCounts
    <3>3. QED
      BY <1>1, <1>2, <1>5, <3>1, <3>2, QueuedFacts, WaitingAdd
  <2>5. depth'.pp = Cardinality(Waiting(Queued(pp)))'
    BY <2>2, <2>3, <2>4, WaitingNow DEF Tally
  <2>6. bigNum' = Cardinality(Queued(gp') \cap Big)
    BY <2>1, <2>3 DEF Tally
  <2>7. \A k \in Jobs : job'[k].at = "queued" => k \in Queued(gp') \cup Queued(pp')
    BY <1>3, <2>3 DEF Tally
  <2>8. QED
    BY <1>4, <2>5, <2>6, <2>7 DEF Tally
<1>8. QED
  BY <1>6, <1>7 DEF Jobs

\* the executor takes a GP job,
LEMMA GpGetTally ==
  ASSUME Common, AllLocated, Tally, GpGet
  PROVE  Tally'
<1> DEFINE p == IF gp["high"] # <<>> THEN "high" ELSE "normal"
<1>0. Types /\ GpQueueExact
  BY DEF Common, Base
<1>1. p \in Priorities /\ gp[p] # <<>>
  BY <1>0, GpHead DEF GpGet, Priorities
<1>2. PICK j : j = Head(gp[p])
  OBVIOUS
<1>3. /\ gp' = [gp EXCEPT ![p] = Tail(gp[p])] /\ depth' = [depth EXCEPT !.gp = depth.gp - 1]
      /\ bigNum' = bigNum - (IF j \in Big THEN 1 ELSE 0)
      /\ job' = [job EXCEPT ![j].at = "taken", ![j].started = 1] /\ pp' = pp
  BY <1>2 DEF GpGet
<1> HIDE DEF p
<1>4. j \in Queued(gp) /\ j \in GpJobs /\ Queued(gp') = Queued(gp) \ {j}
  <2>1. Head(gp[p]) \in Queued(gp) /\ Queued(gp)' = Queued(gp) \ {Head(gp[p])}
    BY <1>0, <1>1, <1>3, GpQueueTake
  <2>2. QED
    BY <1>0, <1>2, <2>1, GpQueueFinite DEF Queued
<1>5. j \in Jobs /\ j \notin PpJobs
  BY <1>4 DEF Jobs
<1>6. Others(j) /\ job'[j].at = "taken"
  BY <1>0, <1>3, <1>5, GpGetEffect
<1>7. \A k \in Jobs \ {j} : job'[k] = job[k]
  BY <1>6 DEF Others
<1>8. depth'.pp = depth.pp
  BY <1>0, <1>3, DepthsPp DEF Types
<1>9. Queued(pp') = Queued(pp)
  BY <1>3 DEF Queued
<1>10. WaitingIn(job', Queued(pp)) = WaitingIn(job, Queued(pp))
  <2>1. \A k \in Queued(pp) : job'[k].started = job[k].started
    BY <1>0, <1>5, <1>7, QueuedFacts
  <2>2. QED
    BY <2>1, WaitingSame
<1>11. depth'.pp = Cardinality(Waiting(Queued(pp)))'
  BY <1>8, <1>9, <1>10, WaitingNow DEF Tally
<1>12. bigNum' = Cardinality(Queued(gp') \cap Big)
  <2>1. CASE j \in Big
    <3>1. Queued(gp') \cap Big = (Queued(gp) \cap Big) \ {j} /\ j \in Queued(gp) \cap Big
      BY <1>4, <2>1
    <3>2. IsFiniteSet(Queued(gp) \cap Big)
      BY <1>0, QueuedFacts
    <3>3. Cardinality((Queued(gp) \cap Big) \ {j}) = Cardinality(Queued(gp) \cap Big) - 1
      BY <3>1, <3>2, FS_RemoveElement
    <3>4. QED
      BY <1>3, <2>1, <3>1, <3>3 DEF Tally
  <2>2. CASE j \notin Big
    <3>1. Queued(gp') \cap Big = Queued(gp) \cap Big
      BY <1>4, <2>2
    <3>2. bigNum' = bigNum
      BY <1>0, <1>3, <2>2 DEF Types
    <3>3. QED
      BY <3>1, <3>2 DEF Tally
  <2>3. QED
    BY <2>1, <2>2
<1>13. \A k \in Jobs : job'[k].at = "queued" => k \in Queued(gp') \cup Queued(pp')
  BY <1>4, <1>6, <1>7, <1>9 DEF Tally
<1>14. Queued(gp)' = Queued(gp') /\ Queued(pp)' = Queued(pp')
  BY DEF Queued
<1>15. QED
  BY <1>11, <1>12, <1>13, <1>14 DEF Tally

\* or a sub job of a PP job;
LEMMA TakeTally ==
  ASSUME Types, AllLocated, Tally, NEW j \in PpJobs, Counted(j), NEW g, j \in Queued(pp),
         TakeSubJob(j, g)
  PROVE  Tally'
<1>1. j \in Jobs /\ job \in [Jobs -> JobRec] /\ Depths(depth)
  BY DEF Jobs, Types
<1>2. /\ job' \in [Jobs -> JobRec] /\ Others(j) /\ job'[j].started = job[j].started + 1
      /\ job'[j].at = IF Unstarted(j) = 1 THEN "taken" ELSE job[j].at
  BY <1>1, TakeEffect
<1>3. \A k \in Jobs \ {j} : job'[k] = job[k]
  BY <1>2 DEF Others
<1>4. job[j].at = "queued" /\ job[j].started < Num(j)
  BY <1>1 DEF AllLocated, Located, Counted
<1>5. depth'.pp = depth.pp - 1 /\ gp' = gp /\ bigNum' = bigNum
  <2>1. depth' = [depth EXCEPT !.pp = depth.pp - 1] /\ gp' = gp /\ bigNum' = bigNum
    BY DEF TakeSubJob
  <2>2. QED
    BY <1>1, <2>1, DepthsPp
<1>6. Queued(pp') = IF Num(j) - job[j].started = 1 THEN Queued(pp) \ {j} ELSE Queued(pp)
  <2>1. CASE Unstarted(j) = 1
    <3>1. pp' = [p \in Priorities |-> Without(pp[p], {j})]
      BY <2>1 DEF TakeSubJob
    <3>2. Queued(pp') = Queued(pp) \ {j}
      BY <3>1, PpQueueWithout
    <3>3. QED
      BY <2>1, <3>2 DEF Unstarted
  <2>2. CASE Unstarted(j) # 1
    BY <2>2 DEF TakeSubJob, Unstarted
  <2>3. QED
    BY <2>1, <2>2
<1>7. Cardinality(WaitingIn(job', Queued(pp'))) = Cardinality(WaitingIn(job, Queued(pp))) - 1
  <2> DEFINE S == Queued(pp)
             T == Queued(pp')
             now == job
             next == job'
  <2>1. \A k \in S \ {j} : next[k].started = now[k].started
    BY <1>3, QueuedFacts
  <2>2. S \in SUBSET Jobs /\ j \in S
    BY QueuedFacts
  <2>3. /\ now \in [Jobs -> JobRec] /\ next \in [Jobs -> JobRec]
        /\ now[j].started < Num(j) /\ next[j].started = now[j].started + 1
        /\ T = IF Num(j) - now[j].started = 1 THEN S \ {j} ELSE S
    BY <1>1, <1>2, <1>4, <1>6
  <2> HIDE DEF S, T, now, next
  <2>4. Cardinality(WaitingIn(next, T)) = Cardinality(WaitingIn(now, S)) - 1
    BY <2>1, <2>2, <2>3, WaitingTake
  <2>5. QED
    BY <2>4 DEF S, T, now, next
<1>8. depth'.pp = Cardinality(Waiting(Queued(pp)))'
  BY <1>5, <1>7, WaitingNow DEF Tally
<1>9. Queued(gp)' = Queued(gp) /\ Queued(pp)' = Queued(pp')
  BY <1>5 DEF Queued
<1>10. bigNum' = Cardinality(Queued(gp) \cap Big)'
  BY <1>5, <1>9 DEF Tally
<1>11. \A k \in Jobs : job'[k].at = "queued" => k \in Queued(gp)' \cup Queued(pp)'
  <2>1. job'[j].at = "queued" => j \in Queued(pp')
    BY <1>2, <1>6 DEF Unstarted
  <2>2. \A k \in Queued(pp) \ {j} : k \in Queued(pp')
    BY <1>6
  <2>3. QED
    BY <1>3, <1>9, <2>1, <2>2 DEF Tally
<1>12. QED
  BY <1>8, <1>10, <1>11 DEF Tally

\* and the abort of a session takes its jobs out.
LEMMA AbortMarkTally ==
  ASSUME Common, AllLocated, Tally, NEW s \in Sessions, AbortMark(s)
  PROVE  Tally'
<1> DEFINE G == JobsOf(s) \cap Queued(gp)
           P == JobsOf(s) \cap Queued(pp)
           n == Cardinality(Waiting(P))
<1>0. Types /\ GpQueueExact /\ job \in [Jobs -> JobRec]
  BY DEF Common, Base, Types
<1>1. /\ job' \in [Jobs -> JobRec]
      /\ \A k \in Jobs \ (G \cup P) : job'[k] = job[k]
      /\ \A k \in G : job'[k].at = "removed"
      /\ \A k \in P : job'[k].at = "marked"
  BY <1>0, AbortMarkEffect, ZenonT(30)
<1>2. /\ gp' = [p \in Priorities |-> Without(gp[p], G)]
      /\ pp' = [p \in Priorities |-> Without(pp[p], P)]
      /\ depth' = [gp |-> depth.gp - Cardinality(G), pp |-> depth.pp - n]
      /\ bigNum' = bigNum - Cardinality(G \cap Big)
  BY DEF AbortMark, Queued
<1>3. G \in SUBSET Queued(gp) /\ P \in SUBSET Queued(pp)
  OBVIOUS
<1>4. n = Cardinality(WaitingIn(job, P))
  BY DEF Waiting, WaitingIn
<1> HIDE DEF G, P, n
<1>5. Queued(gp') = Queued(gp) \ G /\ Queued(pp') = Queued(pp) \ P
  <2> DEFINE m == depth.pp - n
  <2>1. depth' = [gp |-> depth.gp - Cardinality(G), pp |-> m]
    BY <1>2
  <2> HIDE DEF m
  <2>2. Queued(gp)' = Queued(gp) \ G
    BY <1>0, <1>2, <1>3, <2>1, GpQueueWithout
  <2>3. Queued(pp') = Queued(pp) \ P
    BY <1>0, <1>2, PpQueueWithout
  <2>4. QED
    BY <2>2, <2>3 DEF Queued
<1>6. depth'.pp = Cardinality(Waiting(Queued(pp)))'
  <2>1. \A k \in Queued(pp) \ P : k \in Jobs \ (G \cup P)
    BY <1>0, <1>3, QueuedFacts DEF Jobs
  <2>2. \A k \in Queued(pp) \ P : job'[k].started = job[k].started
    BY <1>1, <2>1
  <2>3. Cardinality(WaitingIn(job', Queued(pp) \ P))
          = Cardinality(WaitingIn(job, Queued(pp))) - Cardinality(WaitingIn(job, P))
    BY <1>0, <1>1, <1>3, <2>2, QueuedFacts, WaitingWithout
  <2>4. depth'.pp = depth.pp - n
    BY <1>2
  <2>5. QED
    BY <1>4, <1>5, <2>3, <2>4, WaitingNow DEF Tally
<1>7. bigNum' = Cardinality(Queued(gp') \cap Big)
  <2>1. Queued(gp') \cap Big = (Queued(gp) \cap Big) \ (G \cap Big)
    BY <1>5
  <2>2. (Queued(gp) \cap Big) \cap (G \cap Big) = G \cap Big
    BY <1>3
  <2> DEFINE A == Queued(gp) \cap Big
             B == G \cap Big
  <2>3. IsFiniteSet(A)
    BY <1>0, QueuedFacts
  <2>4. bigNum' = Cardinality(A) - Cardinality(B)
    BY <1>2 DEF Tally
  <2>5. Queued(gp') \cap Big = A \ B /\ A \cap B = B
    BY <2>1, <2>2
  <2> HIDE DEF A, B
  <2>6. Cardinality(A \ B) = Cardinality(A) - Cardinality(A \cap B)
    BY <2>3, FS_Difference
  <2>7. QED
    BY <2>4, <2>5, <2>6
<1>8. Queued(gp)' = Queued(gp') /\ Queued(pp)' = Queued(pp')
  BY DEF Queued
<1>9. \A k \in Jobs : job'[k].at = "queued" => k \in Queued(gp') \cup Queued(pp')
  <2>1. \A k \in Jobs : job'[k].at = "queued" => k \in Jobs \ (G \cup P)
    BY <1>1
  <2>2. QED
    BY <1>1, <1>5, <2>1 DEF Tally
<1>10. QED
  BY <1>6, <1>7, <1>8, <1>9 DEF Tally

\* Now the actions.
LEMMA StartTally ==
  ASSUME Types, AllLocated, Tally, Start
  PROVE  Tally'
<1>1. UNCHANGED <<gp, pp, depth, bigNum>>
  BY Zenon DEF Start, GpStartJob, PpStartJob, PpAndGpStartJob, Submission, ListPpJob, SubmitPpJob, queues
<1>2. ASSUME NEW j \in Jobs, GpStartJob(j) \/ PpStartJob(j) PROVE Tally'
  <2>1. PICK a \in {"tracked", "created"} : job' = [job EXCEPT ![j].at = a, ![j].nr = numbered + 1]
    BY <1>2 DEF GpStartJob, PpStartJob
  <2>2. a \in Places
    BY DEF Places
  <2>3. Others(j) /\ job'[j].at = a
    BY <2>1, <2>2, StartEffect
  <2>4. job[j].at # "queued"
    BY <1>2 DEF GpStartJob, PpStartJob, Fresh
  <2>5. QED
    BY <1>1, <2>3, <2>4, TallyOne DEF Others
<1>3. ASSUME NEW j \in PpJobs, Submission(j) PROVE Tally'
  <2>1. Others(j) /\ job[j].at = "created" /\ job'[j].at \in {"created", "tracked", "leaked"}
    BY <1>3, SubmitEffect
  <2>2. j \in Jobs
    BY DEF Jobs
  <2>3. QED
    BY <1>1, <2>1, <2>2, TallyOne DEF Others
<1>4. ASSUME NEW g \in GpJobs, NEW created \in BOOLEAN, PpAndGpStartJob(g, created) PROVE Tally'
  <2> DEFINE p == Partner[g]
  <2>1. /\ \A k \in Jobs \ {g, p} : job'[k] = job[k]
        /\ job'[p].at = IF created THEN "created" ELSE "deleted"
        /\ job'[g].at = IF created THEN "tracked" ELSE "deleted"
    BY <1>4, PairEffect
  <2>2. job[g].at = "none" /\ job[p].at = "none"
    BY <1>4 DEF PpAndGpStartJob, Fresh
  <2> HIDE DEF p
  <2>3. \A k \in Jobs : /\ job'[k].at = "queued" => job[k].at = "queued"
                        /\ job[k].at = "queued" => job'[k].started = job[k].started
    BY <2>1, <2>2
  <2>4. QED
    BY <1>1, <2>3, TallyKept
<1>5. QED
  <2>1. \A j \in GpJobs \cup PpJobs : j \in Jobs
    BY DEF Jobs
  <2> DEFINE Good == Tally'
  <2>2. \A j \in Jobs : GpStartJob(j) \/ PpStartJob(j) => Good
    BY <1>2
  <2>3. \A j \in PpJobs : Submission(j) => Good
    BY <1>3
  <2>4. \A g \in GpJobs, created \in BOOLEAN : PpAndGpStartJob(g, created) => Good
    BY <1>4
  <2> HIDE DEF Good
  <2>5. Good
    BY <2>1, <2>2, <2>3, <2>4, Zenon DEF Start
  <2>6. QED
    BY <2>5 DEF Good

LEMMA RefuseTally ==
  ASSUME Types, AllLocated, Tally, NEW j \in Jobs, job[j].at # "queued", RefuseJob(j)
  PROVE  Tally'
<1>1. /\ \A k \in Jobs \ {j} : Alike(job'[k], job[k])
      /\ j \in GpJobs => job'[j].at = "deleted"
      /\ j \in PpJobs => job'[j].at = "deleting"
  BY RefuseEffect
<1>2. job'[j].at # "queued"
  BY <1>1 DEF Jobs
<1>3. UNCHANGED <<gp, pp, depth, bigNum>>
  BY DEF RefuseJob, queues
<1>4. QED
  BY <1>1, <1>2, <1>3, TallyOne

LEMMA WorkersTally ==
  ASSUME Types, GpQueueExact, Accounts, Tally, Workers
  PROVE  Tally'
<1>1. AllLocated /\ \A k \in Jobs : Counted(k) /\ Located(k)
  BY DEF Accounts, Fine, AllLocated
<1>2. ASSUME NEW j \in Jobs, NEW error \in BOOLEAN, Activate(j, error) PROVE Tally'
  <2>1. job[j].at = "tracked"
    BY <1>2 DEF Activate
  <2>2. CASE RefuseJob(j)
    BY <1>1, <2>1, <2>2, RefuseTally
  <2>3. CASE QueueJob(j)
    BY <1>1, <2>1, <2>3, QueueTally
  <2>4. CASE job' = [job EXCEPT ![j].at = "deferred"] /\ UNCHANGED queues
    <3>1. Others(j) /\ job'[j].at = "deferred"
      BY <2>4, AtEffect DEF Places
    <3>2. UNCHANGED <<gp, pp, depth, bigNum>>
      BY <2>4 DEF queues
    <3>3. QED
      BY <1>1, <2>1, <3>1, <3>2, TallyOne DEF Others
  <2>5. QED
    BY <1>2, <2>2, <2>3, <2>4 DEF Activate
<1>3. ASSUME DeferredTake PROVE Tally'
  <2>1. job' = job /\ UNCHANGED <<gp, pp, depth, bigNum>>
    BY <1>3 DEF DeferredTake, queues
  <2>2. QED
    BY <1>1, <2>1, TallyKept
<1>4. ASSUME DeferredQueue PROVE Tally'
  <2> DEFINE j == Head(mapping)
  <2>1. j \in DmaBuf /\ j \in ToSet(mapping)
    <3>1. mapping \in Seq(DmaBuf) /\ mapping # <<>>
      BY <1>4 DEF DeferredQueue, Types
    <3>2. QED
      BY <3>1, HeadFacts
  <2>2. QueueJob(j) \/ RefuseJob(j)
    BY <1>4 DEF DeferredQueue
  <2> HIDE DEF j
  <2>3. j \in Jobs /\ job[j].at = "deferred"
    BY <1>1, <2>1 DEF Jobs, Located
  <2>4. QED
    BY <1>1, <2>2, <2>3, QueueTally, RefuseTally
<1>5. ASSUME NEW j \in PpJobs, DeletePpJob(j) PROVE Tally'
  <2>1. Others(j) /\ job'[j].at = "deleted" /\ j \in Jobs
    BY <1>5, DeleteEffect DEF Jobs
  <2>2. job[j].at = "deleting" /\ UNCHANGED <<gp, pp, depth, bigNum>>
    BY <1>1, <1>5, <2>1 DEF Located, DeletePpJob, queues
  <2>3. QED
    BY <1>1, <2>1, <2>2, TallyOne DEF Others
<1>6. QED
  BY <1>2, <1>3, <1>4, <1>5 DEF Workers

\* A group is done with a sub job.
LEMMA WorkedTally ==
  ASSUME Types, AllLocated, Tally, UNCHANGED queues, NEW g \in Groups,
         \/ \E ok, yes \in BOOLEAN : GpComplete(ok, yes)
         \/ \E yes \in BOOLEAN : PpMark(g, yes)
  PROVE  Tally'
<1>1. UNCHANGED <<gp, pp, depth, bigNum>>
  BY DEF queues
<1>2. ASSUME NEW ok \in BOOLEAN, NEW yes \in BOOLEAN, GpComplete(ok, yes) PROVE Tally'
  <2> DEFINE j == running["gp"]
  <2>1. /\ j \in Jobs /\ \A k \in Jobs \ {j} : Alike(job'[k], job[k])
        /\ job'[j].at = job[j].at /\ job'[j].started = job[j].started
    BY <1>2, GpCompleteEffect
  <2> HIDE DEF j
  <2>2. QED
    BY <1>1, <2>1, TallyOne
<1>3. ASSUME NEW yes \in BOOLEAN, PpMark(g, yes) PROVE Tally'
  <2> DEFINE j == running[g]
  <2>1. /\ j \in Jobs /\ Others(j)
        /\ job'[j].at = job[j].at /\ job'[j].started = job[j].started
    BY <1>3, PpMarkEffect
  <2> HIDE DEF j
  <2>2. QED
    BY <1>1, <2>1, TallyOne DEF Others
<1>4. QED
  BY <1>2, <1>3

\* A job is over.
LEMMA OverTally ==
  ASSUME Types, AllLocated, Tally, UNCHANGED queues, NEW j \in Jobs, job[j].at # "queued",
         \A k \in Jobs \ {j} : Alike(job'[k], job[k]), job'[j].at \in {"deleted", "deleting"}
  PROVE  Tally'
<1>1. UNCHANGED <<gp, pp, depth, bigNum>>
  BY DEF queues
<1>2. QED
  BY <1>1, TallyOne

LEMMA ExecuteTally ==
  ASSUME Common, Accounts, Tally, Execute
  PROVE  Tally'
<1>0. Types /\ AllLocated /\ \A k \in Jobs : Counted(k) /\ Located(k)
  BY DEF Common, Base, Accounts, Fine, AllLocated
<1>1. CASE GpGet
  BY <1>0, <1>1, GpGetTally
<1>2. CASE PpVirtualGet
  <2>1. PICK j : j = VirtualPeek
    OBVIOUS
  <2>2. VirtualPeek # None /\ TakeSubJob(j, "virtual")
    BY <1>2, <2>1 DEF PpVirtualGet
  <2>3. j \in PpJobs /\ j \in Queued(pp) /\ j \in Jobs
    BY <1>0, <2>1, <2>2, VirtualFits DEF Jobs
  <2>4. QED
    BY <1>0, <2>2, <2>3, TakeTally
<1>3. ASSUME NEW g \in PpCores, PpPhysicalGet(g) PROVE Tally'
  <2>1. PICK j : j = PhysicalPeek
    OBVIOUS
  <2>2. PhysicalHeadCount(SecureNeeded) > 0 /\ TakeSubJob(j, g)
    BY <1>3, <2>1 DEF PpPhysicalGet
  <2>3. j \in PpJobs /\ j \in Queued(pp) /\ j \in Jobs
    BY <1>0, <2>1, <2>2, PeekFits DEF Jobs
  <2>4. QED
    BY <1>0, <2>2, <2>3, TakeTally
<1>4. ASSUME NEW g \in Groups, NEW success \in BOOLEAN, NEW zapped \in BOOLEAN,
             GroupDone(g, success, zapped)
      PROVE  Tally'
  <2>1. UNCHANGED queues
    BY <1>4 DEF GroupDone
  <2>2. \/ \E ok, yes \in BOOLEAN : GpComplete(ok, yes)
        \/ \E yes \in BOOLEAN : PpMark(g, yes)
    BY <1>4 DEF GroupDone
  <2>3. QED
    BY <1>0, <2>1, <2>2, WorkedTally
<1>5. CASE PpRelease
  <2> DEFINE j == done.job
  <2>1. /\ j \in Jobs /\ Others(j)
        /\ job'[j].at = job[j].at /\ job'[j].started = job[j].started
    BY <1>0, <1>5, PpReleaseEffect
  <2>2. UNCHANGED <<gp, pp, depth, bigNum>>
    BY <1>5 DEF PpRelease, queues
  <2> HIDE DEF j
  <2>3. QED
    BY <1>0, <2>1, <2>2, TallyOne DEF Others
<1>6. CASE PpCheck
  <2>1. job' = job /\ UNCHANGED <<gp, pp, depth, bigNum>>
    BY <1>6 DEF PpCheck, queues
  <2>2. QED
    BY <1>0, <2>1, TallyKept
<1>7. ASSUME NEW j \in Jobs, EndJob(j) PROVE Tally'
  <2>1. Ended(job', job, j, 0, job[j].notify)
    BY <1>0, <1>7, EndEffect
  <2>2. job'[j].at \in {"deleted", "deleting"} /\ \A k \in Jobs \ {j} : Alike(job'[k], job[k])
    BY <2>1 DEF Ended, Jobs
  <2>3. job[j].at = "taken" /\ UNCHANGED queues
    BY <1>0, <1>7 DEF EndJob, Located
  <2>4. QED
    BY <1>0, <2>2, <2>3, OverTally
<1>8. QED
  BY <1>1, <1>2, <1>3, <1>4, <1>5, <1>6, <1>7 DEF Execute

LEMMA ClosingTally ==
  ASSUME Common, Accounts, Tally, NEW s \in Sessions, Closing(s)
  PROVE  Tally'
<1>0. Types /\ AllLocated /\ \A k \in Jobs : Located(k)
  BY DEF Common, Base, Accounts, Fine, AllLocated
<1>1. CASE AbortMark(s)
  BY <1>0, <1>1, AbortMarkTally
<1>2. CASE AbortCheck(s)
  <2> DEFINE M == {j \in JobsOf(s) : job[j].at = "marked"}
  <2>1. /\ \A k \in Jobs \ M : job'[k] = job[k]
        /\ \A k \in M : job'[k].at = IF IsComplete(k) THEN "removed" ELSE "taken"
    BY <1>0, <1>2, AbortCheckEffect
  <2>2. \A k \in M : job[k].at = "marked"
    OBVIOUS
  <2>3. UNCHANGED <<gp, pp, depth, bigNum>>
    BY <1>2 DEF AbortCheck, queues
  <2> HIDE DEF M
  <2>4. \A k \in Jobs : /\ job'[k].at = "queued" => job[k].at = "queued"
                        /\ job[k].at = "queued" => job'[k].started = job[k].started
    BY <2>1, <2>2
  <2>5. QED
    BY <1>0, <2>3, <2>4, TallyKept
<1>3. CASE AbortRunning(s) \/ AbortTimeline(s) \/ TimelineEmpty(s) \/ Closed(s)
  <2>1. job' = job /\ UNCHANGED <<gp, pp, depth, bigNum>>
    BY <1>3 DEF AbortRunning, AbortTimeline, TimelineEmpty, Closed, queues
  <2>2. QED
    BY <1>0, <2>1, TallyKept
<1>4. ASSUME NEW g \in Groups, AbortGroup(s, g) PROVE Tally'
  <2>1. UNCHANGED queues
    BY <1>4 DEF AbortGroup
  <2>2. \/ \E ok, yes \in BOOLEAN : GpComplete(ok, yes)
        \/ \E yes \in BOOLEAN : PpMark(g, yes)
    BY <1>4 DEF AbortGroup
  <2>3. QED
    BY <1>0, <2>1, <2>2, WorkedTally
<1>5. ASSUME NEW j \in JobsOf(s), AbortJob(j) PROVE Tally'
  <2>1. j \in Jobs
    BY DEF JobsOf
  <2>2. /\ \A k \in Jobs \ {j} : Alike(job'[k], job[k])
        /\ j \in GpJobs => job'[j].at = "deleted"
        /\ j \in PpJobs => job'[j].at = "deleting"
    BY <1>0, <1>5, <2>1, AbortEffect
  <2>3. job'[j].at \in {"deleted", "deleting"}
    BY <2>1, <2>2 DEF Jobs
  <2>4. job[j].at = "removed" /\ UNCHANGED queues
    BY <1>0, <1>5, <2>1 DEF AbortJob, Located
  <2>5. QED
    BY <1>0, <2>1, <2>2, <2>3, <2>4, OverTally
<1>6. QED
  BY <1>1, <1>2, <1>3, <1>4, <1>5 DEF Closing

LEMMA NextTally ==
  ASSUME Common, Accounts, Tally, [Next]_vars
  PROVE  Tally'
<1>0. Types /\ GpQueueExact /\ AllLocated
  BY DEF Common, Base, Accounts, Fine, AllLocated
<1>1. ASSUME job' = job, UNCHANGED queues PROVE Tally'
  <2>1. UNCHANGED <<gp, pp, depth, bigNum>>
    BY <1>1 DEF queues
  <2>2. QED
    BY <1>0, <1>1, <2>1, TallyKept
<1>2. CASE UNCHANGED vars
  BY <1>1, <1>2 DEF vars
<1>3. ASSUME NEW t \in Threads, PendingSubmit(t) \/ Interrupted(t) PROVE Tally'
  BY <1>1, <1>3 DEF PendingSubmit, Interrupted
<1>4. ASSUME NEW s \in Sessions, Close(s) \/ RequestHighPriority(s) PROVE Tally'
  BY <1>1, <1>4 DEF Close, RequestHighPriority
<1>5. ASSUME NEW s \in Sessions, DisableWb(s) PROVE Tally'
  <2>1. \A k \in Jobs : job'[k].at = job[k].at /\ job'[k].started = job[k].started
    BY <1>0, <1>5, DisableEffect DEF SameCounts
  <2>2. UNCHANGED <<gp, pp, depth, bigNum>>
    BY <1>5 DEF DisableWb, queues
  <2>3. QED
    BY <1>0, <2>1, <2>2, TallyKept
<1>6. QED
  BY <1>0, <1>2, <1>3, <1>4, <1>5, StartTally, WorkersTally, ExecuteTally, ClosingTally DEF Next

LEMMA InitTally == Init => Tally
<1> SUFFICES ASSUME Init PROVE Tally
  OBVIOUS
<1>1. /\ \A j \in Jobs : job[j] = NewJob
      /\ depth.pp = 0 /\ bigNum = 0
  BY DEF Init
<1>2. Queued(gp) = {} /\ Queued(pp) = {}
  BY DEF Init, Queued, ToSet
<1>3. Cardinality(Waiting(Queued(pp))) = 0
  BY <1>2, NoJobsNoSubJobs
<1>4. Cardinality(Queued(gp) \cap Big) = 0
  BY <1>2, FS_EmptySet
<1>5. QED
  BY <1>1, <1>3, <1>4 DEF Tally, NewJob

\* A list without repetition is as long as it has members.
LEMMA LengthOfDistinct ==
  ASSUME NEW T, NEW list \in Seq(T), Distinct(list)
  PROVE  Len(list) \in Nat /\ Cardinality(ToSet(list)) = Len(list) /\ IsFiniteSet(ToSet(list))
<1>1. Len(list) \in Nat /\ DOMAIN list = 1..Len(list) /\ list \in [1..Len(list) -> T]
  BY LenProperties
<1> DEFINE I == 1..Len(list)
           S == ToSet(list)
<1>2. IsFiniteSet(I) /\ Cardinality(I) = Len(list)
  <2> DEFINE n == Len(list)
  <2>1. 1 \in Int /\ n \in Int /\ n \in Nat
    BY <1>1
  <2> HIDE DEF n
  <2>2. /\ IsFiniteSet(1..n)
        /\ Cardinality(1..n) = IF 1 > n THEN 0 ELSE n - 1 + 1
    BY <2>1, FS_Interval
  <2>3. IsFiniteSet(1..n) /\ Cardinality(1..n) = n
    BY <2>1, <2>2
  <2>4. QED
    BY <2>3 DEF n
<1>3. list \in Bijection(I, S)
  <2>1. \A a, b \in I : list[a] = list[b] => a = b
    BY DEF Distinct
  <2>2. S = {list[n] : n \in I}
    BY <1>1 DEF ToSet
  <2>3. list \in [I -> S]
    BY <1>1, <2>2
  <2>4. \A x \in S : \E n \in I : list[n] = x
    BY <2>2
  <2> HIDE DEF I, S
  <2>5. QED
    BY <2>1, <2>3, <2>4 DEF Bijection, Injection, Surjection, IsInjective
<1> HIDE DEF I, S
<1>4. ExistsBijection(I, S)
  BY <1>3 DEF ExistsBijection
<1>5. IsFiniteSet(S) /\ Cardinality(S) = Cardinality(I)
  BY <1>2, <1>4, FS_Bijection
<1>6. QED
  BY <1>1, <1>2, <1>5 DEF S

LEMMA TallyImplies ==
  ASSUME Inv, Tally
  PROVE  DepthsExact
<1>0. Types /\ GpQueueExact /\ \A j \in Jobs : Located(j)
  BY DEF Inv, Common, Base, Accounts, Fine
<1>1. depth.gp = Len(gp["normal"]) + Len(gp["high"])
  <2> DEFINE A == ToSet(gp["normal"])
             B == ToSet(gp["high"])
  <2>1. "normal" \in Priorities /\ "high" \in Priorities
    BY DEF Priorities
  <2>2. /\ gp["normal"] \in Seq(GpJobs) /\ gp["high"] \in Seq(GpJobs)
        /\ Distinct(gp["normal"]) /\ Distinct(gp["high"])
    BY <1>0, <2>1 DEF Types, GpQueueExact
  <2>3. /\ IsFiniteSet(A) /\ Cardinality(A) = Len(gp["normal"]) /\ Len(gp["normal"]) \in Nat
        /\ IsFiniteSet(B) /\ Cardinality(B) = Len(gp["high"]) /\ Len(gp["high"]) \in Nat
    BY <2>2, LengthOfDistinct
  <2>4. depth.gp = Cardinality(A \cup B) /\ A \cap B = {}
    BY <1>0, GpQueueFinite DEF GpQueueExact
  <2> HIDE DEF A, B
  <2>5. Cardinality(A \cup B) = Cardinality(A) + Cardinality(B) - Cardinality(A \cap B)
    BY <2>3, FS_Union
  <2>6. Cardinality(A \cap B) = 0
    BY <2>4, FS_EmptySet
  <2>7. QED
    BY <2>3, <2>4, <2>5, <2>6
<1>2. ASSUME NEW j \in PpJobs PROVE j \in Queued(pp) <=> job[j].at = "queued"
  <2>1. j \in Jobs /\ j \notin Queued(gp)
    BY <1>0, QueuedFacts DEF Jobs
  <2>2. QED
    BY <1>0, <2>1 DEF Located, Tally
<1>3. QED
  BY <1>1, <1>2 DEF DepthsExact, Tally

LEMMA SpecTally ==
  ASSUME ~Races
  PROVE  Spec => [](Inv /\ Tally)
<1>1. Init => Inv /\ Tally
  BY InitCommon, InitAccounts, InitTally DEF Inv
<1>2. Inv /\ Tally /\ [Next]_vars => (Inv /\ Tally)'
  BY NextCommon, NextAccounts, NextTally DEF Inv
<1>3. QED
  BY <1>1, <1>2, PTL DEF Spec

\* If the last sub job of a PP job is not completed while its session is aborted: the
\* depths of the queues that the executor reads to see whether there is work, and the
\* number of big jobs that _mali_ukk_pending_submit waits on, are those of the lists,
\* whatever was queued, taken and aborted (mali_scheduler_queue_job, _job_gp_get,
\* _job_pp_physical_get, _job_pp_virtual_get, mali_scheduler_abort_session).
THEOREM DepthsAlwaysExact ==
  ASSUME ~Races
  PROVE  Spec => []DepthsExact
<1>1. Inv /\ Tally => DepthsExact
  BY TallyImplies
<1>2. QED
  BY <1>1, SpecTally, PTL

-----------------------------------------------------------------------------
(* The order of the queues, when the executor and the scheduler do not race *)

\* Two jobs that were created less than a span apart: mali_scheduler.h and the list_add
\* functions can tell which is the younger one.
NearBy(i, k) ==
  /\ job[i].nr - job[k].nr < IdSpan /\ job[k].nr - job[i].nr < IdSpan

LEMMA YoungerIsAfter ==
  ASSUME Types, 2 * IdSpan <= IdMod, NEW j \in Jobs, NEW i \in Jobs, NearBy(i, j)
  PROVE  IsAfter(j, i) <=> job[i].nr <= job[j].nr
<1> DEFINE m == IdMod
           a == FirstId + job[i].nr
           b == FirstId + job[j].nr
<1>1. /\ m \in Nat \ {0} /\ a \in Nat /\ b \in Nat /\ IdSpan \in Nat /\ IdSpan > 0
      /\ 2 * IdSpan <= m
      /\ a - b < IdSpan /\ b - a < IdSpan
      /\ a <= b <=> job[i].nr <= job[j].nr
  <2>1. job \in [Jobs -> JobRec]
    BY DEF Types
  <2>2. job[i].nr \in Nat /\ job[j].nr \in Nat
    BY <2>1 DEF JobRec
  <2>3. IdMod \in Nat /\ IdSpan \in 1..IdMod /\ FirstId \in Nat
    BY IdAssumption
  <2>4. QED
    BY <2>2, <2>3 DEF NearBy
<1>2. IsAfter(j, i) <=> ((b % m) - (a % m)) % m < IdSpan
  BY DEF IsAfter, Id
<1> HIDE DEF m, a, b
<1>3. CASE a <= b
  <2> DEFINE d == b - a
  <2>1. d \in 0..(m - 1) /\ b = a + d /\ d < IdSpan
    BY <1>1, <1>3
  <2> HIDE DEF d
  <2>2. ((b % m) - (a % m)) % m = d
    BY <1>1, <2>1, Residues
  <2>3. QED
    BY <1>1, <1>2, <1>3, <2>1, <2>2
<1>4. CASE b < a
  <2> DEFINE d == a - b
  <2>1. d \in 0..(m - 1) /\ a = b + d /\ d < IdSpan /\ d # 0
    BY <1>1, <1>4
  <2> HIDE DEF d
  <2>2. ((b % m) - (a % m)) % m = m - d
    BY <1>1, <2>1, Residues
  <2>3. ~(((b % m) - (a % m)) % m < IdSpan) /\ ~(a <= b)
    BY <1>1, <1>4, <2>1, <2>2
  <2>4. QED
    BY <1>1, <1>2, <2>3
<1>5. QED
  BY <1>1, <1>3, <1>4

\* Which job may come before which in a list.
GpBefore(js) == {x \in GpJobs \X GpJobs : js[x[1]].nr < js[x[2]].nr}
PpBefore(js) ==
  {x \in PpJobs \X PpJobs :
     js[x[2]].started = 0 /\ (js[x[1]].started > 0 \/ js[x[1]].nr < js[x[2]].nr)}

LEMMA GpListAddSorted ==
  ASSUME Types, 2 * IdSpan <= IdMod, NEW list \in Seq(GpJobs), NEW j \in GpJobs,
         Sorted(list, GpBefore(job)),
         \A k \in ToSet(list) : NearBy(k, j) /\ job[k].nr # job[j].nr
  PROVE  Sorted(GpListAdd(list, j), GpBefore(job))
<1> DEFINE stops == {n \in 1..Len(list) : IsAfter(j, list[n])}
           i == Behind(stops)
           R == GpBefore(job)
           nr(n) == job[list[n]].nr
<1>1. GpListAdd(list, j) = InsertAt(list, i, j)
  BY DEF GpListAdd, InsertBehind, Behind
<1>2. Len(list) \in Nat /\ stops \in SUBSET (1..Len(list)) /\ DOMAIN list = 1..Len(list)
  BY LenProperties
<1>3. i \in 1..(Len(list) + 1) /\ (i # 1 => i - 1 \in stops) /\ \A x \in stops : x < i
  <2> HIDE DEF stops
  <2>1. QED
    BY <1>2, LastOf
<1> HIDE DEF i
<1>4. \A n \in 1..Len(list) : list[n] \in GpJobs /\ list[n] \in Jobs /\ list[n] \in ToSet(list)
  BY <1>2, ElementOfSeq DEF Jobs, ToSet
<1>5. j \in Jobs /\ job \in [Jobs -> JobRec] /\ job[j].nr \in Nat
  BY DEF Jobs, Types, JobRec
<1>6. \A n \in 1..Len(list) : nr(n) \in Nat /\ (n \in stops <=> nr(n) < job[j].nr)
  <2> TAKE n \in 1..Len(list)
  <2>1. IsAfter(j, list[n]) <=> nr(n) <= job[j].nr
    BY <1>4, <1>5, YoungerIsAfter
  <2>2. nr(n) \in Nat /\ nr(n) # job[j].nr
    BY <1>4, <1>5 DEF JobRec
  <2>3. QED
    BY <1>5, <2>1, <2>2
<1>7. \A a, b \in 1..Len(list) : a < b => nr(a) < nr(b)
  BY DEF Sorted, GpBefore
<1>8. ASSUME NEW k \in 1..Len(list), k < i PROVE <<list[k], j>> \in R
  <2>1. i - 1 \in stops /\ i - 1 \in 1..Len(list) /\ k <= i - 1
    BY <1>2, <1>3, <1>8
  <2>2. nr(k) < job[j].nr
    <3> HIDE DEF stops, nr
    <3>1. k = i - 1 \/ nr(k) < nr(i - 1)
      BY <1>7, <2>1
    <3>2. QED
      BY <1>5, <1>6, <2>1, <3>1
  <2>3. QED
    BY <1>4, <2>2 DEF GpBefore
<1>9. ASSUME NEW k \in 1..Len(list), i <= k PROVE <<j, list[k]>> \in R
  <2>1. k \notin stops
    <3> HIDE DEF stops
    <3>1. QED
      BY <1>2, <1>3, <1>9
  <2>2. job[j].nr < nr(k)
    <3>1. nr(k) # job[j].nr
      BY <1>4
    <3> HIDE DEF stops, nr
    <3>2. QED
      BY <1>5, <1>6, <2>1, <3>1
  <2>3. QED
    BY <1>4, <2>2 DEF GpBefore
<1> HIDE DEF R, stops
<1>10. QED
  BY <1>1, <1>3, <1>8, <1>9, InsertSorted DEF R

LEMMA PpListAddSorted ==
  ASSUME Types, 2 * IdSpan <= IdMod, NEW list \in Seq(PpJobs), NEW j \in PpJobs,
         Sorted(list, PpBefore(job)), job[j].started = 0,
         \A k \in ToSet(list) : NearBy(k, j) /\ job[k].nr # job[j].nr
  PROVE  Sorted(PpListAdd(list, j), PpBefore(job))
<1> DEFINE stops == {n \in 1..Len(list) : job[list[n]].started > 0 \/ IsAfter(j, list[n])}
           i == Behind(stops)
           R == PpBefore(job)
           nr(n) == job[list[n]].nr
           st(n) == job[list[n]].started
<1>1. PpListAdd(list, j) = InsertAt(list, i, j)
  BY DEF PpListAdd, InsertBehind, Behind
<1>2. Len(list) \in Nat /\ stops \in SUBSET (1..Len(list)) /\ DOMAIN list = 1..Len(list)
  BY LenProperties
<1>3. i \in 1..(Len(list) + 1) /\ (i # 1 => i - 1 \in stops) /\ \A x \in stops : x < i
  <2> HIDE DEF stops
  <2>1. QED
    BY <1>2, LastOf
<1> HIDE DEF i
<1>4. \A n \in 1..Len(list) : list[n] \in PpJobs /\ list[n] \in Jobs /\ list[n] \in ToSet(list)
  BY <1>2, ElementOfSeq DEF Jobs, ToSet
<1>5. j \in Jobs /\ job \in [Jobs -> JobRec] /\ job[j].nr \in Nat
  BY DEF Jobs, Types, JobRec
<1>6. \A n \in 1..Len(list) : /\ nr(n) \in Nat /\ st(n) \in Nat /\ nr(n) # job[j].nr
                              /\ n \in stops <=> st(n) > 0 \/ nr(n) < job[j].nr
  <2> TAKE n \in 1..Len(list)
  <2>1. IsAfter(j, list[n]) <=> nr(n) <= job[j].nr
    BY <1>4, <1>5, YoungerIsAfter
  <2>2. nr(n) \in Nat /\ st(n) \in Nat /\ nr(n) # job[j].nr
    BY <1>4, <1>5 DEF JobRec
  <2>3. QED
    BY <1>5, <2>1, <2>2
<1>7. \A a, b \in 1..Len(list) : a < b => st(b) = 0 /\ (st(a) > 0 \/ nr(a) < nr(b))
  <2>1. \A a, b \in 1..Len(list) : a < b => <<list[a], list[b]>> \in PpBefore(job)
    BY DEF Sorted
  <2>2. \A x, y : <<x, y>> \in PpBefore(job) =>
          job[y].started = 0 /\ (job[x].started > 0 \/ job[x].nr < job[y].nr)
    BY DEF PpBefore
  <2>3. QED
    BY <2>1, <2>2, Zenon
<1>8. ASSUME NEW k \in 1..Len(list), k < i PROVE <<list[k], j>> \in R
  <2>1. i - 1 \in stops /\ i - 1 \in 1..Len(list) /\ k <= i - 1
    BY <1>2, <1>3, <1>8
  <2>2. st(k) > 0 \/ nr(k) < job[j].nr
    <3> HIDE DEF stops, nr, st
    <3>1. k = i - 1 \/ (st(i - 1) = 0 /\ (st(k) > 0 \/ nr(k) < nr(i - 1)))
      BY <1>7, <2>1
    <3>2. QED
      BY <1>5, <1>6, <2>1, <3>1
  <2>3. QED
    BY <1>4, <2>2 DEF PpBefore
<1>9. ASSUME NEW k \in 1..Len(list), i <= k PROVE <<j, list[k]>> \in R
  <2>1. k \notin stops
    <3> HIDE DEF stops
    <3>1. QED
      BY <1>2, <1>3, <1>9
  <2>2. st(k) = 0 /\ job[j].nr < nr(k)
    <3> HIDE DEF stops, nr, st
    <3>1. QED
      BY <1>5, <1>6, <2>1
  <2>3. QED
    BY <1>4, <2>2 DEF PpBefore
<1> HIDE DEF R, stops
<1>10. QED
  BY <1>1, <1>3, <1>8, <1>9, InsertSorted DEF R

\* The jobs that are or will be queued have different numbers, no list holds a job in
\* front of one that has to run before it, and no PP job is in two lists.
Early == {"created", "tracked", "deferred", "queued"}

Numbers ==
  /\ \A j \in Jobs : job[j].at \in Early => job[j].nr <= numbered
  /\ \A i, k \in Jobs :
       job[i].at \in Early /\ job[k].at \in Early /\ i # k => job[i].nr # job[k].nr

Ordered ==
  /\ \A p \in Priorities : Sorted(gp[p], GpBefore(job)) /\ Sorted(pp[p], PpBefore(job))
  /\ ToSet(pp["normal"]) \cap ToSet(pp["high"]) = {}

Ranked == Numbers /\ Ordered

\* The jobs of a list are less than a span apart.
Near ==
  \A p \in Priorities : /\ \A i, k \in ToSet(gp[p]) : NearBy(i, k)
                        /\ \A i, k \in ToSet(pp[p]) : NearBy(i, k)

LEMMA SortedKept ==
  ASSUME NEW T, NEW list \in Seq(T), NEW R, NEW Q, Sorted(list, R),
         \A x, y \in ToSet(list) : <<x, y>> \in R => <<x, y>> \in Q
  PROVE  Sorted(list, Q)
<1>1. \A n \in 1..Len(list) : list[n] \in ToSet(list)
  BY LenProperties DEF ToSet
<1>2. QED
  BY <1>1 DEF Sorted

\* Lists that were in order, with jobs that keep what the order depends on, still are.
LEMMA OrderKept ==
  ASSUME NEW L \in [Priorities -> Seq(GpJobs)], NEW M \in [Priorities -> Seq(PpJobs)],
         gp' = L, pp' = M,
         \A p \in Priorities : Sorted(L[p], GpBefore(job)) /\ Sorted(M[p], PpBefore(job)),
         ToSet(M["normal"]) \cap ToSet(M["high"]) = {},
         \A p \in Priorities : \A k \in ToSet(L[p]) \cup ToSet(M[p]) :
           job'[k].nr = job[k].nr /\ job'[k].started = job[k].started
  PROVE  Ordered'
<1> DEFINE now == job
           next == job'
<1>1. ASSUME NEW p \in Priorities PROVE Sorted(L[p], GpBefore(next))
  <2>1. \A k \in ToSet(L[p]) : next[k].nr = now[k].nr
    OBVIOUS
  <2>2. Sorted(L[p], GpBefore(now)) /\ L[p] \in Seq(GpJobs)
    OBVIOUS
  <2> HIDE DEF now, next
  <2>3. \A x, y \in ToSet(L[p]) : <<x, y>> \in GpBefore(now) => <<x, y>> \in GpBefore(next)
    BY <2>1 DEF GpBefore
  <2>4. QED
    BY <2>2, <2>3, SortedKept
<1>2. ASSUME NEW p \in Priorities PROVE Sorted(M[p], PpBefore(next))
  <2>1. \A k \in ToSet(M[p]) : next[k].nr = now[k].nr /\ next[k].started = now[k].started
    OBVIOUS
  <2>2. Sorted(M[p], PpBefore(now)) /\ M[p] \in Seq(PpJobs)
    OBVIOUS
  <2> HIDE DEF now, next
  <2>3. \A x, y \in ToSet(M[p]) : <<x, y>> \in PpBefore(now) => <<x, y>> \in PpBefore(next)
    BY <2>1 DEF PpBefore
  <2>4. QED
    BY <2>2, <2>3, SortedKept
<1>3. QED
  BY <1>1, <1>2 DEF Ordered, Sorted, GpBefore, PpBefore

LEMMA NumbersKept ==
  ASSUME Numbers, numbered' = numbered,
         \A k \in Jobs : job'[k].at \in Early => job[k].at \in Early /\ job'[k].nr = job[k].nr
  PROVE  Numbers'
BY DEF Numbers

\* The members of the lists, and where they are.
LEMMA Members ==
  ASSUME Types, AllLocated
  PROVE  /\ gp \in [Priorities -> Seq(GpJobs)] /\ pp \in [Priorities -> Seq(PpJobs)]
         /\ \A p \in Priorities : \A k \in ToSet(gp[p]) \cup ToSet(pp[p]) :
              k \in Jobs /\ job[k].at = "queued"
<1>1. \A p \in Priorities : \A k \in ToSet(gp[p]) \cup ToSet(pp[p]) :
        k \in Queued(gp) \cup Queued(pp)
  BY DEF Queued
<1>2. \A k \in Queued(gp) \cup Queued(pp) : k \in Jobs /\ job[k].at = "queued"
  BY QueuedFacts DEF AllLocated, Located
<1>3. QED
  BY <1>1, <1>2 DEF Types

\* A step that leaves the lists alone, and the jobs in them;
LEMMA RankedKept ==
  ASSUME Types, AllLocated, Ranked, UNCHANGED <<gp, pp, numbered>>,
         \A k \in Jobs :
           /\ job'[k].at \in Early => job[k].at \in Early /\ job'[k].nr = job[k].nr
           /\ job[k].at = "queued" => job'[k].nr = job[k].nr /\ job'[k].started = job[k].started
  PROVE  Ranked'
<1>1. Numbers'
  BY NumbersKept DEF Ranked
<1>2. \A p \in Priorities : \A k \in ToSet(gp[p]) \cup ToSet(pp[p]) :
        job'[k].nr = job[k].nr /\ job'[k].started = job[k].started
  BY Members
<1>3. Ordered'
  BY <1>2, Members, OrderKept DEF Ranked, Ordered
<1>4. QED
  BY <1>1, <1>3 DEF Ranked

\* at most one job is not Alike.
LEMMA RankedOne ==
  ASSUME Types, AllLocated, Ranked, UNCHANGED <<gp, pp, numbered>>, NEW j \in Jobs,
         \A k \in Jobs \ {j} : Alike(job'[k], job[k]) \/ job'[k] = job[k],
         job'[j].at \in Early => job[j].at \in Early /\ job'[j].nr = job[j].nr,
         job[j].at = "queued" => job'[j].nr = job[j].nr /\ job'[j].started = job[j].started
  PROVE  Ranked'
<1>1. \A k \in Jobs \ {j} : /\ job'[k].at = job[k].at /\ job'[k].nr = job[k].nr
                            /\ job'[k].started = job[k].started
  BY DEF Alike
<1>2. QED
  BY <1>1, RankedKept

\* A job is queued;
LEMMA QueueRanked ==
  ASSUME 2 * IdSpan <= IdMod, Types, AllLocated, Ranked, NEW j \in Jobs, Counted(j),
         job[j].at \in {"tracked", "deferred"}, QueueJob(j), numbered' = numbered, Near'
  PROVE  Ranked'
<1> DEFINE q == Priority(j)
<1>1. /\ j \notin Queued(gp) /\ j \notin Queued(pp) /\ job[j].started = 0
      /\ q \in Priorities /\ job[j].at \in Early
  BY DEF AllLocated, Located, Counted, Before, Priority, Priorities, Early
<1>2. job' = [job EXCEPT ![j].at = "queued"]
  BY DEF QueueJob
<1>3. Others(j) /\ SameCounts(job'[j], job[j]) /\ job'[j].nr = job[j].nr
  BY <1>2, AtEffect DEF Places
<1>4. \A k \in Jobs : job'[k].nr = job[k].nr /\ job'[k].started = job[k].started
  BY <1>3 DEF Others, SameCounts
<1>5. \A k \in Jobs : job'[k].at \in Early => job[k].at \in Early /\ job'[k].nr = job[k].nr
  BY <1>1, <1>3 DEF Others
<1>6. Numbers'
  BY <1>5, NumbersKept DEF Ranked
<1>7. \A p \in Priorities : j \notin ToSet(gp[p]) /\ j \notin ToSet(pp[p])
  BY <1>1 DEF Queued
<1>8. \A p \in Priorities : \A k \in ToSet(gp[p]) \cup ToSet(pp[p]) : job[k].nr # job[j].nr
  <2> TAKE p \in Priorities
  <2> TAKE k \in ToSet(gp[p]) \cup ToSet(pp[p])
  <2>1. k \in Jobs /\ job[k].at = "queued"
    BY Members
  <2>2. k # j /\ job[k].at \in Early
    BY <1>7, <2>1 DEF Early
  <2>3. QED
    BY <1>1, <2>1, <2>2 DEF Ranked, Numbers
<1> HIDE DEF q
<1>9. CASE j \in GpJobs
  <2> DEFINE new == GpListAdd(gp[q], j)
  <2>1. gp' = [gp EXCEPT ![q] = new] /\ pp' = pp
    BY <1>9 DEF QueueJob, q
  <2>2. new \in Seq(GpJobs) /\ ToSet(new) = ToSet(gp[q]) \cup {j}
    BY <1>1, <1>9, GpListAddFacts DEF Types
  <2> HIDE DEF new
  <2>3. /\ gp' \in [Priorities -> Seq(GpJobs)] /\ gp'[q] = new
        /\ \A p \in Priorities \ {q} : gp'[p] = gp[p]
    BY <1>1, <2>1, <2>2 DEF Types
  <2>4. \A k \in ToSet(gp[q]) : NearBy(k, j)
    <3>1. \A k \in ToSet(gp[q]) : k \in ToSet(gp'[q]) /\ j \in ToSet(gp'[q]) /\ k \in Jobs
      BY <1>1, <2>2, <2>3, Members
    <3>2. \A i, k \in ToSet(gp'[q]) : job'[i].nr - job'[k].nr < IdSpan
      BY <1>1 DEF Near, NearBy
    <3>3. QED
      BY <1>4, <3>1, <3>2 DEF NearBy
  <2>5. Sorted(new, GpBefore(job))
    BY <1>1, <1>8, <1>9, <2>4, GpListAddSorted DEF Ranked, Ordered, Types, new
  <2>6. \A p \in Priorities : Sorted(gp'[p], GpBefore(job)) /\ Sorted(pp'[p], PpBefore(job))
    BY <2>1, <2>3, <2>5 DEF Ranked, Ordered
  <2>7. \A p \in Priorities : \A k \in ToSet(gp'[p]) \cup ToSet(pp'[p]) : k \in Jobs
    BY <2>1, <2>2, <2>3, Members
  <2>8. Ordered'
    <3> DEFINE L == gp'
               M == pp'
    <3>1. /\ L \in [Priorities -> Seq(GpJobs)] /\ M \in [Priorities -> Seq(PpJobs)]
          /\ \A p \in Priorities : Sorted(L[p], GpBefore(job)) /\ Sorted(M[p], PpBefore(job))
          /\ ToSet(M["normal"]) \cap ToSet(M["high"]) = {}
          /\ \A p \in Priorities : \A k \in ToSet(L[p]) \cup ToSet(M[p]) :
               job'[k].nr = job[k].nr /\ job'[k].started = job[k].started
          /\ gp' = L /\ pp' = M
      BY <1>4, <2>1, <2>3, <2>6, <2>7, Members DEF Ranked, Ordered
    <3> HIDE DEF L, M
    <3>2. QED
      BY <3>1, OrderKept
  <2>9. QED
    BY <1>6, <2>8 DEF Ranked
<1>10. CASE j \in PpJobs
  <2> DEFINE new == PpListAdd(pp[q], j)
  <2>1. pp' = [pp EXCEPT ![q] = new] /\ gp' = gp
    BY <1>10 DEF QueueJob, q
  <2>2. new \in Seq(PpJobs) /\ ToSet(new) = ToSet(pp[q]) \cup {j}
    BY <1>1, <1>10, PpListAddFacts DEF Types
  <2> HIDE DEF new
  <2>3. /\ pp' \in [Priorities -> Seq(PpJobs)] /\ pp'[q] = new
        /\ \A p \in Priorities \ {q} : pp'[p] = pp[p]
    BY <1>1, <2>1, <2>2 DEF Types
  <2>4. \A k \in ToSet(pp[q]) : NearBy(k, j)
    <3>1. \A k \in ToSet(pp[q]) : k \in ToSet(pp'[q]) /\ j \in ToSet(pp'[q]) /\ k \in Jobs
      BY <1>1, <2>2, <2>3, Members
    <3>2. \A i, k \in ToSet(pp'[q]) : job'[i].nr - job'[k].nr < IdSpan
      BY <1>1 DEF Near, NearBy
    <3>3. QED
      BY <1>4, <3>1, <3>2 DEF NearBy
  <2>5. Sorted(new, PpBefore(job))
    BY <1>1, <1>8, <1>10, <2>4, PpListAddSorted DEF Ranked, Ordered, Types, new
  <2>6. \A p \in Priorities : Sorted(gp'[p], GpBefore(job)) /\ Sorted(pp'[p], PpBefore(job))
    BY <2>1, <2>3, <2>5 DEF Ranked, Ordered
  <2>7. \A p \in Priorities : \A k \in ToSet(gp'[p]) \cup ToSet(pp'[p]) : k \in Jobs
    BY <2>1, <2>2, <2>3, Members
  <2>8. ToSet(pp'["normal"]) \cap ToSet(pp'["high"]) = {}
    <3>1. q = "normal" \/ q = "high"
      BY <1>1 DEF Priorities
    <3>2. /\ ToSet(pp'[q]) = ToSet(pp[q]) \cup {j}
          /\ \A p \in Priorities \ {q} : ToSet(pp'[p]) = ToSet(pp[p])
      BY <2>2, <2>3
    <3>3. QED
      BY <1>7, <3>1, <3>2 DEF Ranked, Ordered, Priorities
  <2>9. Ordered'
    <3> DEFINE L == gp'
               M == pp'
    <3>1. /\ L \in [Priorities -> Seq(GpJobs)] /\ M \in [Priorities -> Seq(PpJobs)]
          /\ \A p \in Priorities : Sorted(L[p], GpBefore(job)) /\ Sorted(M[p], PpBefore(job))
          /\ ToSet(M["normal"]) \cap ToSet(M["high"]) = {}
          /\ \A p \in Priorities : \A k \in ToSet(L[p]) \cup ToSet(M[p]) :
               job'[k].nr = job[k].nr /\ job'[k].started = job[k].started
          /\ gp' = L /\ pp' = M
      BY <1>4, <2>1, <2>3, <2>6, <2>7, <2>8, Members
    <3> HIDE DEF L, M
    <3>2. QED
      BY <3>1, OrderKept
  <2>10. QED
    BY <1>6, <2>9 DEF Ranked
<1>11. QED
  BY <1>9, <1>10 DEF Jobs

\* the executor takes a GP job, the first of its list,
LEMMA GpGetRanked ==
  ASSUME Common, AllLocated, Ranked, GpGet
  PROVE  Ranked'
<1> DEFINE p == IF gp["high"] # <<>> THEN "high" ELSE "normal"
<1>0. Types /\ GpQueueExact
  BY DEF Common, Base
<1>1. p \in Priorities /\ gp[p] # <<>>
  BY <1>0, GpHead DEF GpGet, Priorities
<1>2. PICK j : j = Head(gp[p])
  OBVIOUS
<1>3. /\ gp' = [gp EXCEPT ![p] = Tail(gp[p])] /\ depth' = [depth EXCEPT !.gp = depth.gp - 1]
      /\ job' = [job EXCEPT ![j].at = "taken", ![j].started = 1] /\ pp' = pp
      /\ numbered' = numbered
  BY <1>2 DEF GpGet
<1> HIDE DEF p
<1>4. j \in Queued(gp) /\ j \in GpJobs /\ Queued(gp') = Queued(gp) \ {j}
  <2>1. Head(gp[p]) \in Queued(gp) /\ Queued(gp)' = Queued(gp) \ {Head(gp[p])}
    BY <1>0, <1>1, <1>3, GpQueueTake
  <2>2. QED
    BY <1>0, <1>2, <2>1, GpQueueFinite DEF Queued
<1>5. j \in Jobs /\ j \notin PpJobs
  BY <1>4 DEF Jobs
<1>6. Others(j) /\ job'[j].at = "taken"
  BY <1>0, <1>3, <1>5, GpGetEffect
<1>7. \A k \in Jobs \ {j} : job'[k] = job[k]
  BY <1>6 DEF Others
<1>8. Numbers'
  BY <1>3, <1>6, <1>7, NumbersKept DEF Ranked, Early
<1>9. gp[p] \in Seq(GpJobs) /\ gp \in [Priorities -> Seq(GpJobs)] /\ pp \in [Priorities -> Seq(PpJobs)]
  BY <1>0, <1>1 DEF Types
<1>10. Tail(gp[p]) \in Seq(GpJobs) /\ Sorted(Tail(gp[p]), GpBefore(job))
  BY <1>1, <1>9, TailFacts, TailSorted DEF Ranked, Ordered
<1>11. /\ gp' \in [Priorities -> Seq(GpJobs)] /\ gp'[p] = Tail(gp[p])
       /\ \A r \in Priorities \ {p} : gp'[r] = gp[r]
  BY <1>1, <1>3, <1>9, <1>10
<1>12. \A r \in Priorities : \A k \in ToSet(gp'[r]) \cup ToSet(pp'[r]) : k \in Jobs \ {j}
  <2>1. \A r \in Priorities : \A k \in ToSet(gp'[r]) : k \in Queued(gp) \ {j}
    BY <1>4 DEF Queued
  <2>2. \A r \in Priorities : \A k \in ToSet(pp[r]) : k \in Queued(pp)
    BY DEF Queued
  <2>3. QED
    BY <1>0, <1>3, <1>5, <2>1, <2>2, QueuedFacts
<1>13. Ordered'
  <2> DEFINE L == gp'
             M == pp'
  <2>1. /\ L \in [Priorities -> Seq(GpJobs)] /\ M \in [Priorities -> Seq(PpJobs)]
        /\ gp' = L /\ pp' = M
    BY <1>3, <1>9, <1>11
  <2>2. \A r \in Priorities : Sorted(L[r], GpBefore(job)) /\ Sorted(M[r], PpBefore(job))
    BY <1>3, <1>10, <1>11 DEF Ranked, Ordered
  <2>3. ToSet(M["normal"]) \cap ToSet(M["high"]) = {}
    BY <1>3 DEF Ranked, Ordered
  <2>4. \A r \in Priorities : \A k \in ToSet(L[r]) \cup ToSet(M[r]) :
          job'[k].nr = job[k].nr /\ job'[k].started = job[k].started
    BY <1>7, <1>12
  <2> HIDE DEF L, M
  <2>5. QED
    BY <2>1, <2>2, <2>3, <2>4, OrderKept
<1>14. QED
  BY <1>8, <1>13 DEF Ranked

\* What is taken from the PP queue is the first of a list.
LEMMA PeekIsFirst ==
  ASSUME Types
  PROVE  /\ PhysicalPeek # None => \E p \in Priorities : pp[p] # <<>> /\ PhysicalPeek = Head(pp[p])
         /\ VirtualPeek # None => \E p \in Priorities : pp[p] # <<>> /\ VirtualPeek = Head(pp[p])
<1>1. PhysicalPeek # None => \E p \in Priorities : pp[p] # <<>> /\ PhysicalPeek = Head(pp[p])
  BY DEF PhysicalPeek, Priorities
<1>2. VirtualPeek # None => \E p \in Priorities : pp[p] # <<>> /\ VirtualPeek = Head(pp[p])
  BY DEF VirtualPeek, Priorities
<1>3. QED
  BY <1>1, <1>2

LEMMA WithoutRanked ==
  ASSUME Types, Ranked, NEW G, NEW P
  PROVE  LET L == [p \in Priorities |-> Without(gp[p], G)]
             M == [p \in Priorities |-> Without(pp[p], P)]
         IN  /\ L \in [Priorities -> Seq(GpJobs)] /\ M \in [Priorities -> Seq(PpJobs)]
             /\ \A p \in Priorities : Sorted(L[p], GpBefore(job)) /\ Sorted(M[p], PpBefore(job))
             /\ ToSet(M["normal"]) \cap ToSet(M["high"]) = {}
             /\ \A p \in Priorities : /\ ToSet(L[p]) = ToSet(gp[p]) \ G
                                      /\ ToSet(M[p]) = ToSet(pp[p]) \ P
<1> DEFINE L == [p \in Priorities |-> Without(gp[p], G)]
           M == [p \in Priorities |-> Without(pp[p], P)]
<1>1. ASSUME NEW p \in Priorities
      PROVE  /\ L[p] \in Seq(GpJobs) /\ M[p] \in Seq(PpJobs)
             /\ ToSet(L[p]) = ToSet(gp[p]) \ G /\ ToSet(M[p]) = ToSet(pp[p]) \ P
             /\ Sorted(L[p], GpBefore(job)) /\ Sorted(M[p], PpBefore(job))
  <2>1. /\ gp[p] \in Seq(GpJobs) /\ pp[p] \in Seq(PpJobs)
        /\ Sorted(gp[p], GpBefore(job)) /\ Sorted(pp[p], PpBefore(job))
    BY DEF Types, Ranked, Ordered
  <2>2. L[p] = Without(gp[p], G) /\ M[p] = Without(pp[p], P)
    OBVIOUS
  <2>3. QED
    BY <2>1, <2>2, WithoutFacts, WithoutSorted
<1>2. L \in [Priorities -> Seq(GpJobs)] /\ M \in [Priorities -> Seq(PpJobs)]
  BY <1>1
<1>3. ToSet(M["normal"]) \cap ToSet(M["high"]) = {}
  <2> HIDE DEF M
  <2>1. QED
    BY <1>1 DEF Ranked, Ordered, Priorities
<1>4. QED
  BY <1>1, <1>2, <1>3

\* or a sub job of a PP job;
LEMMA TakeRanked ==
  ASSUME Types, AllLocated, Ranked, NEW q \in Priorities, pp[q] # <<>>, NEW j, j = Head(pp[q]),
         NEW g, TakeSubJob(j, g)
  PROVE  Ranked'
<1>1. pp[q] \in Seq(PpJobs) /\ gp \in [Priorities -> Seq(GpJobs)] /\ pp \in [Priorities -> Seq(PpJobs)]
  BY DEF Types
<1>2. j = pp[q][1] /\ j \in ToSet(pp[q]) /\ j \in Jobs /\ job[j].at = "queued" /\ Len(pp[q]) >= 1
  BY <1>1, HeadFacts, Members
<1>3. /\ job' \in [Jobs -> JobRec] /\ Others(j) /\ job'[j].started = job[j].started + 1
      /\ job'[j].at = IF Unstarted(j) = 1 THEN "taken" ELSE job[j].at
      /\ job'[j].nr = job[j].nr
  BY <1>2, TakeEffect
<1>4. \A k \in Jobs \ {j} : job'[k] = job[k]
  BY <1>3 DEF Others
<1>5. gp' = gp /\ numbered' = numbered
  BY DEF TakeSubJob
<1>6. Numbers'
  BY <1>2, <1>3, <1>4, <1>5, NumbersKept DEF Ranked, Early
<1>7. CASE Unstarted(j) = 1
  <2> DEFINE L == [p \in Priorities |-> Without(gp[p], {})]
             M == [p \in Priorities |-> Without(pp[p], {j})]
  <2>1. pp' = M
    BY <1>7 DEF TakeSubJob
  <2>2. /\ M \in [Priorities -> Seq(PpJobs)]
        /\ \A p \in Priorities : Sorted(M[p], PpBefore(job)) /\ ToSet(M[p]) = ToSet(pp[p]) \ {j}
        /\ ToSet(M["normal"]) \cap ToSet(M["high"]) = {}
    BY WithoutRanked
  <2> HIDE DEF M
  <2>3. \A p \in Priorities : \A k \in ToSet(gp[p]) \cup ToSet(M[p]) : k \in Jobs \ {j}
    <3>1. j \in PpJobs
      BY <1>1, <1>2 DEF ToSet
    <3>2. \A p \in Priorities : \A k \in ToSet(gp[p]) : k \in GpJobs
      BY <1>1 DEF ToSet
    <3>3. \A p \in Priorities : \A k \in ToSet(gp[p]) : k # j
      BY <3>1, <3>2
    <3>4. QED
      BY <2>2, <3>3, Members
  <2>4. \A p \in Priorities : \A k \in ToSet(gp[p]) \cup ToSet(M[p]) :
          job'[k].nr = job[k].nr /\ job'[k].started = job[k].started
    BY <1>4, <2>3
  <2>5. \A p \in Priorities : Sorted(gp[p], GpBefore(job)) /\ Sorted(M[p], PpBefore(job))
    BY <2>2 DEF Ranked, Ordered
  <2>6. Ordered'
    BY <1>1, <1>5, <2>1, <2>2, <2>4, <2>5, OrderKept
  <2>7. QED
    BY <1>6, <2>6 DEF Ranked
<1>8. CASE Unstarted(j) # 1
  <2>1. pp' = pp
    BY <1>8 DEF TakeSubJob
  <2> DEFINE now == job
             next == job'
  <2>2. ASSUME NEW p \in Priorities PROVE Sorted(gp[p], GpBefore(next))
    <3>1. \A x \in Jobs : next[x].nr = now[x].nr
      BY <1>3, <1>4
    <3>2. Sorted(gp[p], GpBefore(now)) /\ gp[p] \in Seq(GpJobs)
      BY <1>1 DEF Ranked, Ordered
    <3> HIDE DEF now, next
    <3>3. \A x, y \in ToSet(gp[p]) : <<x, y>> \in GpBefore(now) => <<x, y>> \in GpBefore(next)
      BY <3>1 DEF GpBefore, Jobs
    <3>4. QED
      BY <3>2, <3>3, SortedKept
  <2>3. ASSUME NEW p \in Priorities, NEW a \in 1..Len(pp[p]), NEW b \in 1..Len(pp[p]), a < b
        PROVE  <<pp[p][a], pp[p][b]>> \in PpBefore(next)
    <3>1. pp[p] \in Seq(PpJobs) /\ Len(pp[p]) \in Nat
      BY <1>1, LenProperties
    <3>2. /\ pp[p][a] \in PpJobs /\ pp[p][b] \in PpJobs
          /\ pp[p][a] \in ToSet(pp[p]) /\ pp[p][b] \in ToSet(pp[p])
      BY <3>1, ElementOfSeq, LenProperties DEF ToSet
    <3>3. /\ now[pp[p][b]].started = 0
          /\ now[pp[p][a]].started > 0 \/ now[pp[p][a]].nr < now[pp[p][b]].nr
      <4>1. <<pp[p][a], pp[p][b]>> \in PpBefore(now)
        BY <2>3 DEF Ranked, Ordered, Sorted
      <4> HIDE DEF now
      <4>2. QED
        BY <4>1 DEF PpBefore
    <3>4. pp[p][b] # j
      <4>1. CASE p = q
        <5>1. 1 \in 1..Len(pp[q]) /\ 1 < b
          BY <2>3, <3>1, <4>1
        <5>2. <<pp[q][1], pp[q][b]>> \in PpBefore(now)
          BY <4>1, <5>1 DEF Ranked, Ordered, Sorted
        <5>3. /\ now[pp[q][b]].started = 0
              /\ now[pp[q][1]].started > 0 \/ now[pp[q][1]].nr < now[pp[q][b]].nr
          BY <5>2 DEF PpBefore
        <5>4. now[j].nr \in Nat
          BY <1>2 DEF Types, JobRec
        <5> HIDE DEF now
        <5>5. QED
          BY <1>2, <4>1, <5>3, <5>4
      <4>2. CASE p # q
        BY <1>2, <3>2, <4>2 DEF Ranked, Ordered, Priorities
      <4>3. QED
        BY <4>1, <4>2
    <3>5. next[pp[p][b]] = now[pp[p][b]]
      BY <1>4, <3>2, <3>4 DEF Jobs
    <3>6. pp[p][a] = j => next[pp[p][a]].started > 0
      <4>1. job[j].started \in Nat
        BY <1>2 DEF Types, JobRec
      <4>2. QED
        BY <1>3, <4>1
    <3>7. pp[p][a] # j => next[pp[p][a]] = now[pp[p][a]]
      BY <1>4, <3>2 DEF Jobs
    <3> HIDE DEF now, next
    <3>8. QED
      BY <3>2, <3>3, <3>5, <3>6, <3>7 DEF PpBefore
  <2>4. \A p \in Priorities : Sorted(pp[p], PpBefore(next))
    BY <2>3 DEF Sorted
  <2>5. Ordered'
    BY <1>5, <2>1, <2>2, <2>4 DEF Ranked, Ordered, Sorted, GpBefore, PpBefore
  <2>6. QED
    BY <1>6, <2>5 DEF Ranked
<1>9. QED
  BY <1>7, <1>8

\* and the abort of a session takes its jobs out.
LEMMA AbortMarkRanked ==
  ASSUME Types, AllLocated, Ranked, NEW s \in Sessions, AbortMark(s)
  PROVE  Ranked'
<1> DEFINE G == JobsOf(s) \cap Queued(gp)
           P == JobsOf(s) \cap Queued(pp)
           L == [p \in Priorities |-> Without(gp[p], G)]
           M == [p \in Priorities |-> Without(pp[p], P)]
<1>1. /\ \A k \in Jobs \ (G \cup P) : job'[k] = job[k]
      /\ \A k \in G : job'[k].at = "removed"
      /\ \A k \in P : job'[k].at = "marked"
      /\ G \subseteq GpJobs /\ P \subseteq PpJobs
  BY AbortMarkEffect, ZenonT(30)
<1>2. gp' = L /\ pp' = M /\ numbered' = numbered
  BY DEF AbortMark, Queued
<1> HIDE DEF G, P
<1>3. /\ L \in [Priorities -> Seq(GpJobs)] /\ M \in [Priorities -> Seq(PpJobs)]
      /\ \A p \in Priorities : Sorted(L[p], GpBefore(job)) /\ Sorted(M[p], PpBefore(job))
      /\ ToSet(M["normal"]) \cap ToSet(M["high"]) = {}
      /\ \A p \in Priorities : ToSet(L[p]) = ToSet(gp[p]) \ G /\ ToSet(M[p]) = ToSet(pp[p]) \ P
  BY WithoutRanked
<1> HIDE DEF L, M
<1>4. Numbers'
  <2>1. \A k \in Jobs : job'[k].at \in Early => k \notin G \cup P
    BY <1>1 DEF Early
  <2>2. QED
    BY <1>1, <1>2, <2>1, NumbersKept DEF Ranked
<1>5. \A p \in Priorities : \A k \in ToSet(L[p]) \cup ToSet(M[p]) : k \in Jobs \ (G \cup P)
  <2>1. \A p \in Priorities : \A k \in ToSet(L[p]) : k \in GpJobs \ G
    BY <1>3, Members DEF ToSet
  <2>2. \A p \in Priorities : \A k \in ToSet(M[p]) : k \in PpJobs \ P
    BY <1>3, Members DEF ToSet
  <2>3. QED
    BY <1>1, <2>1, <2>2 DEF Jobs
<1>6. \A p \in Priorities : \A k \in ToSet(L[p]) \cup ToSet(M[p]) :
        job'[k].nr = job[k].nr /\ job'[k].started = job[k].started
  BY <1>1, <1>5
<1>7. Ordered'
  BY <1>2, <1>3, <1>6, OrderKept
<1>8. QED
  BY <1>4, <1>7 DEF Ranked

\* Now the actions.
LEMMA StartRanked ==
  ASSUME Types, AllLocated, Ranked, Start
  PROVE  Ranked'
<1>1. UNCHANGED <<gp, pp>>
  BY Zenon DEF Start, GpStartJob, PpStartJob, PpAndGpStartJob, Submission, ListPpJob, SubmitPpJob, queues
<1>2. /\ gp \in [Priorities -> Seq(GpJobs)] /\ pp \in [Priorities -> Seq(PpJobs)]
      /\ \A p \in Priorities : \A k \in ToSet(gp[p]) \cup ToSet(pp[p]) :
           k \in Jobs /\ job[k].at = "queued"
  BY Members
<1>3. ASSUME \A k \in Jobs :
               job[k].at = "queued" => job'[k].nr = job[k].nr /\ job'[k].started = job[k].started
      PROVE  Ordered'
  <2>1. \A p \in Priorities : \A k \in ToSet(gp[p]) \cup ToSet(pp[p]) :
          job'[k].nr = job[k].nr /\ job'[k].started = job[k].started
    BY <1>2, <1>3
  <2>2. QED
    BY <1>1, <1>2, <2>1, OrderKept DEF Ranked, Ordered
<1>4. numbered \in Nat
  BY DEF Types
<1>5. \A k \in Jobs : job[k].nr \in Nat
  BY DEF Types, JobRec
<1>6. ASSUME NEW j \in Jobs, GpStartJob(j) \/ PpStartJob(j) PROVE Ranked'
  <2>1. PICK a \in {"tracked", "created"} : job' = [job EXCEPT ![j].at = a, ![j].nr = numbered + 1]
    BY <1>6 DEF GpStartJob, PpStartJob
  <2>2. a \in Places
    BY DEF Places
  <2>3. Others(j) /\ job'[j].at = a /\ job'[j].nr = numbered + 1
    BY <2>1, <2>2, StartEffect
  <2>4. \A k \in Jobs \ {j} : job'[k] = job[k]
    BY <2>3 DEF Others
  <2>5. job[j].at = "none" /\ numbered' = numbered + 1
    BY <1>6 DEF GpStartJob, PpStartJob, Fresh
  <2>6. Ordered'
    BY <1>3, <2>4, <2>5
  <2>7. \A k \in Jobs \ {j} : job[k].at \in Early => job[k].nr < numbered + 1 /\ job[k].nr # numbered + 1
    BY <1>4, <1>5 DEF Ranked, Numbers
  <2>8. \A k \in Jobs : job'[k].at \in Early => job'[k].nr <= numbered + 1
    <3>1. job'[j].nr <= numbered + 1
      BY <1>4, <2>3
    <3>2. ASSUME NEW k \in Jobs, k # j, job'[k].at \in Early PROVE job'[k].nr <= numbered + 1
      <4>1. job'[k] = job[k] /\ job[k].nr \in Nat
        BY <1>5, <2>4, <3>2
      <4>2. job[k].nr < numbered + 1
        BY <2>7, <3>2, <4>1
      <4>3. QED
        BY <1>4, <4>1, <4>2
    <3>3. QED
      BY <3>1, <3>2
  <2>9. \A i, k \in Jobs :
          job'[i].at \in Early /\ job'[k].at \in Early /\ i # k => job'[i].nr # job'[k].nr
    BY <2>3, <2>4, <2>7 DEF Ranked, Numbers
  <2>10. Numbers'
    BY <2>5, <2>8, <2>9 DEF Numbers
  <2>11. QED
    BY <2>6, <2>10 DEF Ranked
<1>7. ASSUME NEW j \in PpJobs, Submission(j) PROVE Ranked'
  <2>1. /\ Others(j) /\ job'[j].nr = job[j].nr
        /\ job[j].at = "created" /\ job'[j].at \in {"created", "tracked", "leaked"}
    BY <1>7, SubmitEffect
  <2>2. j \in Jobs /\ numbered' = numbered
    BY <1>7 DEF Submission, ListPpJob, SubmitPpJob, Jobs
  <2>3. QED
    BY <1>1, <2>1, <2>2, RankedOne DEF Others, Early
<1>8. ASSUME NEW g \in GpJobs, NEW created \in BOOLEAN, PpAndGpStartJob(g, created) PROVE Ranked'
  <2> DEFINE p == Partner[g]
  <2>1. /\ p \in PpJobs /\ \A k \in Jobs \ {g, p} : job'[k] = job[k]
        /\ job'[p].at = IF created THEN "created" ELSE "deleted"
        /\ job'[g].at = IF created THEN "tracked" ELSE "deleted"
        /\ created => job'[p].nr = numbered + 1 /\ job'[g].nr = numbered + 2
    BY <1>8, PairEffect
  <2>2. job[g].at = "none" /\ job[p].at = "none" /\ numbered' = numbered + 2
    BY <1>8 DEF PpAndGpStartJob, Fresh
  <2> HIDE DEF p
  <2>3. \A k \in Jobs : job[k].at = "queued" => job'[k] = job[k]
    BY <2>1, <2>2
  <2>4. Ordered'
    BY <1>3, <2>3
  <2>5. \A k \in Jobs \ {g, p} : job[k].at \in Early =>
          /\ job[k].nr <= numbered + 2 /\ job[k].nr # numbered + 1 /\ job[k].nr # numbered + 2
    BY <1>4, <1>5 DEF Ranked, Numbers
  <2>6. CASE created
    <3>1. job'[p].nr = numbered + 1 /\ job'[g].nr = numbered + 2 /\ numbered + 1 # numbered + 2
      BY <1>4, <2>1, <2>6
    <3>2. \A k \in Jobs : job'[k].at \in Early => job'[k].nr <= numbered + 2
      BY <1>4, <2>1, <2>5, <3>1
    <3>3. \A i, k \in Jobs :
            job'[i].at \in Early /\ job'[k].at \in Early /\ i # k => job'[i].nr # job'[k].nr
      <4> TAKE i, k \in Jobs
      <4>1. CASE i \in Jobs \ {g, p} /\ k \in Jobs \ {g, p}
        BY <2>1, <4>1 DEF Ranked, Numbers
      <4>2. CASE i \in {g, p} /\ k \in Jobs \ {g, p}
        BY <2>1, <2>5, <3>1, <4>2
      <4>3. CASE i \in Jobs \ {g, p} /\ k \in {g, p}
        BY <2>1, <2>5, <3>1, <4>3
      <4>4. CASE i \in {g, p} /\ k \in {g, p}
        BY <3>1, <4>4
      <4>5. QED
        BY <4>1, <4>2, <4>3, <4>4
    <3>4. Numbers'
      BY <2>2, <3>2, <3>3 DEF Numbers
    <3>5. QED
      BY <2>4, <3>4 DEF Ranked
  <2>7. CASE ~created
    <3>1. \A k \in Jobs : job'[k].at \in Early => k \in Jobs \ {g, p}
      BY <2>1, <2>7 DEF Early
    <3>2. \A k \in Jobs : job'[k].at \in Early => job'[k].nr <= numbered + 2
      BY <2>1, <2>5, <3>1
    <3>3. \A i, k \in Jobs :
            job'[i].at \in Early /\ job'[k].at \in Early /\ i # k => job'[i].nr # job'[k].nr
      BY <2>1, <3>1 DEF Ranked, Numbers
    <3>4. Numbers'
      BY <2>2, <3>2, <3>3 DEF Numbers
    <3>5. QED
      BY <2>4, <3>4 DEF Ranked
  <2>8. QED
    BY <2>6, <2>7
<1>9. QED
  <2>1. \A j \in GpJobs \cup PpJobs : j \in Jobs
    BY DEF Jobs
  <2> DEFINE Good == Ranked'
  <2>2. \A j \in Jobs : GpStartJob(j) \/ PpStartJob(j) => Good
    BY <1>6
  <2>3. \A j \in PpJobs : Submission(j) => Good
    BY <1>7
  <2>4. \A g \in GpJobs, created \in BOOLEAN : PpAndGpStartJob(g, created) => Good
    BY <1>8
  <2> HIDE DEF Good
  <2>5. Good
    BY <2>1, <2>2, <2>3, <2>4, Zenon DEF Start
  <2>6. QED
    BY <2>5 DEF Good

LEMMA RefuseRanked ==
  ASSUME Types, AllLocated, Ranked, NEW j \in Jobs, job[j].at # "queued", RefuseJob(j),
         numbered' = numbered
  PROVE  Ranked'
<1>1. /\ \A k \in Jobs \ {j} : Alike(job'[k], job[k])
      /\ j \in GpJobs => job'[j].at = "deleted"
      /\ j \in PpJobs => job'[j].at = "deleting"
  BY RefuseEffect
<1>2. job'[j].at \notin Early
  BY <1>1 DEF Jobs, Early
<1>3. UNCHANGED <<gp, pp, numbered>>
  BY DEF RefuseJob, queues
<1>4. QED
  BY <1>1, <1>2, <1>3, RankedOne

LEMMA WorkersRanked ==
  ASSUME 2 * IdSpan <= IdMod, Types, Accounts, Ranked, Workers, Near'
  PROVE  Ranked'
<1>1. AllLocated /\ \A k \in Jobs : Counted(k) /\ Located(k)
  BY DEF Accounts, Fine, AllLocated
<1>2. ASSUME NEW j \in Jobs, NEW error \in BOOLEAN, Activate(j, error) PROVE Ranked'
  <2>1. job[j].at = "tracked" /\ numbered' = numbered
    BY <1>2 DEF Activate
  <2>2. CASE RefuseJob(j)
    BY <1>1, <2>1, <2>2, RefuseRanked
  <2>3. CASE QueueJob(j)
    BY <1>1, <2>1, <2>3, QueueRanked
  <2>4. CASE job' = [job EXCEPT ![j].at = "deferred"] /\ UNCHANGED queues
    <3>1. Others(j) /\ job'[j].at = "deferred" /\ job'[j].nr = job[j].nr
      BY <2>4, AtEffect DEF Places
    <3>2. UNCHANGED <<gp, pp, numbered>>
      BY <2>1, <2>4 DEF queues
    <3>3. QED
      BY <1>1, <2>1, <3>1, <3>2, RankedOne DEF Others, Early
  <2>5. QED
    BY <1>2, <2>2, <2>3, <2>4 DEF Activate
<1>3. ASSUME DeferredTake PROVE Ranked'
  <2>1. job' = job /\ UNCHANGED <<gp, pp, numbered>>
    BY <1>3 DEF DeferredTake, queues
  <2>2. QED
    BY <1>1, <2>1, RankedKept
<1>4. ASSUME DeferredQueue PROVE Ranked'
  <2> DEFINE j == Head(mapping)
  <2>1. j \in DmaBuf /\ j \in ToSet(mapping)
    <3>1. mapping \in Seq(DmaBuf) /\ mapping # <<>>
      BY <1>4 DEF DeferredQueue, Types
    <3>2. QED
      BY <3>1, HeadFacts
  <2>2. (QueueJob(j) \/ RefuseJob(j)) /\ numbered' = numbered
    BY <1>4 DEF DeferredQueue
  <2> HIDE DEF j
  <2>3. j \in Jobs /\ job[j].at = "deferred"
    BY <1>1, <2>1 DEF Jobs, Located
  <2>4. QED
    BY <1>1, <2>2, <2>3, QueueRanked, RefuseRanked
<1>5. ASSUME NEW j \in PpJobs, DeletePpJob(j) PROVE Ranked'
  <2>1. Others(j) /\ job'[j].at = "deleted" /\ j \in Jobs
    BY <1>5, DeleteEffect DEF Jobs
  <2>2. job[j].at = "deleting" /\ UNCHANGED <<gp, pp, numbered>>
    BY <1>1, <1>5, <2>1 DEF Located, DeletePpJob, queues
  <2>3. QED
    BY <1>1, <2>1, <2>2, RankedOne DEF Others, Early
<1>6. QED
  BY <1>2, <1>3, <1>4, <1>5 DEF Workers

\* A group is done with a sub job.
LEMMA WorkedRanked ==
  ASSUME Types, AllLocated, Ranked, UNCHANGED <<queues, numbered>>, NEW g \in Groups,
         \/ \E ok, yes \in BOOLEAN : GpComplete(ok, yes)
         \/ \E yes \in BOOLEAN : PpMark(g, yes)
  PROVE  Ranked'
<1>1. UNCHANGED <<gp, pp, numbered>>
  BY DEF queues
<1>2. ASSUME NEW ok \in BOOLEAN, NEW yes \in BOOLEAN, GpComplete(ok, yes) PROVE Ranked'
  <2> DEFINE j == running["gp"]
  <2>1. /\ j \in Jobs /\ \A k \in Jobs \ {j} : Alike(job'[k], job[k])
        /\ job'[j].at = job[j].at /\ job'[j].started = job[j].started /\ job'[j].nr = job[j].nr
    BY <1>2, GpCompleteEffect
  <2> HIDE DEF j
  <2>2. QED
    BY <1>1, <2>1, RankedOne
<1>3. ASSUME NEW yes \in BOOLEAN, PpMark(g, yes) PROVE Ranked'
  <2> DEFINE j == running[g]
  <2>1. /\ j \in Jobs /\ Others(j)
        /\ job'[j].at = job[j].at /\ job'[j].started = job[j].started /\ job'[j].nr = job[j].nr
    BY <1>3, PpMarkEffect
  <2> HIDE DEF j
  <2>2. QED
    BY <1>1, <2>1, RankedOne DEF Others
<1>4. QED
  BY <1>2, <1>3

\* A job is over.
LEMMA OverRanked ==
  ASSUME Types, AllLocated, Ranked, UNCHANGED <<queues, numbered>>, NEW j \in Jobs,
         job[j].at # "queued",
         \A k \in Jobs \ {j} : Alike(job'[k], job[k]), job'[j].at \in {"deleted", "deleting"}
  PROVE  Ranked'
<1>1. UNCHANGED <<gp, pp, numbered>> /\ job'[j].at \notin Early
  BY DEF queues, Early
<1>2. QED
  BY <1>1, RankedOne

LEMMA ExecuteRanked ==
  ASSUME Common, Accounts, Ranked, Execute
  PROVE  Ranked'
<1>0. Types /\ AllLocated /\ \A k \in Jobs : Located(k)
  BY DEF Common, Base, Accounts, Fine, AllLocated
<1>1. CASE GpGet
  BY <1>0, <1>1, GpGetRanked
<1>2. CASE PpVirtualGet
  <2>1. VirtualPeek # None /\ TakeSubJob(VirtualPeek, "virtual")
    BY <1>2 DEF PpVirtualGet
  <2>2. PICK p \in Priorities : pp[p] # <<>> /\ VirtualPeek = Head(pp[p])
    BY <1>0, <2>1, PeekIsFirst
  <2>3. QED
    BY <1>0, <2>1, <2>2, TakeRanked
<1>3. ASSUME NEW g \in PpCores, PpPhysicalGet(g) PROVE Ranked'
  <2>1. PhysicalHeadCount(SecureNeeded) > 0 /\ TakeSubJob(PhysicalPeek, g)
    BY <1>3 DEF PpPhysicalGet
  <2>2. PhysicalPeek # None
    BY <1>0, <2>1, PeekFits DEF Jobs
  <2>3. PICK p \in Priorities : pp[p] # <<>> /\ PhysicalPeek = Head(pp[p])
    BY <1>0, <2>2, PeekIsFirst
  <2>4. QED
    BY <1>0, <2>1, <2>3, TakeRanked
<1>4. ASSUME NEW g \in Groups, NEW success \in BOOLEAN, NEW zapped \in BOOLEAN,
             GroupDone(g, success, zapped)
      PROVE  Ranked'
  <2>1. UNCHANGED <<queues, numbered>>
    BY <1>4 DEF GroupDone
  <2>2. \/ \E ok, yes \in BOOLEAN : GpComplete(ok, yes)
        \/ \E yes \in BOOLEAN : PpMark(g, yes)
    BY <1>4 DEF GroupDone
  <2>3. QED
    BY <1>0, <2>1, <2>2, WorkedRanked
<1>5. CASE PpRelease
  <2> DEFINE j == done.job
  <2>1. /\ j \in Jobs /\ Others(j)
        /\ job'[j].at = job[j].at /\ job'[j].started = job[j].started /\ job'[j].nr = job[j].nr
    BY <1>0, <1>5, PpReleaseEffect
  <2>2. UNCHANGED <<gp, pp, numbered>>
    BY <1>5 DEF PpRelease, queues
  <2> HIDE DEF j
  <2>3. QED
    BY <1>0, <2>1, <2>2, RankedOne DEF Others
<1>6. CASE PpCheck
  <2>1. job' = job /\ UNCHANGED <<gp, pp, numbered>>
    BY <1>6 DEF PpCheck, queues
  <2>2. QED
    BY <1>0, <2>1, RankedKept
<1>7. ASSUME NEW j \in Jobs, EndJob(j) PROVE Ranked'
  <2>1. Ended(job', job, j, 0, job[j].notify)
    BY <1>0, <1>7, EndEffect
  <2>2. job'[j].at \in {"deleted", "deleting"} /\ \A k \in Jobs \ {j} : Alike(job'[k], job[k])
    BY <2>1 DEF Ended, Jobs
  <2>3. job[j].at = "taken" /\ UNCHANGED <<queues, numbered>>
    BY <1>0, <1>7 DEF EndJob, Located
  <2>4. QED
    BY <1>0, <2>2, <2>3, OverRanked
<1>8. QED
  BY <1>1, <1>2, <1>3, <1>4, <1>5, <1>6, <1>7 DEF Execute

LEMMA ClosingRanked ==
  ASSUME Common, Accounts, Ranked, NEW s \in Sessions, Closing(s)
  PROVE  Ranked'
<1>0. Types /\ AllLocated /\ \A k \in Jobs : Located(k)
  BY DEF Common, Base, Accounts, Fine, AllLocated
<1>1. CASE AbortMark(s)
  BY <1>0, <1>1, AbortMarkRanked
<1>2. CASE AbortCheck(s)
  <2> DEFINE M == {j \in JobsOf(s) : job[j].at = "marked"}
  <2>1. /\ \A k \in Jobs \ M : job'[k] = job[k]
        /\ \A k \in M : job'[k].at = IF IsComplete(k) THEN "removed" ELSE "taken"
    BY <1>0, <1>2, AbortCheckEffect
  <2>2. \A k \in M : job[k].at = "marked"
    OBVIOUS
  <2>3. UNCHANGED <<gp, pp, numbered>>
    BY <1>2 DEF AbortCheck, queues
  <2> HIDE DEF M
  <2>4. \A k \in Jobs :
          /\ job'[k].at \in Early => job[k].at \in Early /\ job'[k].nr = job[k].nr
          /\ job[k].at = "queued" => job'[k].nr = job[k].nr /\ job'[k].started = job[k].started
    BY <2>1, <2>2 DEF Early
  <2>5. QED
    BY <1>0, <2>3, <2>4, RankedKept
<1>3. CASE AbortRunning(s) \/ AbortTimeline(s) \/ TimelineEmpty(s) \/ Closed(s)
  <2>1. job' = job /\ UNCHANGED <<gp, pp, numbered>>
    BY <1>3 DEF AbortRunning, AbortTimeline, TimelineEmpty, Closed, queues
  <2>2. QED
    BY <1>0, <2>1, RankedKept
<1>4. ASSUME NEW g \in Groups, AbortGroup(s, g) PROVE Ranked'
  <2>1. UNCHANGED <<queues, numbered>>
    BY <1>4 DEF AbortGroup
  <2>2. \/ \E ok, yes \in BOOLEAN : GpComplete(ok, yes)
        \/ \E yes \in BOOLEAN : PpMark(g, yes)
    BY <1>4 DEF AbortGroup
  <2>3. QED
    BY <1>0, <2>1, <2>2, WorkedRanked
<1>5. ASSUME NEW j \in JobsOf(s), AbortJob(j) PROVE Ranked'
  <2>1. j \in Jobs
    BY DEF JobsOf
  <2>2. /\ \A k \in Jobs \ {j} : Alike(job'[k], job[k])
        /\ j \in GpJobs => job'[j].at = "deleted"
        /\ j \in PpJobs => job'[j].at = "deleting"
    BY <1>0, <1>5, <2>1, AbortEffect
  <2>3. job'[j].at \in {"deleted", "deleting"}
    BY <2>1, <2>2 DEF Jobs
  <2>4. job[j].at = "removed" /\ UNCHANGED <<queues, numbered>>
    BY <1>0, <1>5, <2>1 DEF AbortJob, Located
  <2>5. QED
    BY <1>0, <2>1, <2>2, <2>3, <2>4, OverRanked
<1>6. QED
  BY <1>1, <1>2, <1>3, <1>4, <1>5 DEF Closing

LEMMA NextRanked ==
  ASSUME 2 * IdSpan <= IdMod, Common, Accounts, Ranked, [Next]_vars, Near'
  PROVE  Ranked'
<1>0. Types /\ AllLocated
  BY DEF Common, Base, Accounts, Fine, AllLocated
<1>1. ASSUME job' = job, UNCHANGED <<queues, numbered>> PROVE Ranked'
  <2>1. UNCHANGED <<gp, pp, numbered>>
    BY <1>1 DEF queues
  <2>2. QED
    BY <1>0, <1>1, <2>1, RankedKept
<1>2. CASE UNCHANGED vars
  BY <1>1, <1>2 DEF vars
<1>3. ASSUME NEW t \in Threads, PendingSubmit(t) \/ Interrupted(t) PROVE Ranked'
  BY <1>1, <1>3 DEF PendingSubmit, Interrupted
<1>4. ASSUME NEW s \in Sessions, Close(s) \/ RequestHighPriority(s) PROVE Ranked'
  BY <1>1, <1>4 DEF Close, RequestHighPriority
<1>5. ASSUME NEW s \in Sessions, DisableWb(s) PROVE Ranked'
  <2>1. \A k \in Jobs : /\ job'[k].at = job[k].at /\ job'[k].started = job[k].started
                        /\ job'[k].nr = job[k].nr
    BY <1>0, <1>5, DisableEffect DEF SameCounts
  <2>2. UNCHANGED <<gp, pp, numbered>>
    BY <1>5 DEF DisableWb, queues
  <2>3. QED
    BY <1>0, <2>1, <2>2, RankedKept
<1>6. QED
  BY <1>0, <1>2, <1>3, <1>4, <1>5, StartRanked, WorkersRanked, ExecuteRanked, ClosingRanked
  DEF Next

LEMMA InitRanked == Init => Ranked
<1> SUFFICES ASSUME Init PROVE Ranked
  OBVIOUS
<1>1. \A j \in Jobs : job[j].at \notin Early
  BY DEF Init, NewJob, Early
<1>2. \A p \in Priorities : gp[p] = <<>> /\ pp[p] = <<>>
  BY DEF Init
<1>3. \A p \in Priorities : Sorted(gp[p], GpBefore(job)) /\ Sorted(pp[p], PpBefore(job))
  BY <1>2 DEF Sorted
<1>4. ToSet(pp["normal"]) = {}
  BY <1>2 DEF ToSet, Priorities
<1>5. QED
  BY <1>1, <1>3, <1>4 DEF Ranked, Numbers, Ordered

\* Where a caller of pending_submit may be: only the property's type invariant needs it.
Threaded == thread \in [Threads -> {"out", "asleep", "woken"}]

LEMMA NextThreaded ==
  ASSUME Threaded, [Next]_vars
  PROVE  Threaded'
<1>1. CASE UNCHANGED thread
  BY <1>1 DEF Threaded
<1>2. CASE UNCHANGED vars
  BY <1>1, <1>2 DEF vars
<1>3. CASE Start
  BY <1>1, <1>3, Zenon DEF Start, GpStartJob, PpStartJob, PpAndGpStartJob, Submission, ListPpJob, SubmitPpJob
<1>4. CASE Workers
  BY <1>1, <1>4, Zenon DEF Workers, Activate, DeferredTake, DeferredQueue, DeletePpJob
<1>5. CASE GpGet
  BY <1>5 DEF GpGet, Threaded
<1>6. CASE PpVirtualGet \/ \E g \in PpCores : PpPhysicalGet(g)
  BY <1>1, <1>6, Zenon DEF PpVirtualGet, PpPhysicalGet, TakeSubJob
<1>7. CASE PpRelease \/ PpCheck \/ \E j \in Jobs : EndJob(j)
  BY <1>1, <1>7, Zenon DEF PpRelease, PpCheck, EndJob
<1>8. ASSUME NEW g \in Groups, NEW success \in BOOLEAN, NEW zapped \in BOOLEAN,
             GroupDone(g, success, zapped)
      PROVE  Threaded'
  BY <1>1, <1>8, Zenon DEF GroupDone
<1>9. CASE Execute
  BY <1>5, <1>6, <1>7, <1>8, <1>9, Zenon DEF Execute
<1>10. ASSUME NEW s \in Sessions, Close(s) \/ Closing(s) \/ RequestHighPriority(s) \/ DisableWb(s)
       PROVE  Threaded'
  BY <1>1, <1>10, Zenon DEF Close, Closing, RequestHighPriority, DisableWb, AbortMark, AbortCheck,
     AbortRunning, AbortTimeline, AbortJob, AbortGroup, TimelineEmpty, Closed
<1>11. ASSUME NEW t \in Threads, PendingSubmit(t) \/ Interrupted(t) PROVE Threaded'
  BY <1>11 DEF PendingSubmit, Interrupted, Threaded
<1>12. QED
  BY <1>2, <1>3, <1>4, <1>9, <1>10, <1>11, Zenon DEF Next

\* What the invariants say of the queues: the property.
LEMMA InvTyped ==
  ASSUME Inv, Tally, Threaded
  PROVE  TypeOK
<1>0. /\ Types /\ GpQueueExact /\ DeviceCounted
      /\ \A j \in Jobs : Counted(j)
  BY DEF Inv, Common, Base, Accounts, Fine
<1>1. job \in [Jobs -> [at : Places, nr : Nat, started : Nat, completed : Nat, held : BOOLEAN,
                        error : BOOLEAN, released : Nat, ended : Nat, told : Nat,
                        notify : BOOLEAN, fb : BOOLEAN, wb : BOOLEAN]]
  <2>1. job \in [Jobs -> JobRec] /\ \A j \in Jobs : 0 <= job[j].completed
    BY <1>0 DEF Types, Counted
  <2>2. ASSUME NEW r \in JobRec, 0 <= r.completed
        PROVE  r \in [at : Places, nr : Nat, started : Nat, completed : Nat, held : BOOLEAN,
                      error : BOOLEAN, released : Nat, ended : Nat, told : Nat,
                      notify : BOOLEAN, fb : BOOLEAN, wb : BOOLEAN]
    BY <2>2 DEF JobRec
  <2> HIDE DEF Places
  <2>3. \A j \in Jobs : job[j] \in [at : Places, nr : Nat, started : Nat, completed : Nat,
                                    held : BOOLEAN, error : BOOLEAN, released : Nat, ended : Nat,
                                    told : Nat, notify : BOOLEAN, fb : BOOLEAN, wb : BOOLEAN]
    BY <2>1, <2>2
  <2>4. QED
    BY <2>1, <2>3, Zenon
<1>2. depth \in [gp : Nat, pp : Nat]
  <2>1. depth.gp \in Nat
    BY <1>0, GpQueueFinite DEF GpQueueExact
  <2>2. depth.pp \in Nat
    <3>1. job \in [Jobs -> JobRec] /\ Queued(pp) \in SUBSET Jobs
      BY <1>0, QueuedFacts DEF Types
    <3>2. Cardinality(WaitingIn(job, Queued(pp))) \in Nat
      BY <3>1, WaitingFinite
    <3>3. Waiting(Queued(pp)) = WaitingIn(job, Queued(pp))
      BY WaitingNow
    <3>4. QED
      BY <3>2, <3>3 DEF Tally
  <2>3. depth = [gp |-> depth.gp, pp |-> depth.pp]
    <3>1. PICK a, b : depth = [gp |-> a, pp |-> b]
      BY <1>0 DEF Types, Depths
    <3>2. QED
      BY <3>1
  <2>4. QED
    BY <2>1, <2>2, <2>3
<1>3. bigNum \in Nat
  BY <1>0, QueuedFacts DEF Tally
<1>4. devRefs \in Nat
  BY <1>0, HeldFinite DEF DeviceCounted
<1>5. done = None \/ (done.job \in PpJobs /\ done.step \in {"release", "check"})
  BY <1>0 DEF Types
<1>6. QED
  BY <1>0, <1>1, <1>2, <1>3, <1>4, <1>5 DEF TypeOK, Types, Phases, Threaded

LEMMA RankedImplies ==
  ASSUME Types, Ranked
  PROVE  QueuesInOrder
<1> SUFFICES ASSUME NEW p \in Priorities
    PROVE  /\ \A a, b \in 1..Len(gp[p]) : a < b => job[gp[p][a]].nr < job[gp[p][b]].nr
           /\ \A a, b \in 1..Len(pp[p]) : a < b =>
                /\ job[pp[p][b]].started = 0
                /\ job[pp[p][a]].started > 0 \/ job[pp[p][a]].nr < job[pp[p][b]].nr
  BY DEF QueuesInOrder
<1>1. Sorted(gp[p], GpBefore(job)) /\ Sorted(pp[p], PpBefore(job))
  BY DEF Ranked, Ordered
<1>2. QED
  BY <1>1 DEF Sorted, GpBefore, PpBefore

LEMMA SpecRanked ==
  ASSUME ~Races, 2 * IdSpan <= IdMod
  PROVE  Spec /\ []Near => [](Inv /\ Tally /\ Ranked /\ Threaded)
<1> DEFINE I == Inv /\ Tally /\ Ranked /\ Threaded
<1>1. Init => I
  BY InitCommon, InitAccounts, InitTally, InitRanked DEF Inv, Init, Threaded
<1>2. I /\ Near' /\ [Next]_vars => I'
  BY NextCommon, NextAccounts, NextTally, NextRanked, NextThreaded DEF Inv
<1>3. QED
  BY <1>1, <1>2, PTL DEF Spec

\* If the last sub job of a PP job is not completed while its session is aborted, job ids
\* have at least twice the values of the span (they are u32 and MALI_SCHEDULER_JOB_ID_SPAN
\* is 65535), and no two jobs of a list were started a span or more apart: whatever is
\* started, activated, taken and aborted in whatever order, the depths are those of the
\* lists and jobs of one list run in the order in which they were started, over the wrap
\* of the ids, too; only a PP job of which a sub job has started may have overtaken
\* (mali_gp_job_list_add, mali_pp_job_list_add, mali_scheduler_job_gp_get,
\* mali_scheduler_job_pp_physical_get).
THEOREM QueuesAlwaysExact ==
  ASSUME ~Races, 2 * IdSpan <= IdMod
  PROVE  Spec /\ []Near => []QueuesExact
<1>1. Inv /\ Tally /\ Ranked /\ Threaded => QueuesExact
  BY InvTyped, TallyImplies, RankedImplies DEF QueuesExact, Inv, Common, Base
<1>2. QED
  BY <1>1, SpecRanked, PTL

=============================================================================
