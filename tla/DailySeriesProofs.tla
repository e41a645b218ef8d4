-------------------------- MODULE DailySeriesProofs --------------------------
(***************************************************************************)
(* Lemmas about DailySeries: the order of rows and days, what a map that   *)
(* is filled point by point holds in the end, and the series made of it.   *)
(* The modules about the histories cite them.                              *)
(***************************************************************************)
EXTENDS DailySeries, FiniteSetTheorems, TLAPS

-----------------------------------------------------------------------------
(* Extreme members of sets of naturals *)

\* A set of naturals has a least member.
LEMMA LeastMember ==
    ASSUME NEW S \in SUBSET Nat, S # {}
    PROVE  Min(S) \in S /\ \A x \in S : Min(S) <= x
<1> DEFINE T == {0 .. x : x \in S}
<1>1. IsWellFoundedOn(StrictSubsetOrdering(Nat), FiniteSubsetsOf(Nat))
  BY FS_StrictSubsetOrderingWellFounded
<1>2. T \subseteq FiniteSubsetsOf(Nat) /\ T # {}
  <2>1. \A x \in S : 0 .. x \in SUBSET Nat /\ IsFiniteSet(0 .. x)
    BY FS_Interval
  <2>2. QED
    BY <2>1 DEF FiniteSubsetsOf
<1>3. PICK X \in T : \A Y \in T : <<Y, X>> \notin StrictSubsetOrdering(Nat)
  <2> HIDE DEF T
  <2>1. QED
    BY <1>1, <1>2, WFMin
<1>4. PICK x \in S : X = 0 .. x
  OBVIOUS
<1>5. \A y \in S : x <= y
  <2>1. SUFFICES ASSUME NEW y \in S, y < x
                 PROVE  FALSE
    OBVIOUS
  <2>2. 0 .. y \subseteq 0 .. x /\ x \in 0 .. x /\ x \notin 0 .. y
    BY <2>1
  <2>3. <<0 .. y, X>> \in StrictSubsetOrdering(Nat)
    BY <2>2, <1>4 DEF StrictSubsetOrdering
  <2>4. QED
    BY <1>3, <2>3
<1>6. QED
  BY <1>5 DEF Min

\* A set of naturals with a bound has a greatest member.
LEMMA GreatestMember ==
    ASSUME NEW S \in SUBSET Nat, S # {}, NEW n \in Nat, \A x \in S : x <= n
    PROVE  Max(S) \in S /\ \A x \in S : x <= Max(S)
<1> DEFINE T == {n - x : x \in S}
<1>1. T \in SUBSET Nat /\ T # {}
  <2>1. \A x \in S : n - x \in Nat
    OBVIOUS
  <2>2. T # {}
    BY Zenon
  <2>3. T \in SUBSET Nat
    BY <2>1, Zenon
  <2>4. QED
    BY <2>2, <2>3
<1>2. Min(T) \in T /\ \A y \in T : Min(T) <= y
  BY <1>1, LeastMember
<1>3. PICK x \in S : Min(T) = n - x
  BY <1>2
<1>4. \A y \in S : y <= x
  <2>1. SUFFICES ASSUME NEW y \in S
                 PROVE  y <= x
    OBVIOUS
  <2>2. n - y \in T
    OBVIOUS
  <2>3. n - x <= n - y
    BY <1>2, <1>3, <2>2
  <2>4. QED
    BY <2>3
<1>5. QED
  BY <1>4 DEF Max

\* A finite set of naturals has a greatest member.
LEMMA GreatestOfFinite ==
    ASSUME NEW S \in SUBSET Nat, S # {}, IsFiniteSet(S)
    PROVE  Max(S) \in S /\ \A x \in S : x <= Max(S)
<1> DEFINE Above(x) == {y \in S : y > x}
           T == {Above(x) : x \in S}
<1>1. IsWellFoundedOn(StrictSubsetOrdering(S), FiniteSubsetsOf(S))
  BY FS_StrictSubsetOrderingWellFounded
<1>2. T \subseteq FiniteSubsetsOf(S) /\ T # {}
  <2>1. \A x \in S : Above(x) \in SUBSET S /\ IsFiniteSet(Above(x))
    BY FS_Subset
  <2>2. QED
    BY <2>1 DEF FiniteSubsetsOf
<1>3. PICK X \in T : \A Y \in T : <<Y, X>> \notin StrictSubsetOrdering(S)
  <2> HIDE DEF T
  <2>1. QED
    BY <1>1, <1>2, WFMin
<1>4. PICK x \in S : X = Above(x)
  OBVIOUS
<1>5. \A y \in S : y <= x
  <2>1. SUFFICES ASSUME NEW y \in S, y > x
                 PROVE  FALSE
    OBVIOUS
  <2>2. Above(y) \subseteq Above(x) /\ y \in Above(x) /\ y \notin Above(y)
    <3>1. \A z \in S : z > y => z > x
      BY <2>1
    <3>2. ~ (y > y)
      OBVIOUS
    <3>3. QED
      BY <2>1, <3>1, <3>2
  <2>3. <<Above(y), X>> \in StrictSubsetOrdering(S)
    BY <2>2, <1>4 DEF StrictSubsetOrdering
  <2>4. QED
    BY <1>3, <2>3
<1>6. QED
  BY <1>5, GreatestMember

-----------------------------------------------------------------------------
(* Days *)

\* What \div gives: the number of whole days in a number of ticks.
LEMMA WholeDays ==
    ASSUME NEW t \in Nat
    PROVE  /\ t \div DayTicks \in Nat
           /\ (t \div DayTicks) * DayTicks <= t
           /\ t < (t \div DayTicks + 1) * DayTicks
  BY SeriesAssumption

-----------------------------------------------------------------------------
(* Order *)

\* How many members of a set lie below one of them.
Below(S, x) == {y \in S : y < x}

\* The number of the members below grows from member to member, and is below that of all.
LEMMA BelowCounts ==
    ASSUME NEW S \in SUBSET Nat, IsFiniteSet(S)
    PROVE  /\ \A x \in S : Cardinality(Below(S, x)) \in 0 .. Cardinality(S) - 1
           /\ \A x, z \in S : x < z => Cardinality(Below(S, x)) < Cardinality(Below(S, z))
<1>1. \A x \in S : /\ IsFiniteSet(Below(S, x)) /\ Cardinality(Below(S, x)) \in Nat
                   /\ Cardinality(Below(S, x)) < Cardinality(S)
  <2>1. SUFFICES ASSUME NEW x \in S
                 PROVE  /\ IsFiniteSet(Below(S, x)) /\ Cardinality(Below(S, x)) \in Nat
                        /\ Cardinality(Below(S, x)) < Cardinality(S)
    OBVIOUS
  <2>2. Below(S, x) \in SUBSET S /\ Below(S, x) # S
    BY DEF Below
  <2>3. /\ IsFiniteSet(Below(S, x))
        /\ Cardinality(Below(S, x)) <= Cardinality(S) /\ Cardinality(Below(S, x)) # Cardinality(S)
    BY <2>2, FS_Subset
  <2>4. Cardinality(Below(S, x)) \in Nat /\ Cardinality(S) \in Nat
    BY <2>3, FS_CardinalityType
  <2>5. QED
    BY <2>3, <2>4
<1>2. ASSUME NEW x \in S, NEW z \in S, x < z
      PROVE  Cardinality(Below(S, x)) < Cardinality(Below(S, z))
  <2>1. Below(S, x) \in SUBSET Below(S, z) /\ Below(S, x) # Below(S, z)
    <3>1. \A y \in Below(S, x) : y \in Below(S, z)
      BY <1>2 DEF Below
    <3>2. x \in Below(S, z) /\ x \notin Below(S, x)
      BY <1>2 DEF Below
    <3>3. QED
      BY <3>1, <3>2
  <2>2. /\ Cardinality(Below(S, x)) <= Cardinality(Below(S, z))
        /\ Cardinality(Below(S, x)) # Cardinality(Below(S, z))
    BY <1>1, <2>1, FS_Subset
  <2>3. QED
    BY <1>1, <2>2
<1>3. Cardinality(S) \in Nat
  BY FS_CardinalityType
<1>4. QED
  BY <1>1, <1>2, <1>3

\* A sequence lists a set of naturals in ascending order.
Lists(s, S) ==
    /\ s \in Seq(S) /\ Len(s) = Cardinality(S) /\ DOMAIN s = 1 .. Cardinality(S)
    /\ \A i, j \in DOMAIN s : i < j <=> s[i] < s[j]
    /\ \A x \in S : \E i \in DOMAIN s : s[i] = x

\* InOrder lists every finite set.
LEMMA InOrderLists ==
    ASSUME NEW S \in SUBSET Nat, IsFiniteSet(S)
    PROVE  Lists(InOrder(S), S)
<1> DEFINE n == Cardinality(S)
           r == [x \in S |-> Cardinality(Below(S, x))]
           s == InOrder(S)
<1>1. n \in Nat
  BY FS_CardinalityType
<1>2. r \in [S -> 0 .. n - 1] /\ \A x, z \in S : x < z => r[x] < r[z]
  BY BelowCounts
<1>3. r \in Injection(S, 0 .. n - 1)
  <2>1. \A x, z \in S : r[x] = r[z] => x = z
    <3>1. ASSUME NEW x \in S, NEW z \in S, x # z
          PROVE  r[x] # r[z]
      <4>1. r[x] \in Int /\ r[z] \in Int
        BY <1>2
      <4>2. CASE x < z
        BY <1>2, <4>1, <4>2
      <4>3. CASE z < x
        BY <1>2, <4>1, <4>3
      <4>4. QED
        BY <3>1, <4>2, <4>3
    <3>2. QED
      BY <3>1
  <2>2. QED
    BY <1>2, <2>1 DEF Injection, IsInjective
<1>4. r \in Surjection(S, 0 .. n - 1)
  <2>1. IsFiniteSet(0 .. n - 1) /\ Cardinality(0 .. n - 1) = n
    <3>1. 0 \in Int /\ n - 1 \in Int
      BY <1>1
    <3>2. /\ IsFiniteSet(0 .. n - 1)
          /\ Cardinality(0 .. n - 1) = IF 0 > n - 1 THEN 0 ELSE (n - 1) - 0 + 1
      BY <3>1, FS_Interval
    <3>3. QED
      BY <1>1, <3>2
  <2>2. QED
    BY <1>3, <2>1, FS_Injection
<1>5. /\ s = [i \in 1 .. n |-> CHOOSE x \in S : Cardinality({y \in S : y < x}) = i - 1]
      /\ \A x \in S : r[x] = Cardinality({y \in S : y < x})
  BY DEF InOrder, Below
<1> HIDE DEF n, r, s
<1>6. \A i \in 1 .. n : s[i] \in S /\ r[s[i]] = i - 1
  <2>1. SUFFICES ASSUME NEW i \in 1 .. n
                 PROVE  s[i] \in S /\ r[s[i]] = i - 1
    OBVIOUS
  <2>2. i - 1 \in 0 .. n - 1
    BY <1>1
  <2>3. \E x \in S : r[x] = i - 1
    BY <1>4, <2>2 DEF Surjection
  <2>4. QED
    BY <1>5, <2>3, Zenon
<1>7. s \in Seq(S) /\ Len(s) = n /\ DOMAIN s = 1 .. n
  <2>1. s \in [1 .. n -> S]
    BY <1>5, <1>6, Zenon
  <2>2. QED
    BY <1>1, <2>1
<1>8. \A i, j \in 1 .. n : i < j <=> s[i] < s[j]
  <2>1. SUFFICES ASSUME NEW i \in 1 .. n, NEW j \in 1 .. n
                 PROVE  i < j <=> s[i] < s[j]
    OBVIOUS
  <2>2. /\ s[i] \in S /\ s[j] \in S /\ r[s[i]] = i - 1 /\ r[s[j]] = j - 1
        /\ s[i] \in Nat /\ s[j] \in Nat /\ i \in Nat /\ j \in Nat
    <3>1. s[i] \in S /\ s[j] \in S /\ r[s[i]] = i - 1 /\ r[s[j]] = j - 1
      BY <1>6
    <3>2. \A x \in S : x \in Nat
      OBVIOUS
    <3>3. i \in Nat /\ j \in Nat
      BY <1>1
    <3>4. QED
      BY <3>1, <3>2, <3>3
  <2>3. CASE s[i] < s[j]
    BY <1>1, <1>2, <2>2, <2>3
  <2>4. CASE s[j] < s[i]
    BY <1>1, <1>2, <2>2, <2>4
  <2>5. CASE s[i] = s[j]
    BY <1>1, <2>2, <2>5
  <2>6. QED
    BY <2>2, <2>3, <2>4, <2>5
<1>9. \A x \in S : \E i \in 1 .. n : s[i] = x
  <2>1. SUFFICES ASSUME NEW x \in S
                 PROVE  \E i \in 1 .. n : s[i] = x
    OBVIOUS
  <2>2. r[x] + 1 \in 1 .. n
    BY <1>1, <1>2
  <2>3. s[r[x] + 1] \in S /\ r[s[r[x] + 1]] = r[x]
    BY <1>2, <1>6, <2>2
  <2>4. s[r[x] + 1] = x
    BY <1>3, <2>3 DEF Injection, IsInjective
  <2>5. QED
    BY <2>2, <2>4
<1>10. QED
  BY <1>7, <1>8, <1>9 DEF Lists, s, n

-----------------------------------------------------------------------------
(* What a map holds that is filled point by point *)

\* Two functions on the sets of indices are one if they agree on the empty set and one step
\* further wherever they agree.
LEMMA FoldsAgree ==
    ASSUME NEW n \in Nat, NEW f, NEW g,
           f[{}] = g[{}],
           \A I \in SUBSET (1 .. n) :
               I # {} /\ f[I \ {Max(I)}] = g[I \ {Max(I)}] => f[I] = g[I]
    PROVE  f[1 .. n] = g[1 .. n]
<1> DEFINE U == 1 .. n
           Differ == {I \in SUBSET U : f[I] # g[I]}
<1>1. IsFiniteSet(U)
  BY FS_Interval
<1>2. FiniteSubsetsOf(U) = SUBSET U
  BY <1>1, FS_FiniteSubsetsOfFinite
<1>3. IsWellFoundedOn(StrictSubsetOrdering(U), SUBSET U)
  BY <1>2, FS_StrictSubsetOrderingWellFounded
<1>4. SUFFICES ASSUME Differ # {}
               PROVE  FALSE
  BY Zenon
<1>5. PICK I \in Differ : \A J \in Differ : <<J, I>> \notin StrictSubsetOrdering(U)
  <2> HIDE DEF Differ, U
  <2>1. Differ \in SUBSET (SUBSET U)
    BY DEF Differ
  <2>2. QED
    BY <1>3, <1>4, <2>1, WFMin
<1>6. I \in SUBSET U /\ I # {}
  OBVIOUS
<1>7. Max(I) \in I
  <2>1. IsFiniteSet(I)
    BY <1>1, <1>6, FS_Subset
  <2>2. I \in SUBSET Nat
    BY <1>6
  <2>3. QED
    BY <1>6, <2>1, <2>2, GreatestOfFinite
<1>8. <<I \ {Max(I)}, I>> \in StrictSubsetOrdering(U)
  BY <1>6, <1>7 DEF StrictSubsetOrdering
<1>9. I \ {Max(I)} \notin Differ
  BY <1>5, <1>8
<1>10. f[I \ {Max(I)}] = g[I \ {Max(I)}]
  BY <1>6, <1>9
<1>11. QED
  BY <1>5, <1>6, <1>10

\* A rule says which of two points of a day goes in when it comes later than the other.  The
\* rules of the code are orderly: what goes in for a point goes in for all that one went in for,
\* and what stays out stays out.
Orderly(day, R) ==
    \A i, j, k \in DOMAIN day :
        i > j /\ j > k /\ day[i] = day[j] /\ day[j] = day[k] =>
            /\ <<i, j>> \in R /\ <<j, k>> \in R => <<i, k>> \in R
            /\ <<i, j>> \notin R /\ <<j, k>> \notin R => <<i, k>> \notin R

\* The point of a day that stands when those at some indices have come: it goes in for every
\* earlier one, and no later one goes in for it.
Stands(day, R, I, d, i) ==
    /\ i \in I /\ day[i] = d
    /\ \A j \in I : day[j] = d =>
            /\ j < i => <<i, j>> \in R
            /\ j > i => <<j, i>> \notin R

\* At most one point stands.
LEMMA OneStands ==
    ASSUME NEW n \in Nat, NEW day, DOMAIN day = 1 .. n, NEW R, NEW I \in SUBSET (1 .. n),
           NEW d, NEW i, NEW j, Stands(day, R, I, d, i), Stands(day, R, I, d, j)
    PROVE  i = j
<1>1. i \in 1 .. n /\ j \in 1 .. n
  BY DEF Stands
<1>2. ~ i < j /\ ~ j < i
  BY <1>1 DEF Stands
<1>3. QED
  BY <1>1, <1>2

\* Who stands when one more point comes.
LEMMA NextStands ==
    ASSUME NEW n \in Nat, NEW day, DOMAIN day = 1 .. n, NEW R, Orderly(day, R),
           NEW I \in SUBSET (1 .. n), NEW m \in I, \A j \in I : j <= m
    PROVE  LET J == I \ {m}
           IN  /\ \A d, i : d # day[m] /\ Stands(day, R, J, d, i) => Stands(day, R, I, d, i)
               /\ \A i : Stands(day, R, J, day[m], i) =>
                      Stands(day, R, I, day[m], IF <<m, i>> \in R THEN m ELSE i)
               /\ (\A j \in J : day[j] # day[m]) => Stands(day, R, I, day[m], m)
<1> DEFINE J == I \ {m}
<1>1. \A j \in J : j < m /\ j \in 1 .. n
  OBVIOUS
<1>2. ASSUME NEW d, NEW i, d # day[m], Stands(day, R, J, d, i)
      PROVE  Stands(day, R, I, d, i)
  BY <1>2 DEF Stands
<1>3. ASSUME NEW i, Stands(day, R, J, day[m], i), <<m, i>> \in R
      PROVE  Stands(day, R, I, day[m], m)
  <2>1. i \in J /\ i < m /\ day[i] = day[m]
    BY <1>1, <1>3 DEF Stands
  <2>2. ASSUME NEW j \in I, day[j] = day[m], j < m
        PROVE  <<m, j>> \in R
    <3>1. j \in J
      BY <2>2
    <3>2. CASE j < i
      <4>1. <<i, j>> \in R
        BY <1>3, <2>2, <3>1, <3>2 DEF Stands
      <4>2. i \in DOMAIN day /\ j \in DOMAIN day /\ m \in DOMAIN day
        BY <1>1, <2>1, <3>1
      <4>3. QED
        BY <1>1, <1>3, <2>1, <2>2, <3>2, <4>1, <4>2 DEF Orderly
    <3>3. CASE j > i
      <4>1. <<j, i>> \notin R
        BY <1>3, <2>2, <3>1, <3>3 DEF Stands
      <4>2. i \in DOMAIN day /\ j \in DOMAIN day /\ m \in DOMAIN day
        BY <1>1, <2>1, <3>1
      <4>3. QED
        BY <1>1, <1>3, <2>1, <2>2, <3>3, <4>1, <4>2 DEF Orderly
    <3>4. CASE j = i
      BY <1>3, <3>4
    <3>5. QED
      BY <1>1, <2>1, <3>1, <3>2, <3>3, <3>4
  <2>3. \A j \in I : ~ j > m
    BY <1>1
  <2>4. QED
    BY <2>2, <2>3 DEF Stands
<1>4. ASSUME NEW i, Stands(day, R, J, day[m], i), <<m, i>> \notin R
      PROVE  Stands(day, R, I, day[m], i)
  BY <1>1, <1>4 DEF Stands
<1>5. ASSUME \A j \in J : day[j] # day[m]
      PROVE  Stands(day, R, I, day[m], m)
  BY <1>1, <1>5 DEF Stands
<1>6. QED
  BY <1>2, <1>3, <1>4, <1>5

\* Some point of every day stands.
LEMMA SomeStands ==
    ASSUME NEW n \in Nat, NEW day, DOMAIN day = 1 .. n, NEW R, Orderly(day, R),
           NEW I \in SUBSET (1 .. n), NEW x \in I
    PROVE  \E i \in I : Stands(day, R, I, day[x], i)
<1> DEFINE U == 1 .. n
           Bare == {L \in SUBSET U : \E y \in L : ~ \E i \in L : Stands(day, R, L, day[y], i)}
<1>1. IsFiniteSet(U)
  BY FS_Interval
<1>2. IsWellFoundedOn(StrictSubsetOrdering(U), SUBSET U)
  BY <1>1, FS_FiniteSubsetsOfFinite, FS_StrictSubsetOrderingWellFounded
<1>3. SUFFICES ASSUME Bare # {}
               PROVE  FALSE
  BY Zenon
<1>4. PICK L \in Bare : \A J \in Bare : <<J, L>> \notin StrictSubsetOrdering(U)
  <2> HIDE DEF Bare, U
  <2>1. Bare \in SUBSET (SUBSET U)
    BY DEF Bare
  <2>2. QED
    BY <1>2, <1>3, <2>1, WFMin
<1>5. L \in SUBSET U /\ \E y \in L : ~ \E i \in L : Stands(day, R, L, day[y], i)
  OBVIOUS
<1> HIDE DEF Bare
<1>6. PICK y \in L : ~ \E i \in L : Stands(day, R, L, day[y], i)
  BY <1>5
<1> DEFINE m == Max(L)
           J == L \ {m}
<1>7. m \in L /\ \A j \in L : j <= m
  <2>1. IsFiniteSet(L)
    BY <1>1, <1>5, FS_Subset
  <2>2. L \in SUBSET Nat /\ L # {}
    BY <1>5
  <2>3. QED
    BY <2>1, <2>2, GreatestOfFinite
<1> HIDE DEF m
<1>8. J \notin Bare
  BY <1>4, <1>5, <1>7 DEF StrictSubsetOrdering
<1>9. \A z \in J : \E i \in J : Stands(day, R, J, day[z], i)
  BY <1>5, <1>8 DEF Bare
<1>10. CASE day[y] = day[m]
  <2>1. CASE \E j \in J : day[j] = day[m]
    <3>1. PICK i \in J : Stands(day, R, J, day[m], i)
      BY <1>9, <2>1
    <3>2. Stands(day, R, L, day[m], IF <<m, i>> \in R THEN m ELSE i)
      BY <1>5, <1>7, <3>1, NextStands
    <3>3. QED
      BY <1>6, <1>7, <1>10, <3>2
  <2>2. CASE \A j \in J : day[j] # day[m]
    <3>1. Stands(day, R, L, day[m], m)
      BY <1>5, <1>7, <2>2, NextStands
    <3>2. QED
      BY <1>6, <1>7, <1>10, <3>1
  <2>3. QED
    BY <2>1, <2>2
<1>11. CASE day[y] # day[m]
  <2>1. y \in J
    BY <1>11
  <2>2. PICK i \in J : Stands(day, R, J, day[y], i)
    BY <1>9, <2>1
  <2>3. Stands(day, R, L, day[y], i)
    BY <1>5, <1>7, <1>11, <2>2, NextStands
  <2>4. QED
    BY <1>6, <2>3
<1>12. QED
  BY <1>10, <1>11

\* The days of a sequence of points.
DaysOf(points) == [i \in DOMAIN points |-> Day(points[i].time)]

\* The points that stand when those at some indices have come, by their days.
Standing(points, R, I) ==
    [d \in {Day(points[i].time) : i \in I} |->
        points[CHOOSE i : Stands(DaysOf(points), R, I, d, i)]]

\* A map of days holds the points that stand in the end.
HoldsStanding(points, R, kept) ==
    /\ DOMAIN kept = {Day(points[i].time) : i \in DOMAIN points}
    /\ \A d \in DOMAIN kept : \E i \in DOMAIN points :
            Stands(DaysOf(points), R, DOMAIN points, d, i) /\ kept[d] = points[i]

\* What stands is one of the points that have come.
LEMMA StandingPoint ==
    ASSUME NEW n \in Nat, NEW points, DOMAIN points = 1 .. n, NEW R, Orderly(DaysOf(points), R),
           NEW I \in SUBSET (1 .. n), NEW d \in DOMAIN Standing(points, R, I)
    PROVE  \E i \in I : /\ Stands(DaysOf(points), R, I, d, i)
                        /\ i = CHOOSE k : Stands(DaysOf(points), R, I, d, k)
                        /\ Standing(points, R, I)[d] = points[i]
<1> DEFINE day == DaysOf(points)
<1>1. DOMAIN day = 1 .. n /\ \A i \in 1 .. n : day[i] = Day(points[i].time)
  BY DEF DaysOf
<1>2. DOMAIN Standing(points, R, I) = {Day(points[i].time) : i \in I}
  BY DEF Standing
<1>3. PICK x \in I : d = day[x]
  BY <1>1, <1>2
<1> HIDE DEF day
<1>4. \E i \in I : Stands(day, R, I, day[x], i)
  BY <1>1, SomeStands DEF day
<1>5. PICK i : i = (CHOOSE k : Stands(day, R, I, d, k)) /\ Stands(day, R, I, d, i)
  BY <1>3, <1>4
<1>6. i \in I
  BY <1>5 DEF Stands
<1>7. Standing(points, R, I)[d] = points[i]
  BY <1>2, <1>5 DEF Standing, day
<1>8. QED
  BY <1>5, <1>6, <1>7 DEF day

\* What stands when one more point has come: the points that stood before, and the new one
\* unless a point of its day stands that it does not go in for.
LEMMA StandingGrows ==
    ASSUME NEW n \in Nat, NEW points, DOMAIN points = 1 .. n, NEW R, Orderly(DaysOf(points), R),
           NEW I \in SUBSET (1 .. n), NEW m \in I, \A j \in I : j <= m
    PROVE  /\ Day(points[m].time) \in DOMAIN Standing(points, R, I \ {m}) =>
                  \E i \in I \ {m} :
                      /\ Standing(points, R, I \ {m})[Day(points[m].time)] = points[i]
                      /\ Standing(points, R, I) =
                             IF <<m, i>> \in R THEN PutDay(Standing(points, R, I \ {m}), points[m])
                             ELSE Standing(points, R, I \ {m})
           /\ Day(points[m].time) \notin DOMAIN Standing(points, R, I \ {m}) =>
                  Standing(points, R, I) = PutDay(Standing(points, R, I \ {m}), points[m])
<1> DEFINE day == DaysOf(points)
           J   == I \ {m}
           old == Standing(points, R, J)
           new == Standing(points, R, I)
           d   == Day(points[m].time)
           put == PutDay(old, points[m])
<1>1. DOMAIN day = 1 .. n /\ (\A i \in 1 .. n : day[i] = Day(points[i].time)) /\ d = day[m]
  BY DEF DaysOf
<1>2. /\ DOMAIN old = {day[i] : i \in J} /\ DOMAIN new = {day[i] : i \in I}
      /\ DOMAIN new = DOMAIN old \cup {d}
      /\ new = [e \in DOMAIN new |-> new[e]] /\ old = [e \in DOMAIN old |-> old[e]]
  BY <1>1 DEF Standing
<1>3. /\ DOMAIN put = DOMAIN old \cup {d} /\ put = [e \in DOMAIN put |-> put[e]]
      /\ put[d] = points[m] /\ \A e \in DOMAIN old : e # d => put[e] = old[e]
  BY DEF PutDay
<1>4. J \in SUBSET (1 .. n)
  OBVIOUS
<1> HIDE DEF old, new, put, day, d
<1>5. ASSUME NEW e \in DOMAIN new, NEW i, Stands(day, R, I, e, i)
      PROVE  new[e] = points[i]
  <2>1. PICK k \in I : Stands(day, R, I, e, k) /\ new[e] = points[k]
    BY StandingPoint DEF new, day
  <2>2. i = k
    BY <1>1, <1>5, <2>1, OneStands DEF day
  <2>3. QED
    BY <2>1, <2>2
<1>6. ASSUME NEW e \in DOMAIN old, e # d
      PROVE  new[e] = old[e]
  <2>1. PICK i \in J : Stands(day, R, J, e, i) /\ old[e] = points[i]
    BY <1>4, StandingPoint DEF old, day
  <2>2. Stands(day, R, I, e, i)
    BY <1>1, <1>6, <2>1, NextStands DEF day
  <2>3. QED
    BY <1>2, <1>5, <2>1, <2>2
<1>7. ASSUME d \notin DOMAIN old
      PROVE  new = put
  <2>1. \A j \in J : day[j] # day[m]
    BY <1>1, <1>2, <1>7
  <2>2. Stands(day, R, I, d, m)
    BY <1>1, <2>1, NextStands DEF day
  <2>3. new[d] = points[m]
    BY <1>2, <1>5, <2>2
  <2>4. \A e \in DOMAIN new : new[e] = put[e]
    BY <1>2, <1>3, <1>6, <2>3
  <2>5. QED
    BY <1>2, <1>3, <2>4
<1>8. ASSUME d \in DOMAIN old
      PROVE  \E i \in J : old[d] = points[i] /\ new = IF <<m, i>> \in R THEN put ELSE old
  <2>1. PICK i \in J : Stands(day, R, J, d, i) /\ old[d] = points[i]
    BY <1>4, <1>8, StandingPoint DEF old, day
  <2>2. PICK k : k = (IF <<m, i>> \in R THEN m ELSE i) /\ Stands(day, R, I, d, k)
    BY <1>1, <2>1, NextStands DEF day
  <2>3. new[d] = points[k]
    BY <1>2, <1>5, <2>2
  <2>4. CASE <<m, i>> \in R
    <3>1. \A e \in DOMAIN new : new[e] = put[e]
      BY <1>2, <1>3, <1>6, <2>2, <2>3, <2>4
    <3>2. new = put
      BY <1>2, <1>3, <3>1
    <3>3. QED
      BY <2>1, <2>4, <3>2
  <2>5. CASE <<m, i>> \notin R
    <3>1. DOMAIN new = DOMAIN old /\ \A e \in DOMAIN new : new[e] = old[e]
      BY <1>2, <1>6, <1>8, <2>1, <2>2, <2>3, <2>5
    <3>2. new = old
      BY <1>2, <3>1
    <3>3. QED
      BY <2>1, <2>5, <3>2
  <2>6. QED
    BY <2>4, <2>5
<1>9. QED
  BY <1>7, <1>8 DEF old, new, put, d

\* What stands at some indices comes from what stood without the last of them.
StandsByTheLast(n, points, R, I) ==
    \E m \in 1 .. n : \E old, new :
        /\ m = Max(I) /\ I \ {m} \in SUBSET (1 .. n)
        /\ old = Standing(points, R, I \ {m}) /\ new = Standing(points, R, I)
        /\ \/ /\ Day(points[m].time) \in DOMAIN old
              /\ \E i \in 1 .. n :
                    /\ old[Day(points[m].time)] = points[i]
                    /\ new = IF <<m, i>> \in R THEN PutDay(old, points[m]) ELSE old
           \/ /\ Day(points[m].time) \notin DOMAIN old
              /\ new = PutDay(old, points[m])

\* It does, for every rule that is orderly.
LEMMA LastPointComes ==
    ASSUME NEW n \in Nat, NEW points, DOMAIN points = 1 .. n, NEW R, Orderly(DaysOf(points), R),
           NEW I \in SUBSET (1 .. n), I # {}
    PROVE  StandsByTheLast(n, points, R, I)
<1>1. IsFiniteSet(1 .. n)
  BY FS_Interval
<1>2. IsFiniteSet(I) /\ I \in SUBSET Nat
  <2>1. I \in SUBSET Nat
    OBVIOUS
  <2>2. QED
    BY <1>1, <2>1, FS_Subset
<1>3. PICK m : m = Max(I)
  OBVIOUS
<1>4. m \in I /\ \A j \in I : j <= m
  BY <1>2, <1>3, GreatestOfFinite
<1>5. m \in 1 .. n /\ I \ {m} \in SUBSET (1 .. n)
  BY <1>4
<1>6. PICK old, new : old = Standing(points, R, I \ {m}) /\ new = Standing(points, R, I)
  OBVIOUS
<1>7. /\ Day(points[m].time) \in DOMAIN old =>
              \E i \in I \ {m} :
                  /\ old[Day(points[m].time)] = points[i]
                  /\ new = IF <<m, i>> \in R THEN PutDay(old, points[m]) ELSE old
      /\ Day(points[m].time) \notin DOMAIN old => new = PutDay(old, points[m])
  BY <1>4, <1>6, StandingGrows, SMTT(30)
<1>8. QED
  BY <1>3, <1>5, <1>6, <1>7, Zenon DEF StandsByTheLast

\* What stands in the end is held.
LEMMA StandingHolds ==
    ASSUME NEW n \in Nat, NEW points, DOMAIN points = 1 .. n, NEW R, Orderly(DaysOf(points), R)
    PROVE  HoldsStanding(points, R, Standing(points, R, 1 .. n))
<1>1. DOMAIN Standing(points, R, 1 .. n) = {Day(points[i].time) : i \in 1 .. n}
  BY DEF Standing
<1>2. \A d \in DOMAIN Standing(points, R, 1 .. n) :
          \E i \in 1 .. n : /\ Stands(DaysOf(points), R, 1 .. n, d, i)
                            /\ Standing(points, R, 1 .. n)[d] = points[i]
  BY StandingPoint
<1>3. QED
  BY <1>1, <1>2 DEF HoldsStanding

\* ByDay holds what stands by its rule; here by Newer.
LEMMA ByDayNewer ==
    ASSUME NEW n \in Nat, NEW points, DOMAIN points = 1 .. n,
           NEW R, \A i, j \in 1 .. n : <<i, j>> \in R <=> Newer(points[i], points[j]),
           Orderly(DaysOf(points), R)
    PROVE  HoldsStanding(points, R, ByDay(points, Newer))
<1> DEFINE After(kept, m) ==
               IF Day(points[m].time) \in DOMAIN kept
                  /\ ~ Newer(points[m], kept[Day(points[m].time)])
               THEN kept ELSE PutDay(kept, points[m])
           Folds(f) == f = [I \in SUBSET (1 .. n) |->
                               IF I = {} THEN <<>> ELSE After(f[I \ {Max(I)}], Max(I))]
           f == CHOOSE h : Folds(h)
           g == [I \in SUBSET (1 .. n) |-> Standing(points, R, I)]
<1>1. ByDay(points, Newer) = f[1 .. n]
  BY DEF ByDay, FoldLeft, MapThenFoldSet
<1> HIDE DEF After
<1>2. g[{}] = <<>>
  BY DEF Standing
<1>3. ASSUME NEW I \in SUBSET (1 .. n), I # {}
      PROVE  g[I] = After(g[I \ {Max(I)}], Max(I))
  <2>1. PICK m, old, new :
            /\ m \in 1 .. n /\ m = Max(I) /\ I \ {m} \in SUBSET (1 .. n)
            /\ old = Standing(points, R, I \ {m}) /\ new = Standing(points, R, I)
            /\ \/ /\ Day(points[m].time) \in DOMAIN old
                  /\ \E i \in 1 .. n :
                        /\ old[Day(points[m].time)] = points[i]
                        /\ new = IF <<m, i>> \in R THEN PutDay(old, points[m]) ELSE old
               \/ /\ Day(points[m].time) \notin DOMAIN old
                  /\ new = PutDay(old, points[m])
    <3> HIDE DEF f, g, Folds
    <3>1. StandsByTheLast(n, points, R, I)
      BY <1>3, LastPointComes
    <3>2. QED
      BY <3>1 DEF StandsByTheLast
  <2>2. g[I] = new /\ g[I \ {m}] = old
    BY <2>1
  <2>3. SUFFICES new = After(old, m)
    BY <2>1, <2>2
  <2>4. CASE Day(points[m].time) \in DOMAIN old
    <3>1. PICK i \in 1 .. n : /\ old[Day(points[m].time)] = points[i]
                              /\ new = IF <<m, i>> \in R THEN PutDay(old, points[m]) ELSE old
      BY <2>1, <2>4
    <3>2. <<m, i>> \in R <=> Newer(points[m], old[Day(points[m].time)])
      BY <2>1, <3>1
    <3>3. QED
      BY <2>4, <3>1, <3>2, Zenon DEF After
  <2>5. CASE Day(points[m].time) \notin DOMAIN old
    BY <2>1, <2>5, Zenon DEF After
  <2>6. QED
    BY <2>4, <2>5
<1>4. Folds(g)
  BY <1>2, <1>3
<1>5. Folds(f)
  BY <1>4, Zenon
<1> HIDE DEF f
<1>6. f[{}] = <<>> /\ \A I \in SUBSET (1 .. n) : I # {} => f[I] = After(f[I \ {Max(I)}], Max(I))
  BY <1>5
<1> HIDE DEF g
<1>7. f[1 .. n] = g[1 .. n]
  <2>1. f[{}] = g[{}]
    BY <1>2, <1>6
  <2>2. \A I \in SUBSET (1 .. n) : I # {} /\ f[I \ {Max(I)}] = g[I \ {Max(I)}] => f[I] = g[I]
    BY <1>3, <1>6, Zenon
  <2>3. QED
    BY <2>1, <2>2, FoldsAgree
<1>8. ByDay(points, Newer) = Standing(points, R, 1 .. n)
  BY <1>1, <1>7 DEF g
<1>9. QED
  BY <1>8, StandingHolds

\* The same by NotOlder.
LEMMA ByDayNotOlder ==
    ASSUME NEW n \in Nat, NEW points, DOMAIN points = 1 .. n,
           NEW R, \A i, j \in 1 .. n : <<i, j>> \in R <=> NotOlder(points[i], points[j]),
           Orderly(DaysOf(points), R)
    PROVE  HoldsStanding(points, R, ByDay(points, NotOlder))
<1> DEFINE After(kept, m) ==
               IF Day(points[m].time) \in DOMAIN kept
                  /\ ~ NotOlder(points[m], kept[Day(points[m].time)])
               THEN kept ELSE PutDay(kept, points[m])
           Folds(f) == f = [I \in SUBSET (1 .. n) |->
                               IF I = {} THEN <<>> ELSE After(f[I \ {Max(I)}], Max(I))]
           f == CHOOSE h : Folds(h)
           g == [I \in SUBSET (1 .. n) |-> Standing(points, R, I)]
<1>1. ByDay(points, NotOlder) = f[1 .. n]
  BY DEF ByDay, FoldLeft, MapThenFoldSet
<1> HIDE DEF After
<1>2. g[{}] = <<>>
  BY DEF Standing
<1>3. ASSUME NEW I \in SUBSET (1 .. n), I # {}
      PROVE  g[I] = After(g[I \ {Max(I)}], Max(I))
  <2>1. PICK m, old, new :
            /\ m \in 1 .. n /\ m = Max(I) /\ I \ {m} \in SUBSET (1 .. n)
            /\ old = Standing(points, R, I \ {m}) /\ new = Standing(points, R, I)
            /\ \/ /\ Day(points[m].time) \in DOMAIN old
                  /\ \E i \in 1 .. n :
                        /\ old[Day(points[m].time)] = points[i]
                        /\ new = IF <<m, i>> \in R THEN PutDay(old, points[m]) ELSE old
               \/ /\ Day(points[m].time) \notin DOMAIN old
                  /\ new = PutDay(old, points[m])
    <3> HIDE DEF f, g, Folds
    <3>1. StandsByTheLast(n, points, R, I)
      BY <1>3, LastPointComes
    <3>2. QED
      BY <3>1 DEF StandsByTheLast
  <2>2. g[I] = new /\ g[I \ {m}] = old
    BY <2>1
  <2>3. SUFFICES new = After(old, m)
    BY <2>1, <2>2
  <2>4. CASE Day(points[m].time) \in DOMAIN old
    <3>1. PICK i \in 1 .. n : /\ old[Day(points[m].time)] = points[i]
                              /\ new = IF <<m, i>> \in R THEN PutDay(old, points[m]) ELSE old
      BY <2>1, <2>4
    <3>2. <<m, i>> \in R <=> NotOlder(points[m], old[Day(points[m].time)])
      BY <2>1, <3>1
    <3>3. QED
      BY <2>4, <3>1, <3>2, Zenon DEF After
  <2>5. CASE Day(points[m].time) \notin DOMAIN old
    BY <2>1, <2>5, Zenon DEF After
  <2>6. QED
    BY <2>4, <2>5
<1>4. Folds(g)
  BY <1>2, <1>3
<1>5. Folds(f)
  BY <1>4, Zenon
<1> HIDE DEF f
<1>6. f[{}] = <<>> /\ \A I \in SUBSET (1 .. n) : I # {} => f[I] = After(f[I \ {Max(I)}], Max(I))
  BY <1>5
<1> HIDE DEF g
<1>7. f[1 .. n] = g[1 .. n]
  <2>1. f[{}] = g[{}]
    BY <1>2, <1>6
  <2>2. \A I \in SUBSET (1 .. n) : I # {} /\ f[I \ {Max(I)}] = g[I \ {Max(I)}] => f[I] = g[I]
    BY <1>3, <1>6, Zenon
  <2>3. QED
    BY <2>1, <2>2, FoldsAgree
<1>8. ByDay(points, NotOlder) = Standing(points, R, 1 .. n)
  BY <1>1, <1>7 DEF g
<1>9. QED
  BY <1>8, StandingHolds

\* The same by Always.
LEMMA ByDayAlways ==
    ASSUME NEW n \in Nat, NEW points, DOMAIN points = 1 .. n,
           NEW R, \A i, j \in 1 .. n : <<i, j>> \in R <=> Always(points[i], points[j]),
           Orderly(DaysOf(points), R)
    PROVE  HoldsStanding(points, R, ByDay(points, Always))
<1> DEFINE After(kept, m) ==
               IF Day(points[m].time) \in DOMAIN kept
                  /\ ~ Always(points[m], kept[Day(points[m].time)])
               THEN kept ELSE PutDay(kept, points[m])
           Folds(f) == f = [I \in SUBSET (1 .. n) |->
                               IF I = {} THEN <<>> ELSE After(f[I \ {Max(I)}], Max(I))]
           f == CHOOSE h : Folds(h)
           g == [I \in SUBSET (1 .. n) |-> Standing(points, R, I)]
<1>1. ByDay(points, Always) = f[1 .. n]
  BY DEF ByDay, FoldLeft, MapThenFoldSet
<1> HIDE DEF After
<1>2. g[{}] = <<>>
  BY DEF Standing
<1>3. ASSUME NEW I \in SUBSET (1 .. n), I # {}
      PROVE  g[I] = After(g[I \ {Max(I)}], Max(I))
  <2>1. PICK m, old, new :
            /\ m \in 1 .. n /\ m = Max(I) /\ I \ {m} \in SUBSET (1 .. n)
            /\ old = Standing(points, R, I \ {m}) /\ new = Standing(points, R, I)
            /\ \/ /\ Day(points[m].time) \in DOMAIN old
                  /\ \E i \in 1 .. n :
                        /\ old[Day(points[m].time)] = points[i]
                        /\ new = IF <<m, i>> \in R THEN PutDay(old, points[m]) ELSE old
               \/ /\ Day(points[m].time) \notin DOMAIN old
                  /\ new = PutDay(old, points[m])
    <3> HIDE DEF f, g, Folds
    <3>1. StandsByTheLast(n, points, R, I)
      BY <1>3, LastPointComes
    <3>2. QED
      BY <3>1 DEF StandsByTheLast
  <2>2. g[I] = new /\ g[I \ {m}] = old
    BY <2>1
  <2>3. SUFFICES new = After(old, m)
    BY <2>1, <2>2
  <2>4. CASE Day(points[m].time) \in DOMAIN old
    <3>1. PICK i \in 1 .. n : /\ old[Day(points[m].time)] = points[i]
                              /\ new = IF <<m, i>> \in R THEN PutDay(old, points[m]) ELSE old
      BY <2>1, <2>4
    <3>2. <<m, i>> \in R <=> Always(points[m], old[Day(points[m].time)])
      BY <2>1, <3>1
    <3>3. QED
      BY <2>4, <3>1, <3>2, Zenon DEF After
  <2>5. CASE Day(points[m].time) \notin DOMAIN old
    BY <2>1, <2>5, Zenon DEF After
  <2>6. QED
    BY <2>4, <2>5
<1>4. Folds(g)
  BY <1>2, <1>3
<1>5. Folds(f)
  BY <1>4, Zenon
<1> HIDE DEF f
<1>6. f[{}] = <<>> /\ \A I \in SUBSET (1 .. n) : I # {} => f[I] = After(f[I \ {Max(I)}], Max(I))
  BY <1>5
<1> HIDE DEF g
<1>7. f[1 .. n] = g[1 .. n]
  <2>1. f[{}] = g[{}]
    BY <1>2, <1>6
  <2>2. \A I \in SUBSET (1 .. n) : I # {} /\ f[I \ {Max(I)}] = g[I \ {Max(I)}] => f[I] = g[I]
    BY <1>3, <1>6, Zenon
  <2>3. QED
    BY <2>1, <2>2, FoldsAgree
<1>8. ByDay(points, Always) = Standing(points, R, 1 .. n)
  BY <1>1, <1>7 DEF g
<1>9. QED
  BY <1>8, StandingHolds

\* The same by Never.
LEMMA ByDayNever ==
    ASSUME NEW n \in Nat, NEW points, DOMAIN points = 1 .. n,
           NEW R, \A i, j \in 1 .. n : <<i, j>> \in R <=> Never(points[i], points[j]),
           Orderly(DaysOf(points), R)
    PROVE  HoldsStanding(points, R, ByDay(points, Never))
<1> DEFINE After(kept, m) ==
               IF Day(points[m].time) \in DOMAIN kept
                  /\ ~ Never(points[m], kept[Day(points[m].time)])
               THEN kept ELSE PutDay(kept, points[m])
           Folds(f) == f = [I \in SUBSET (1 .. n) |->
                               IF I = {} THEN <<>> ELSE After(f[I \ {Max(I)}], Max(I))]
           f == CHOOSE h : Folds(h)
           g == [I \in SUBSET (1 .. n) |-> Standing(points, R, I)]
<1>1. ByDay(points, Never) = f[1 .. n]
  BY DEF ByDay, FoldLeft, MapThenFoldSet
<1> HIDE DEF After
<1>2. g[{}] = <<>>
  BY DEF Standing
<1>3. ASSUME NEW I \in SUBSET (1 .. n), I # {}
      PROVE  g[I] = After(g[I \ {Max(I)}], Max(I))
  <2>1. PICK m, old, new :
            /\ m \in 1 .. n /\ m = Max(I) /\ I \ {m} \in SUBSET (1 .. n)
            /\ old = Standing(points, R, I \ {m}) /\ new = Standing(points, R, I)
            /\ \/ /\ Day(points[m].time) \in DOMAIN old
                  /\ \E i \in 1 .. n :
                        /\ old[Day(points[m].time)] = points[i]
                        /\ new = IF <<m, i>> \in R THEN PutDay(old, points[m]) ELSE old
               \/ /\ Day(points[m].time) \notin DOMAIN old
                  /\ new = PutDay(old, points[m])
    <3> HIDE DEF f, g, Folds
    <3>1. StandsByTheLast(n, points, R, I)
      BY <1>3, LastPointComes
    <3>2. QED
      BY <3>1 DEF StandsByTheLast
  <2>2. g[I] = new /\ g[I \ {m}] = old
    BY <2>1
  <2>3. SUFFICES new = After(old, m)
    BY <2>1, <2>2
  <2>4. CASE Day(points[m].time) \in DOMAIN old
    <3>1. PICK i \in 1 .. n : /\ old[Day(points[m].time)] = points[i]
                              /\ new = IF <<m, i>> \in R THEN PutDay(old, points[m]) ELSE old
      BY <2>1, <2>4
    <3>2. <<m, i>> \in R <=> Never(points[m], old[Day(points[m].time)])
      BY <2>1, <3>1
    <3>3. QED
      BY <2>4, <3>1, <3>2, Zenon DEF After
  <2>5. CASE Day(points[m].time) \notin DOMAIN old
    BY <2>1, <2>5, Zenon DEF After
  <2>6. QED
    BY <2>4, <2>5
<1>4. Folds(g)
  BY <1>2, <1>3
<1>5. Folds(f)
  BY <1>4, Zenon
<1> HIDE DEF f
<1>6. f[{}] = <<>> /\ \A I \in SUBSET (1 .. n) : I # {} => f[I] = After(f[I \ {Max(I)}], Max(I))
  BY <1>5
<1> HIDE DEF g
<1>7. f[1 .. n] = g[1 .. n]
  <2>1. f[{}] = g[{}]
    BY <1>2, <1>6
  <2>2. \A I \in SUBSET (1 .. n) : I # {} /\ f[I \ {Max(I)}] = g[I \ {Max(I)}] => f[I] = g[I]
    BY <1>3, <1>6, Zenon
  <2>3. QED
    BY <2>1, <2>2, FoldsAgree
<1>8. ByDay(points, Never) = Standing(points, R, 1 .. n)
  BY <1>1, <1>7 DEF g
<1>9. QED
  BY <1>8, StandingHolds

\* The same by Picks, the rule of pickDailyHistory.
LEMMA ByDayPicks ==
    ASSUME NEW n \in Nat, NEW points, DOMAIN points = 1 .. n, NEW clock,
           NEW R, \A i, j \in 1 .. n : <<i, j>> \in R <=> Picks(clock, points[i], points[j]),
           Orderly(DaysOf(points), R)
    PROVE  HoldsStanding(points, R, PickDailyHistory(points, clock))
<1> DEFINE After(kept, m) ==
               IF Day(points[m].time) \in DOMAIN kept
                  /\ ~ Picks(clock, points[m], kept[Day(points[m].time)])
               THEN kept ELSE PutDay(kept, points[m])
           Folds(f) == f = [I \in SUBSET (1 .. n) |->
                               IF I = {} THEN <<>> ELSE After(f[I \ {Max(I)}], Max(I))]
           f == CHOOSE h : Folds(h)
           g == [I \in SUBSET (1 .. n) |-> Standing(points, R, I)]
<1>1. PickDailyHistory(points, clock) = f[1 .. n]
  BY DEF PickDailyHistory, ByDay, FoldLeft, MapThenFoldSet
<1> HIDE DEF After
<1>2. g[{}] = <<>>
  BY DEF Standing
<1>3. ASSUME NEW I \in SUBSET (1 .. n), I # {}
      PROVE  g[I] = After(g[I \ {Max(I)}], Max(I))
  <2>1. PICK m, old, new :
            /\ m \in 1 .. n /\ m = Max(I) /\ I \ {m} \in SUBSET (1 .. n)
            /\ old = Standing(points, R, I \ {m}) /\ new = Standing(points, R, I)
            /\ \/ /\ Day(points[m].time) \in DOMAIN old
                  /\ \E i \in 1 .. n :
                        /\ old[Day(points[m].time)] = points[i]
                        /\ new = IF <<m, i>> \in R THEN PutDay(old, points[m]) ELSE old
               \/ /\ Day(points[m].time) \notin DOMAIN old
                  /\ new = PutDay(old, points[m])
    <3> HIDE DEF f, g, Folds
    <3>1. StandsByTheLast(n, points, R, I)
      BY <1>3, LastPointComes
    <3>2. QED
      BY <3>1 DEF StandsByTheLast
  <2>2. g[I] = new /\ g[I \ {m}] = old
    BY <2>1
  <2>3. SUFFICES new = After(old, m)
    BY <2>1, <2>2
  <2>4. CASE Day(points[m].time) \in DOMAIN old
    <3>1. PICK i \in 1 .. n : /\ old[Day(points[m].time)] = points[i]
                              /\ new = IF <<m, i>> \in R THEN PutDay(old, points[m]) ELSE old
      BY <2>1, <2>4
    <3>2. <<m, i>> \in R <=> Picks(clock, points[m], old[Day(points[m].time)])
      BY <2>1, <3>1
    <3>3. QED
      BY <2>4, <3>1, <3>2, Zenon DEF After
  <2>5. CASE Day(points[m].time) \notin DOMAIN old
    BY <2>1, <2>5, Zenon DEF After
  <2>6. QED
    BY <2>4, <2>5
<1>4. Folds(g)
  BY <1>2, <1>3
<1>5. Folds(f)
  BY <1>4, Zenon
<1> HIDE DEF f
<1>6. f[{}] = <<>> /\ \A I \in SUBSET (1 .. n) : I # {} => f[I] = After(f[I \ {Max(I)}], Max(I))
  BY <1>5
<1> HIDE DEF g
<1>7. f[1 .. n] = g[1 .. n]
  <2>1. f[{}] = g[{}]
    BY <1>2, <1>6
  <2>2. \A I \in SUBSET (1 .. n) : I # {} /\ f[I \ {Max(I)}] = g[I \ {Max(I)}] => f[I] = g[I]
    BY <1>3, <1>6, Zenon
  <2>3. QED
    BY <2>1, <2>2, FoldsAgree
<1>8. PickDailyHistory(points, clock) = Standing(points, R, 1 .. n)
  BY <1>1, <1>7 DEF g
<1>9. QED
  BY <1>8, StandingHolds

\* Sets have as many members as one another when a function takes one onto the other, each
\* member once.
LEMMA SameCount ==
    ASSUME NEW S, NEW T, IsFiniteSet(S), NEW f,
           \A x \in S : f[x] \in T,
           \A x, y \in S : f[x] = f[y] => x = y,
           \A z \in T : \E x \in S : f[x] = z
    PROVE  IsFiniteSet(T) /\ Cardinality(T) = Cardinality(S)
<1> DEFINE g == [x \in S |-> f[x]]
<1>1. g \in Injection(S, T)
  BY DEF Injection, IsInjective
<1>2. g \in Surjection(S, T)
  BY DEF Surjection
<1>3. ExistsBijection(S, T)
  BY <1>1, <1>2 DEF Bijection, ExistsBijection
<1>4. QED
  BY <1>3, FS_Bijection

-----------------------------------------------------------------------------
(* Rows *)

\* A table of rows: a function from some naturals to quotes.
IsTable(table) == DOMAIN table \in SUBSET Nat /\ IsFiniteSet(DOMAIN table)

\* A sequence of points lists the rows of a table at some times, in ascending order of time.
ListsRows(points, table, S) ==
    /\ DOMAIN points = 1 .. Cardinality(S) /\ Cardinality(S) \in Nat
    /\ points \in Seq(Range(points)) /\ Len(points) = Cardinality(S)
    /\ \A i \in DOMAIN points :
           /\ points[i] = [time |-> points[i].time, quote |-> table[points[i].time]]
           /\ points[i].time \in S
    /\ \A i, j \in DOMAIN points : i < j <=> points[i].time < points[j].time
    /\ \A t \in S : \E i \in DOMAIN points : points[i].time = t

\* The points of a list, by their places.
LEMMA ListedRows ==
    ASSUME NEW points, NEW table, NEW S, ListsRows(points, table, S)
    PROVE  LET n == Cardinality(S)
           IN  /\ n \in Nat /\ DOMAIN points = 1 .. n
               /\ \A i \in 1 .. n : points[i].time \in S /\ points[i].quote = table[points[i].time]
               /\ \A i, j \in 1 .. n : i < j <=> points[i].time < points[j].time
               /\ \A t \in S : \E i \in 1 .. n : points[i].time = t
<1>1. DOMAIN points = 1 .. Cardinality(S) /\ Cardinality(S) \in Nat
  BY Zenon DEF ListsRows
<1>2. /\ \A i, j \in DOMAIN points : i < j <=> points[i].time < points[j].time
      /\ \A t \in S : \E i \in DOMAIN points : points[i].time = t
  BY Zenon DEF ListsRows
<1>3. ASSUME NEW i \in DOMAIN points
      PROVE  points[i].time \in S /\ points[i].quote = table[points[i].time]
  <2>1. points[i] = [time |-> points[i].time, quote |-> table[points[i].time]]
    BY Zenon DEF ListsRows
  <2>2. points[i].quote = [time |-> points[i].time, quote |-> table[points[i].time]].quote
    BY <2>1, Zenon
  <2>3. points[i].quote = table[points[i].time]
    BY <2>2
  <2>4. QED
    BY <2>3, Zenon DEF ListsRows
<1>4. QED
  BY <1>1, <1>2, <1>3, Zenon

\* RowsSince lists the rows from a time on.
LEMMA RowsListed ==
    ASSUME NEW table, IsTable(table), NEW from \in Int
    PROVE  ListsRows(RowsSince(table, from), table, {t \in DOMAIN table : t >= from})
<1> DEFINE S == {t \in DOMAIN table : t >= from}
           times == InOrder(S)
           points == RowsSince(table, from)
<1>1. S \in SUBSET Nat /\ IsFiniteSet(S)
  BY FS_Subset DEF IsTable
<1>2. Lists(times, S) /\ Cardinality(S) \in Nat
  BY <1>1, InOrderLists, FS_CardinalityType
<1>3. points = [i \in DOMAIN times |-> [time |-> times[i], quote |-> table[times[i]]]]
  BY DEF RowsSince
<1> HIDE DEF S, times, points
<1>4. DOMAIN points = 1 .. Cardinality(S) /\ \A i \in DOMAIN points : points[i].time = times[i]
  BY <1>2, <1>3 DEF Lists
<1>5. points \in Seq(Range(points)) /\ Len(points) = Cardinality(S)
  <2>1. points \in [1 .. Cardinality(S) -> Range(points)]
    BY <1>3, <1>4 DEF Range
  <2>2. QED
    BY <1>2, <2>1
<1>6. \A i \in DOMAIN points : times[i] \in S
  BY <1>2, <1>4 DEF Lists
<1>7. \A i \in DOMAIN points :
          /\ points[i] = [time |-> points[i].time, quote |-> table[points[i].time]]
          /\ points[i].time \in S
  BY <1>2, <1>3, <1>4, <1>6 DEF Lists
<1>8. /\ \A i, j \in DOMAIN points : i < j <=> points[i].time < points[j].time
      /\ \A t \in S : \E i \in DOMAIN points : points[i].time = t
  <2>1. DOMAIN times = DOMAIN points
    BY <1>2, <1>4 DEF Lists
  <2>2. QED
    BY <1>2, <1>4, <2>1 DEF Lists
<1>9. ListsRows(points, table, S)
  BY <1>2, <1>4, <1>5, <1>7, <1>8, Zenon DEF ListsRows
<1>10. QED
  BY <1>9 DEF S, points

\* A map of days holds the latest point of each day.
KeepsLast(points, kept) ==
    /\ DOMAIN kept = {Day(points[i].time) : i \in DOMAIN points}
    /\ \A d \in DOMAIN kept : \E i \in DOMAIN points :
           /\ kept[d] = points[i] /\ Day(points[i].time) = d
           /\ \A j \in DOMAIN points :
                  Day(points[j].time) = d => points[j].time <= points[i].time

\* A map that holds what stands holds the latest points, when whoever stands is the latest.
LEMMA LatestStand ==
    ASSUME NEW n \in Nat, NEW points, DOMAIN points = 1 .. n,
           NEW R, NEW kept, HoldsStanding(points, R, kept),
           \A d : \A i \in 1 .. n : Stands(DaysOf(points), R, 1 .. n, d, i) =>
               \A j \in 1 .. n : Day(points[j].time) = d => points[j].time <= points[i].time
    PROVE  KeepsLast(points, kept)
<1>1. DOMAIN kept = {Day(points[i].time) : i \in DOMAIN points}
  BY DEF HoldsStanding
<1>2. ASSUME NEW d \in DOMAIN kept
      PROVE  \E i \in DOMAIN points :
                 /\ kept[d] = points[i] /\ Day(points[i].time) = d
                 /\ \A j \in DOMAIN points :
                        Day(points[j].time) = d => points[j].time <= points[i].time
  <2>1. PICK i \in 1 .. n : Stands(DaysOf(points), R, 1 .. n, d, i) /\ kept[d] = points[i]
    BY DEF HoldsStanding
  <2>2. Day(points[i].time) = d
    BY <2>1 DEF Stands, DaysOf
  <2>3. \A j \in 1 .. n : Day(points[j].time) = d => points[j].time <= points[i].time
    BY <2>1
  <2>4. QED
    BY <2>1, <2>2, <2>3
<1>3. QED
  BY <1>1, <1>2 DEF KeepsLast

\* The rule Newer keeps the latest point of each day, whatever the order of the points.
LEMMA NewerKeepsLast ==
    ASSUME NEW n \in Nat, NEW points, DOMAIN points = 1 .. n,
           \A i \in 1 .. n : points[i].time \in Nat
    PROVE  KeepsLast(points, ByDay(points, Newer))
<1> DEFINE R == {p \in (1 .. n) \X (1 .. n) : points[p[1]].time > points[p[2]].time}
           day == DaysOf(points)
<1>1. \A i, j \in 1 .. n : <<i, j>> \in R <=> points[i].time > points[j].time
  OBVIOUS
<1>2. DOMAIN day = 1 .. n /\ \A i \in 1 .. n : day[i] = Day(points[i].time)
  BY DEF DaysOf
<1> HIDE DEF R, day
<1>3. Orderly(day, R)
  <2>1. SUFFICES ASSUME NEW i \in 1 .. n, NEW j \in 1 .. n, NEW k \in 1 .. n
                 PROVE  /\ <<i, j>> \in R /\ <<j, k>> \in R => <<i, k>> \in R
                        /\ <<i, j>> \notin R /\ <<j, k>> \notin R => <<i, k>> \notin R
    BY <1>2 DEF Orderly
  <2>2. points[i].time \in Nat /\ points[j].time \in Nat /\ points[k].time \in Nat
    OBVIOUS
  <2>3. QED
    BY <1>1, <2>2
<1>4. HoldsStanding(points, R, ByDay(points, Newer))
  BY <1>1, <1>3, ByDayNewer DEF Newer, day
<1>5. ASSUME NEW d, NEW i \in 1 .. n, Stands(day, R, 1 .. n, d, i),
             NEW j \in 1 .. n, Day(points[j].time) = d
      PROVE  points[j].time <= points[i].time
  <2>1. day[j] = d
    BY <1>2, <1>5
  <2>2. (j < i => <<i, j>> \in R) /\ (j > i => <<j, i>> \notin R)
    BY <1>5, <2>1 DEF Stands
  <2>3. points[i].time \in Nat /\ points[j].time \in Nat
    OBVIOUS
  <2>4. CASE j = i
    BY <2>3, <2>4
  <2>5. CASE j # i
    BY <1>1, <2>2, <2>3, <2>5
  <2>6. QED
    BY <2>4, <2>5
<1>6. QED
  BY <1>4, <1>5, LatestStand DEF day

\* So does NotOlder.
LEMMA NotOlderKeepsLast ==
    ASSUME NEW n \in Nat, NEW points, DOMAIN points = 1 .. n,
           \A i \in 1 .. n : points[i].time \in Nat
    PROVE  KeepsLast(points, ByDay(points, NotOlder))
<1> DEFINE R == {p \in (1 .. n) \X (1 .. n) : points[p[1]].time >= points[p[2]].time}
           day == DaysOf(points)
<1>1. \A i, j \in 1 .. n : <<i, j>> \in R <=> points[i].time >= points[j].time
  OBVIOUS
<1>2. DOMAIN day = 1 .. n /\ \A i \in 1 .. n : day[i] = Day(points[i].time)
  BY DEF DaysOf
<1> HIDE DEF R, day
<1>3. Orderly(day, R)
  <2>1. SUFFICES ASSUME NEW i \in 1 .. n, NEW j \in 1 .. n, NEW k \in 1 .. n
                 PROVE  /\ <<i, j>> \in R /\ <<j, k>> \in R => <<i, k>> \in R
                        /\ <<i, j>> \notin R /\ <<j, k>> \notin R => <<i, k>> \notin R
    BY <1>2 DEF Orderly
  <2>2. points[i].time \in Nat /\ points[j].time \in Nat /\ points[k].time \in Nat
    OBVIOUS
  <2>3. QED
    BY <1>1, <2>2
<1>4. HoldsStanding(points, R, ByDay(points, NotOlder))
  BY <1>1, <1>3, ByDayNotOlder DEF NotOlder, day
<1>5. ASSUME NEW d, NEW i \in 1 .. n, Stands(day, R, 1 .. n, d, i),
             NEW j \in 1 .. n, Day(points[j].time) = d
      PROVE  points[j].time <= points[i].time
  <2>1. day[j] = d
    BY <1>2, <1>5
  <2>2. (j < i => <<i, j>> \in R) /\ (j > i => <<j, i>> \notin R)
    BY <1>5, <2>1 DEF Stands
  <2>3. points[i].time \in Nat /\ points[j].time \in Nat
    OBVIOUS
  <2>4. CASE j = i
    BY <2>3, <2>4
  <2>5. CASE j # i
    BY <1>1, <2>2, <2>3, <2>5
  <2>6. QED
    BY <2>4, <2>5
<1>6. QED
  BY <1>4, <1>5, LatestStand DEF day

\* In ascending order of time, so does Always.
LEMMA AlwaysKeepsLast ==
    ASSUME NEW n \in Nat, NEW points, DOMAIN points = 1 .. n,
           \A i \in 1 .. n : points[i].time \in Nat,
           \A i, j \in 1 .. n : i < j => points[i].time < points[j].time
    PROVE  KeepsLast(points, ByDay(points, Always))
<1> DEFINE R == (1 .. n) \X (1 .. n)
           day == DaysOf(points)
<1>1. \A i, j \in 1 .. n : <<i, j>> \in R
  OBVIOUS
<1>2. DOMAIN day = 1 .. n /\ \A i \in 1 .. n : day[i] = Day(points[i].time)
  BY DEF DaysOf
<1> HIDE DEF R, day
<1>3. Orderly(day, R)
  BY <1>1, <1>2 DEF Orderly
<1>4. HoldsStanding(points, R, ByDay(points, Always))
  BY <1>1, <1>3, ByDayAlways DEF Always, day
<1>5. ASSUME NEW d, NEW i \in 1 .. n, Stands(day, R, 1 .. n, d, i),
             NEW j \in 1 .. n, Day(points[j].time) = d
      PROVE  points[j].time <= points[i].time
  <2>1. day[j] = d
    BY <1>2, <1>5
  <2>2. ~ j > i
    BY <1>1, <1>5, <2>1 DEF Stands
  <2>3. points[i].time \in Nat /\ points[j].time \in Nat
    OBVIOUS
  <2>4. CASE j = i
    BY <2>3, <2>4
  <2>5. CASE j < i
    BY <2>3, <2>5
  <2>6. QED
    BY <2>2, <2>4, <2>5
<1>6. QED
  BY <1>4, <1>5, LatestStand DEF day

\* In descending order of time, so does Never.
LEMMA NeverKeepsLast ==
    ASSUME NEW n \in Nat, NEW points, DOMAIN points = 1 .. n,
           \A i \in 1 .. n : points[i].time \in Nat,
           \A i, j \in 1 .. n : i < j => points[i].time > points[j].time
    PROVE  KeepsLast(points, ByDay(points, Never))
<1> DEFINE day == DaysOf(points)
<1>1. \A i, j \in 1 .. n : <<i, j>> \notin {}
  OBVIOUS
<1>2. DOMAIN day = 1 .. n /\ \A i \in 1 .. n : day[i] = Day(points[i].time)
  BY DEF DaysOf
<1> HIDE DEF day
<1>3. Orderly(day, {})
  BY DEF Orderly
<1>4. HoldsStanding(points, {}, ByDay(points, Never))
  BY <1>1, <1>3, ByDayNever DEF Never, day
<1>5. ASSUME NEW d, NEW i \in 1 .. n, Stands(day, {}, 1 .. n, d, i),
             NEW j \in 1 .. n, Day(points[j].time) = d
      PROVE  points[j].time <= points[i].time
  <2>1. day[j] = d
    BY <1>2, <1>5
  <2>2. ~ j < i
    BY <1>5, <2>1 DEF Stands
  <2>3. points[i].time \in Nat /\ points[j].time \in Nat
    OBVIOUS
  <2>4. CASE j = i
    BY <2>3, <2>4
  <2>5. CASE j > i
    BY <2>3, <2>5
  <2>6. QED
    BY <2>2, <2>4, <2>5
<1>6. QED
  BY <1>4, <1>5, LatestStand DEF day

-----------------------------------------------------------------------------
(* The last rows of the days *)

\* An earlier day means an earlier time.
LEMMA DaysInOrder ==
    ASSUME NEW s \in Nat, NEW t \in Nat
    PROVE  Day(s) \in Nat /\ Day(t) \in Nat /\ (Day(s) < Day(t) => s < t)
<1> DEFINE a == s \div DayTicks
           b == t \div DayTicks
<1>1. a \in Nat /\ s < (a + 1) * DayTicks /\ b \in Nat /\ b * DayTicks <= t
  BY WholeDays
<1> HIDE DEF a, b
<1>2. ASSUME a < b
      PROVE  s < t
  <2>1. (a + 1) * DayTicks <= b * DayTicks
    <3>1. \A m \in Nat, k \in Nat, e \in Nat : m <= k => m * e <= k * e
      OBVIOUS
    <3>2. a + 1 \in Nat /\ a + 1 <= b /\ DayTicks \in Nat
      BY <1>1, <1>2, SeriesAssumption
    <3>3. QED
      BY <1>1, <3>1, <3>2
  <2>2. (a + 1) * DayTicks \in Nat /\ b * DayTicks \in Nat
    BY <1>1, SeriesAssumption
  <2>3. QED
    BY <1>1, <2>1, <2>2
<1>3. QED
  BY <1>1, <1>2 DEF Day, a, b

\* The last times of their days among some times.
LastOfDays(T) == {t \in T : ~ \E s \in T : s > t /\ Day(s) = Day(t)}

\* Every day with a time has one last time.
LEMMA LastOfEveryDay ==
    ASSUME NEW T \in SUBSET Nat, IsFiniteSet(T)
    PROVE  /\ LastOfDays(T) \in SUBSET T /\ IsFiniteSet(LastOfDays(T))
           /\ \A t \in T : \E u \in LastOfDays(T) : Day(u) = Day(t) /\ t <= u
           /\ \A t, u \in LastOfDays(T) : Day(t) = Day(u) => t = u
<1>1. LastOfDays(T) \in SUBSET T
  BY DEF LastOfDays
<1>2. IsFiniteSet(LastOfDays(T))
  BY <1>1, FS_Subset
<1>3. ASSUME NEW t \in T
      PROVE  \E u \in LastOfDays(T) : Day(u) = Day(t) /\ t <= u
  <2> DEFINE S == {s \in T : Day(s) = Day(t)}
             u == Max(S)
  <2>1. S \in SUBSET Nat /\ S # {} /\ IsFiniteSet(S)
    BY FS_Subset
  <2> HIDE DEF S
  <2>2. u \in S /\ \A s \in S : s <= u
    BY <2>1, GreatestOfFinite
  <2> HIDE DEF u
  <2>3. u \in Nat /\ \A s \in S : s \in Nat
    BY <2>1, <2>2
  <2>4. u \in LastOfDays(T) /\ Day(u) = Day(t)
    BY <2>2, <2>3 DEF LastOfDays, S
  <2>5. t <= u
    BY <2>2 DEF S
  <2>6. QED
    BY <2>4, <2>5
<1>4. ASSUME NEW t \in LastOfDays(T), NEW u \in LastOfDays(T), Day(t) = Day(u)
      PROVE  t = u
  <2>1. t \in Nat /\ u \in Nat /\ ~ t < u /\ ~ u < t
    BY <1>4 DEF LastOfDays
  <2>2. QED
    BY <2>1
<1>5. QED
  BY <1>1, <1>2, <1>3, <1>4

\* Points are rows of a table at some times, with the last row of every day among them.
Carries(points, table, T) ==
    /\ \A i \in DOMAIN points :
           /\ points[i].time \in T
           /\ points[i] = [time |-> points[i].time, quote |-> table[points[i].time]]
    /\ \A t \in LastOfDays(T) : \E i \in DOMAIN points : points[i].time = t

\* Rows that are listed, the last rows of the days among them, are carried.
LEMMA ListedAreCarried ==
    ASSUME NEW points, NEW table, NEW S, NEW T, ListsRows(points, table, S),
           S \subseteq T, LastOfDays(T) \subseteq S
    PROVE  Carries(points, table, T)
  BY DEF ListsRows, Carries

\* A series of the latest points of the days lists the last rows of the days.
LEMMA SeriesOfLastRows ==
    ASSUME NEW points, NEW table, NEW T \in SUBSET Nat, IsFiniteSet(T),
           Carries(points, table, T), NEW kept, KeepsLast(points, kept)
    PROVE  ListsRows(Series(kept), table, LastOfDays(T))
<1> DEFINE L == LastOfDays(T)
           D == DOMAIN kept
           o == InOrder(D)
           s == Series(kept)
<1>1. /\ L \in SUBSET T /\ IsFiniteSet(L)
      /\ \A t \in T : \E u \in L : Day(u) = Day(t) /\ t <= u
      /\ \A t, u \in L : Day(t) = Day(u) => t = u
  BY LastOfEveryDay
<1>2. \A t \in T : t \in Nat
  OBVIOUS
<1>3. s = [i \in DOMAIN o |-> kept[o[i]]]
  BY DEF Series
<1> HIDE DEF L, D, o, s
<1>4. D = {Day(points[i].time) : i \in DOMAIN points}
  BY DEF KeepsLast, D
<1>5. ASSUME NEW d \in D
      PROVE  /\ kept[d] = [time |-> kept[d].time, quote |-> table[kept[d].time]]
             /\ kept[d].time \in L /\ Day(kept[d].time) = d
  <2>1. PICK i \in DOMAIN points :
            /\ kept[d] = points[i] /\ Day(points[i].time) = d
            /\ \A j \in DOMAIN points : Day(points[j].time) = d => points[j].time <= points[i].time
    BY DEF KeepsLast, D
  <2>2. points[i].time \in T /\ points[i] = [time |-> points[i].time, quote |-> table[points[i].time]]
    BY DEF Carries
  <2>3. PICK u \in L : Day(u) = d /\ points[i].time <= u
    BY <1>1, <2>1, <2>2
  <2>4. PICK j \in DOMAIN points : points[j].time = u
    BY DEF Carries, L
  <2>5. u <= points[i].time
    BY <2>1, <2>3, <2>4
  <2>6. points[i].time = u
    <3>1. u \in Nat /\ points[i].time \in Nat
      BY <1>1, <1>2, <2>2
    <3>2. QED
      BY <2>3, <2>5, <3>1
  <2>7. QED
    BY <2>1, <2>2, <2>3, <2>6
<1>6. \A t \in L : Day(t) \in D /\ kept[Day(t)].time = t
  <2>1. SUFFICES ASSUME NEW t \in L
                 PROVE  Day(t) \in D /\ kept[Day(t)].time = t
    OBVIOUS
  <2>2. PICK i \in DOMAIN points : points[i].time = t
    BY DEF Carries, L
  <2>3. Day(t) \in D
    BY <1>4, <2>2
  <2>4. kept[Day(t)].time \in L /\ Day(kept[Day(t)].time) = Day(t)
    BY <1>5, <2>3
  <2>5. QED
    BY <1>1, <2>3, <2>4
<1>7. IsFiniteSet(D) /\ Cardinality(D) = Cardinality(L) /\ Cardinality(L) \in Nat
  <2> DEFINE f == [t \in L |-> Day(t)]
  <2>1. \A t \in L : f[t] \in D
    BY <1>6
  <2>2. \A t, u \in L : f[t] = f[u] => t = u
    BY <1>1
  <2>3. \A d \in D : \E t \in L : f[t] = d
    BY <1>5
  <2> HIDE DEF f
  <2>4. QED
    BY <1>1, <2>1, <2>2, <2>3, SameCount, FS_CardinalityType
<1>8. D \in SUBSET Nat
  <2>1. \A d \in D : d \in Nat
    <3>1. SUFFICES ASSUME NEW d \in D PROVE d \in Nat
      OBVIOUS
    <3>2. kept[d].time \in Nat /\ Day(kept[d].time) = d
      BY <1>1, <1>2, <1>5
    <3>3. QED
      BY <3>2, DaysInOrder
  <2>2. QED
    BY <2>1
<1>9. Lists(o, D)
  BY <1>7, <1>8, InOrderLists DEF o
<1>10. DOMAIN s = 1 .. Cardinality(L) /\ DOMAIN o = DOMAIN s /\ \A i \in DOMAIN s : o[i] \in D /\ s[i] = kept[o[i]]
  <2>1. DOMAIN o = 1 .. Cardinality(L) /\ o \in [DOMAIN o -> D]
    BY <1>7, <1>9 DEF Lists
  <2>2. QED
    BY <1>3, <2>1
<1>11. s \in Seq(Range(s)) /\ Len(s) = Cardinality(L)
  <2>1. s \in [1 .. Cardinality(L) -> Range(s)]
    BY <1>3, <1>10 DEF Range
  <2>2. QED
    BY <1>7, <2>1
<1>12. \A i \in DOMAIN s :
          /\ s[i] = [time |-> s[i].time, quote |-> table[s[i].time]]
          /\ s[i].time \in L /\ Day(s[i].time) = o[i]
  BY <1>5, <1>10
<1>13. ASSUME NEW i \in DOMAIN s, NEW j \in DOMAIN s
       PROVE  i < j <=> s[i].time < s[j].time
  <2>1. i < j <=> o[i] < o[j]
    BY <1>9, <1>10 DEF Lists
  <2>2. /\ s[i].time \in Nat /\ s[j].time \in Nat /\ Day(s[i].time) = o[i] /\ Day(s[j].time) = o[j]
        /\ s[i].time \in L /\ s[j].time \in L
    BY <1>1, <1>2, <1>12
  <2>3. /\ o[i] \in Nat /\ o[j] \in Nat
        /\ o[i] < o[j] => s[i].time < s[j].time
        /\ o[j] < o[i] => s[j].time < s[i].time
    BY <2>2, DaysInOrder
  <2>4. o[i] = o[j] => s[i].time = s[j].time
    BY <1>1, <2>2
  <2>5. QED
    BY <2>1, <2>2, <2>3, <2>4
<1>14. \A t \in L : \E i \in DOMAIN s : s[i].time = t
  <2>1. SUFFICES ASSUME NEW t \in L
                 PROVE  \E i \in DOMAIN s : s[i].time = t
    OBVIOUS
  <2>2. PICK i \in DOMAIN s : o[i] = Day(t)
    BY <1>6, <1>9, <1>10 DEF Lists
  <2>3. QED
    BY <1>6, <1>10, <2>2
<1>15. ListsRows(s, table, L)
  BY <1>7, <1>10, <1>11, <1>12, <1>13, <1>14, Zenon DEF ListsRows
<1>16. QED
  BY <1>15 DEF s, L

-----------------------------------------------------------------------------
(* Parts of a list of rows *)

\* An interval has as many members as it is long.
LEMMA IntervalCount ==
    ASSUME NEW k \in Nat, NEW l \in Nat, k <= l
    PROVE  IsFiniteSet(k + 1 .. l) /\ Cardinality(k + 1 .. l) = l - k
<1>1. k + 1 \in Int /\ l \in Int
  OBVIOUS
<1>2. /\ IsFiniteSet(k + 1 .. l)
      /\ Cardinality(k + 1 .. l) = IF k + 1 > l THEN 0 ELSE l - (k + 1) + 1
  BY <1>1, FS_Interval
<1>3. QED
  BY <1>1, <1>2

\* What is enumerated by so many numbers has so many members.
LEMMA Enumerated ==
    ASSUME NEW k \in Nat, NEW S, NEW f,
           \A i \in 1 .. k : f[i] \in S,
           \A i, j \in 1 .. k : f[i] = f[j] => i = j,
           \A x \in S : \E i \in 1 .. k : f[i] = x
    PROVE  IsFiniteSet(S) /\ Cardinality(S) = k
<1> DEFINE U == 1 .. k
<1>1. IsFiniteSet(U) /\ Cardinality(U) = k
  BY IntervalCount
<1> HIDE DEF U
<1>2. IsFiniteSet(S) /\ Cardinality(S) = Cardinality(U)
  <2>1. /\ \A i \in U : f[i] \in S
        /\ \A i, j \in U : f[i] = f[j] => i = j
        /\ \A x \in S : \E i \in U : f[i] = x
    BY DEF U
  <2>2. QED
    BY <1>1, <2>1, SameCount
<1>3. QED
  BY <1>1, <1>2

\* What is enumerated in ascending order is enumerated once.
LEMMA EnumeratedInOrder ==
    ASSUME NEW k \in Nat, NEW S \in SUBSET Nat, NEW f,
           \A i \in 1 .. k : f[i] \in S,
           \A i, j \in 1 .. k : i < j => f[i] < f[j],
           \A x \in S : \E i \in 1 .. k : f[i] = x
    PROVE  /\ Cardinality(S) = k
           /\ \A i, j \in 1 .. k : i < j <=> f[i] < f[j]
<1>1. (\A i \in 1 .. k : f[i] \in Nat) /\ (\A i \in 1 .. k : i \in Nat)
  <2>1. \A i \in 1 .. k : i \in Nat
    BY k \in Nat
  <2>2. \A x \in S : x \in Nat
    OBVIOUS
  <2>3. QED
    BY <2>1, <2>2, Zenon
<1>2. ASSUME NEW i \in 1 .. k, NEW j \in 1 .. k
      PROVE  (i < j <=> f[i] < f[j]) /\ (f[i] = f[j] => i = j)
  <2>1. f[i] \in Nat /\ f[j] \in Nat /\ i \in Nat /\ j \in Nat
    BY <1>1
  <2>2. (i < j => f[i] < f[j]) /\ (j < i => f[j] < f[i]) /\ (i = j => f[i] = f[j])
    OBVIOUS
  <2>3. QED
    BY <2>1, <2>2
<1>3. QED
  BY <1>2, Enumerated

\* Points in ascending order of time that are all the rows at some times.
RowsInOrder(points, time, k, table, S) ==
    /\ points = [i \in 1 .. k |-> points[i]]
    /\ \A i \in 1 .. k : time[i] = points[i].time
    /\ \A i \in 1 .. k : time[i] \in S
    /\ \A i \in 1 .. k : points[i] = [time |-> time[i], quote |-> table[time[i]]]
    /\ \A i, j \in 1 .. k : i < j => time[i] < time[j]
    /\ \A t \in S : \E i \in 1 .. k : time[i] = t

\* They are a list of the rows at these times.
LEMMA ListedByOrder ==
    ASSUME NEW k \in Nat, NEW points, NEW table, NEW S \in SUBSET Nat, NEW time,
           RowsInOrder(points, time, k, table, S)
    PROVE  ListsRows(points, table, S)
<1>1. /\ points = [i \in 1 .. k |-> points[i]]
      /\ \A i \in 1 .. k : time[i] = points[i].time
      /\ \A i \in 1 .. k : time[i] \in S
      /\ \A i \in 1 .. k : points[i] = [time |-> time[i], quote |-> table[time[i]]]
      /\ \A i, j \in 1 .. k : i < j => time[i] < time[j]
      /\ \A t \in S : \E i \in 1 .. k : time[i] = t
  BY Zenon DEF RowsInOrder
<1>2. DOMAIN points = 1 .. k
  BY <1>1
<1>3. Cardinality(S) = k /\ \A i, j \in 1 .. k : i < j <=> time[i] < time[j]
  BY <1>1, EnumeratedInOrder, Zenon
<1>4. points \in Seq(Range(points)) /\ Len(points) = k
  <2>1. points \in [1 .. k -> Range(points)]
    BY <1>1, <1>2 DEF Range
  <2>2. QED
    BY <2>1
<1>5. \A i \in DOMAIN points :
          /\ points[i] = [time |-> points[i].time, quote |-> table[points[i].time]]
          /\ points[i].time \in S
  BY <1>1, <1>2, Zenon
<1>6. /\ \A i, j \in DOMAIN points : i < j <=> points[i].time < points[j].time
      /\ \A t \in S : \E i \in DOMAIN points : points[i].time = t
  <2>1. \A i, j \in DOMAIN points : i < j <=> points[i].time < points[j].time
    BY <1>1, <1>2, <1>3
  <2>2. \A t \in S : \E i \in DOMAIN points : points[i].time = t
    BY <1>1, <1>2
  <2>3. QED
    BY <2>1, <2>2
<1>7. QED
  BY <1>2, <1>3, <1>4, <1>5, <1>6, Zenon DEF ListsRows

\* Above the time of a row lie those of the rows after it.
LEMMA RowsAbove ==
    ASSUME NEW points, NEW table, NEW S \in SUBSET Nat, ListsRows(points, table, S),
           NEW i \in DOMAIN points
    PROVE  Cardinality({u \in S : u > points[i].time}) = Cardinality(S) - i
<1> DEFINE n == Cardinality(S)
           A == {u \in S : u > points[i].time}
           f == [j \in i + 1 .. n |-> points[j].time]
<1>1. /\ n \in Nat /\ DOMAIN points = 1 .. n /\ i \in 1 .. n
      /\ \A j \in 1 .. n : points[j].time \in S
      /\ \A j, k \in 1 .. n : j < k <=> points[j].time < points[k].time
      /\ \A t \in S : \E j \in 1 .. n : points[j].time = t
  BY DEF ListsRows
<1> HIDE DEF n
<1>2. i \in Nat /\ i <= n /\ (\A j \in i + 1 .. n : j \in 1 .. n /\ i < j)
  BY <1>1
<1>3. IsFiniteSet(i + 1 .. n) /\ Cardinality(i + 1 .. n) = n - i
  BY <1>1, <1>2, IntervalCount
<1>4. \A j \in i + 1 .. n : f[j] \in A
  <2>1. SUFFICES ASSUME NEW j \in i + 1 .. n
                 PROVE  points[j].time \in A
    OBVIOUS
  <2>2. points[j].time \in S /\ points[i].time < points[j].time
    BY <1>1, <1>2
  <2>3. points[j].time \in Nat /\ points[i].time \in Nat
    BY <1>1, <2>2
  <2>4. QED
    BY <2>2, <2>3
<1>5. \A j, k \in i + 1 .. n : f[j] = f[k] => j = k
  <2>1. SUFFICES ASSUME NEW j \in i + 1 .. n, NEW k \in i + 1 .. n, points[j].time = points[k].time
                 PROVE  j = k
    OBVIOUS
  <2>2. j \in 1 .. n /\ k \in 1 .. n /\ j \in Nat /\ k \in Nat
    BY <1>1, <1>2
  <2>3. points[j].time \in Nat
    BY <1>1, <2>2
  <2>4. ~ j < k /\ ~ k < j
    BY <1>1, <2>1, <2>2, <2>3
  <2>5. QED
    BY <2>2, <2>4
<1>6. \A u \in A : \E j \in i + 1 .. n : f[j] = u
  <2>1. SUFFICES ASSUME NEW u \in A
                 PROVE  \E j \in i + 1 .. n : points[j].time = u
    OBVIOUS
  <2>2. PICK j \in 1 .. n : points[j].time = u
    BY <1>1
  <2>3. points[i].time < points[j].time
    <3>1. points[i].time \in Nat /\ u \in Nat /\ u > points[i].time
      BY <1>1
    <3>2. QED
      BY <2>2, <3>1
  <2>4. i < j
    BY <1>1, <2>2, <2>3
  <2>5. j \in i + 1 .. n
    BY <1>1, <2>2, <2>4
  <2>6. QED
    BY <2>2, <2>5
<1> DEFINE U == i + 1 .. n
<1>7. /\ IsFiniteSet(U) /\ Cardinality(U) = n - i /\ (\A j \in U : f[j] \in A)
      /\ (\A j, k \in U : f[j] = f[k] => j = k) /\ \A u \in A : \E j \in U : f[j] = u
  BY <1>3, <1>4, <1>5, <1>6
<1> HIDE DEF f, A, U
<1>8. Cardinality(A) = n - i
  BY <1>7, SameCount
<1>9. QED
  BY <1>8 DEF A, n

\* The last rows of a list are those with fewer than so many above them.
LEMMA LastListed ==
    ASSUME NEW points, NEW table, NEW S \in SUBSET Nat, ListsRows(points, table, S),
           NEW w \in Nat \ {0}
    PROVE  /\ ListsRows(LastOf(w, points), table, {t \in S : Cardinality({u \in S : u > t}) < w})
           /\ Cardinality({t \in S : Cardinality({u \in S : u > t}) < w}) =
                  IF Cardinality(S) > w THEN w ELSE Cardinality(S)
<1> DEFINE n == Cardinality(S)
           F == {t \in S : Cardinality({u \in S : u > t}) < w}
           m == IF n > w THEN n - w ELSE 0
           last == LastOf(w, points)
<1>1. /\ n \in Nat /\ DOMAIN points = 1 .. n /\ Len(points) = n /\ points \in Seq(Range(points))
      /\ \A j \in 1 .. n : /\ points[j].time \in S
                           /\ points[j] = [time |-> points[j].time, quote |-> table[points[j].time]]
      /\ \A j, k \in 1 .. n : j < k <=> points[j].time < points[k].time
      /\ \A t \in S : \E j \in 1 .. n : points[j].time = t
  BY DEF ListsRows
<1>2. \A i \in 1 .. n : Cardinality({u \in S : u > points[i].time}) = n - i
  BY <1>1, RowsAbove
<1>3. last = SubSeq(points, m + 1, n)
  <2>1. (IF Len(points) > w THEN Len(points) - w + 1 ELSE 1) = m + 1
    BY <1>1
  <2>2. QED
    BY <1>1, <2>1 DEF LastOf
<1> HIDE DEF n, last
<1>4. /\ m \in Nat /\ m <= n /\ n - m \in Nat /\ \A i \in 1 .. n : i > m <=> n - i < w
      /\ n - m = IF n > w THEN w ELSE n
  BY <1>1
<1> HIDE DEF m
<1>5. last = [i \in 1 .. n - m |-> points[i + m]]
  BY <1>1, <1>3, <1>4
<1>6. ASSUME NEW i \in 1 .. n - m
      PROVE  i + m \in 1 .. n /\ i + m > m /\ last[i] = points[i + m]
  BY <1>1, <1>4, <1>5
<1>7. ASSUME NEW i \in 1 .. n - m
      PROVE  last[i].time \in F /\ last[i] = [time |-> last[i].time, quote |-> table[last[i].time]]
  <2>1. i + m \in 1 .. n /\ i + m > m /\ last[i] = points[i + m]
    BY <1>6
  <2>2. PICK j \in 1 .. n : j = i + m
    BY <2>1
  <2>3. Cardinality({u \in S : u > points[j].time}) < w
    BY <1>2, <1>4, <2>1, <2>2
  <2>4. points[j].time \in F
    BY <1>1, <2>3
  <2>5. QED
    BY <1>1, <2>1, <2>2, <2>4
<1>8. ASSUME NEW i \in 1 .. n - m, NEW j \in 1 .. n - m, i < j
      PROVE  last[i].time < last[j].time
  <2>1. i \in Nat /\ j \in Nat
    BY <1>4
  <2>2. i + m < j + m
    BY <1>4, <1>8, <2>1
  <2>3. QED
    BY <1>1, <1>6, <2>2
<1>9. ASSUME NEW t \in F
      PROVE  \E i \in 1 .. n - m : last[i].time = t
  <2>1. PICK j \in 1 .. n : points[j].time = t
    BY <1>1
  <2>2. j > m
    BY <1>2, <1>4, <2>1
  <2>3. j - m \in 1 .. n - m /\ (j - m) + m = j
    BY <1>1, <1>4, <2>2
  <2>4. last[j - m] = points[j]
    BY <1>6, <2>3
  <2>5. QED
    BY <2>1, <2>3, <2>4
<1> DEFINE h == [i \in 1 .. n - m |-> points[i + m]]
           time == [i \in 1 .. n - m |-> last[i].time]
<1>10. last = [i \in 1 .. n - m |-> h[i]] /\ \A i \in 1 .. n - m : time[i] = last[i].time
  BY <1>5
<1>11. F \in SUBSET Nat
  OBVIOUS
<1> HIDE DEF F, h, time
<1>12. /\ \A i \in 1 .. n - m : time[i] \in F
       /\ \A i \in 1 .. n - m : last[i] = [time |-> time[i], quote |-> table[time[i]]]
       /\ \A i, j \in 1 .. n - m : i < j => time[i] < time[j]
       /\ \A t \in F : \E i \in 1 .. n - m : time[i] = t
  <2>1. \A i \in 1 .. n - m : time[i] = last[i].time
    BY <1>10
  <2>2. \A i \in 1 .. n - m : time[i] \in F
    BY <1>7, <2>1
  <2>3. ASSUME NEW i \in 1 .. n - m
        PROVE  last[i] = [time |-> time[i], quote |-> table[time[i]]]
    <3>1. time[i] = last[i].time
      BY <2>1
    <3>2. last[i] = [time |-> last[i].time, quote |-> table[last[i].time]]
      BY <1>7
    <3>3. QED
      BY <3>1, <3>2, Zenon
  <2>4. \A i, j \in 1 .. n - m : i < j => time[i] < time[j]
    BY <1>8, <2>1
  <2>5. \A t \in F : \E i \in 1 .. n - m : time[i] = t
    BY <1>9, <2>1
  <2>6. QED
    BY <2>2, <2>3, <2>4, <2>5
<1>13. PICK k \in Nat : k = n - m
  BY <1>4
<1>14. /\ \A i \in 1 .. k : time[i] = last[i].time
       /\ last = [i \in 1 .. k |-> h[i]]
       /\ \A i \in 1 .. k : time[i] \in F
       /\ \A i \in 1 .. k : last[i] = [time |-> time[i], quote |-> table[time[i]]]
       /\ \A i, j \in 1 .. k : i < j => time[i] < time[j]
       /\ \A t \in F : \E i \in 1 .. k : time[i] = t
  BY <1>10, <1>12, <1>13, Zenon
<1>15. ListsRows(last, table, F)
  <2>1. last = [i \in 1 .. k |-> last[i]]
    BY <1>14
  <2>2. RowsInOrder(last, time, k, table, F)
    BY <1>14, <2>1, Zenon DEF RowsInOrder
  <2>3. QED
    BY <1>11, <2>2, ListedByOrder
<1>16. Cardinality(F) = k
  BY <1>11, <1>14, EnumeratedInOrder
<1>17. QED
  BY <1>4, <1>13, <1>15, <1>16 DEF F, last, n

\* Points are those at some indices, in the order of these, and no others.
ArePointsAt(at, points, I) ==
    /\ DOMAIN at = 1 .. Cardinality(I) /\ Cardinality(I) \in Nat
    /\ at = [k \in 1 .. Cardinality(I) |-> points[InOrder(I)[k]]]
    /\ Lists(InOrder(I), I)
    /\ \A k \in DOMAIN at : InOrder(I)[k] \in I /\ at[k] = points[InOrder(I)[k]]
    /\ \A i \in I : \E k \in DOMAIN at : InOrder(I)[k] = i

\* PointsAt are.
LEMMA PointsAtIndices ==
    ASSUME NEW n \in Nat, NEW points, NEW I \in SUBSET (1 .. n)
    PROVE  ArePointsAt(PointsAt(points, I), points, I)
<1>1. IsFiniteSet(1 .. n)
  BY FS_Interval
<1>2. I \in SUBSET Nat
  OBVIOUS
<1>3. IsFiniteSet(I) /\ Cardinality(I) \in Nat
  BY <1>1, FS_Subset, FS_CardinalityType
<1>4. Lists(InOrder(I), I)
  BY <1>2, <1>3, InOrderLists
<1> DEFINE o == InOrder(I)
           at == PointsAt(points, I)
<1>5. at = [k \in DOMAIN o |-> points[o[k]]]
  BY DEF PointsAt
<1> HIDE DEF o, at
<1>6. /\ DOMAIN o = 1 .. Cardinality(I) /\ o \in [DOMAIN o -> I]
      /\ \A i \in I : \E k \in DOMAIN o : o[k] = i
  BY <1>3, <1>4 DEF Lists, o
<1>7. \A k \in DOMAIN o : o[k] \in I
  BY <1>6
<1>8. ArePointsAt(at, points, I)
  BY <1>3, <1>4, <1>5, <1>6, <1>7 DEF o, ArePointsAt
<1>9. QED
  BY <1>8 DEF at

\* The points of the days before now carry the rows of these days.
LEMMA EarlierAreCarried ==
    ASSUME NEW n \in Nat, NEW points, DOMAIN points = 1 .. n, NEW table, NEW T,
           Carries(points, table, T), NEW now
    PROVE  /\ Carries(EarlierDays(points, now), table, {t \in T : Day(t) < Day(now)})
           /\ \E k \in Nat : DOMAIN EarlierDays(points, now) = 1 .. k
<1> DEFINE E == {t \in T : Day(t) < Day(now)}
           earlier == EarlierDays(points, now)
           I == {i \in DOMAIN points : Day(points[i].time) < Day(now)}
<1>1. /\ \A i \in DOMAIN points :
             /\ points[i].time \in T
             /\ points[i] = [time |-> points[i].time, quote |-> table[points[i].time]]
      /\ \A t \in LastOfDays(T) : \E i \in DOMAIN points : points[i].time = t
  BY DEF Carries
<1>2. I \in SUBSET (1 .. n) /\ earlier = PointsAt(points, I)
  BY DEF EarlierDays
<1>3. \A i \in DOMAIN points : i \in I <=> Day(points[i].time) < Day(now)
  OBVIOUS
<1> HIDE DEF I, earlier
<1> DEFINE o == InOrder(I)
<1>4. /\ DOMAIN earlier = 1 .. Cardinality(I) /\ Cardinality(I) \in Nat
      /\ \A k \in DOMAIN earlier : o[k] \in I /\ earlier[k] = points[o[k]]
      /\ \A i \in I : \E k \in DOMAIN earlier : o[k] = i
  <2>1. ArePointsAt(earlier, points, I)
    BY <1>2, PointsAtIndices
  <2>2. QED
    BY <2>1 DEF ArePointsAt
<1> HIDE DEF o
<1>5. ASSUME NEW k \in DOMAIN earlier
      PROVE  /\ earlier[k].time \in E
             /\ earlier[k] = [time |-> earlier[k].time, quote |-> table[earlier[k].time]]
  <2>1. PICK i \in I : earlier[k] = points[i]
    BY <1>4
  <2>2. i \in DOMAIN points
    BY <1>2
  <2>3. points[i].time \in E
    BY <1>1, <1>3, <2>2
  <2>4. QED
    BY <1>1, <2>1, <2>2, <2>3
<1>6. ASSUME NEW t \in LastOfDays(E)
      PROVE  \E k \in DOMAIN earlier : earlier[k].time = t
  <2>1. t \in LastOfDays(T)
    BY DEF LastOfDays
  <2>2. PICK i \in DOMAIN points : points[i].time = t
    BY <1>1, <2>1
  <2>3. Day(t) < Day(now)
    BY DEF LastOfDays
  <2>4. PICK k \in DOMAIN earlier : o[k] = i
    BY <1>3, <1>4, <2>2, <2>3
  <2>5. earlier[k] = points[i]
    BY <1>4, <2>4
  <2>6. QED
    BY <2>2, <2>5
<1>7. Carries(earlier, table, E)
  BY <1>5, <1>6 DEF Carries
<1>8. QED
  BY <1>4, <1>7 DEF earlier

\* The times of the rows a figure is ranked among: of the last rows of the days before, the
\* latest Window.
RankedTimes(T, now) ==
    LET L == LastOfDays({t \in T : Day(t) < Day(now)})
    IN  {t \in L : Cardinality({u \in L : u > t}) < Window}

\* The points a figure is ranked among are these, whatever points carry the rows.
LEMMA RankedAreListed ==
    ASSUME NEW n \in Nat, NEW points, DOMAIN points = 1 .. n, NEW table,
           NEW T \in SUBSET Nat, IsFiniteSet(T), Carries(points, table, T), NEW now
    PROVE  ListsRows(RankedPoints(points, now), table, RankedTimes(T, now))
<1> DEFINE E == {t \in T : Day(t) < Day(now)}
           L == LastOfDays(E)
           earlier == EarlierDays(points, now)
           kept == ByDay(earlier, Newer)
<1>1. E \in SUBSET Nat /\ IsFiniteSet(E)
  BY FS_Subset
<1>2. Carries(earlier, table, E) /\ \E k \in Nat : DOMAIN earlier = 1 .. k
  BY EarlierAreCarried
<1>3. PICK k \in Nat : DOMAIN earlier = 1 .. k
  BY <1>2
<1> HIDE DEF E, earlier
<1>4. KeepsLast(earlier, kept)
  <2>1. \A i \in 1 .. k : earlier[i].time \in E
    BY <1>2, <1>3 DEF Carries
  <2>2. \A t \in E : t \in Nat
    BY <1>1
  <2>3. \A i \in 1 .. k : earlier[i].time \in Nat
    BY <2>1, <2>2
  <2>4. QED
    BY <1>3, <2>3, NewerKeepsLast
<1>5. L \in SUBSET Nat
  BY <1>1 DEF LastOfDays
<1> HIDE DEF kept
<1>6. ListsRows(Series(kept), table, L)
  BY <1>1, <1>2, <1>4, SeriesOfLastRows
<1> HIDE DEF L
<1>7. ListsRows(LastOf(Window, Series(kept)), table, {t \in L : Cardinality({u \in L : u > t}) < Window})
  BY <1>5, <1>6, LastListed, SeriesAssumption
<1>8. QED
  BY <1>7 DEF RankedPoints, RankedTimes, kept, earlier, L, E

\* The share of the figures of listed rows is a share of the rows.
LEMMA RankOfRows ==
    ASSUME NEW points, NEW table, NEW S, ListsRows(points, table, S), NEW current,
           NEW rank, rank = Rank([i \in DOMAIN points |-> points[i].quote.premium], current)
    PROVE  /\ S = {} => rank = None
           /\ S # {} => rank = [below |-> Cardinality({t \in S : table[t].premium <= current}),
                                size  |-> Cardinality(S)]
<1> DEFINE n == Cardinality(S)
           figures == [i \in DOMAIN points |-> points[i].quote.premium]
           B == {i \in DOMAIN figures : figures[i] <= current}
           C == {t \in S : table[t].premium <= current}
<1>1. /\ n \in Nat /\ DOMAIN points = 1 .. n
      /\ \A i \in 1 .. n : points[i].time \in S /\ points[i].quote = table[points[i].time]
      /\ \A i, j \in 1 .. n : i < j <=> points[i].time < points[j].time
      /\ \A t \in S : \E i \in 1 .. n : points[i].time = t
  BY ListedRows
<1>2. S = {} <=> n = 0
  BY <1>1
<1> HIDE DEF n
<1>3. /\ DOMAIN figures = 1 .. n
      /\ \A i \in 1 .. n : figures[i] = table[points[i].time].premium
      /\ figures = <<>> <=> n = 0
      /\ Len(figures) = n
  BY <1>1
<1>4. rank = IF figures = <<>> THEN None ELSE [below |-> Cardinality(B), size |-> Len(figures)]
  BY DEF Rank
<1> HIDE DEF figures
<1>5. Cardinality(C) = Cardinality(B)
  <2> DEFINE f == [i \in B |-> points[i].time]
  <2>1. IsFiniteSet(B)
    <3>1. IsFiniteSet(1 .. n)
      <4>1. 1 \in Int /\ n \in Int
        BY <1>1
      <4>2. QED
        BY <4>1, FS_Interval
    <3>2. B \in SUBSET (1 .. n)
      BY <1>3
    <3>3. QED
      BY <3>1, <3>2, FS_Subset
  <2>2. \A i \in B : f[i] \in C
    BY <1>1, <1>3
  <2>3. \A i, j \in B : f[i] = f[j] => i = j
    <3>1. SUFFICES ASSUME NEW i \in B, NEW j \in B, points[i].time = points[j].time
                   PROVE  i = j
      OBVIOUS
    <3>2. i \in 1 .. n /\ j \in 1 .. n
      BY <1>3
    <3>3. (i < j <=> points[i].time < points[i].time) /\ (j < i <=> points[i].time < points[i].time)
      BY <1>1, <3>1, <3>2
    <3>4. i < j <=> j < i
      BY <3>3, Zenon
    <3>5. i \in Nat /\ j \in Nat
      BY <1>1, <3>2
    <3>6. QED
      BY <3>4, <3>5
  <2>4. \A t \in C : \E i \in B : f[i] = t
    <3>1. SUFFICES ASSUME NEW t \in C
                   PROVE  \E i \in B : points[i].time = t
      OBVIOUS
    <3>2. PICK i \in 1 .. n : points[i].time = t
      BY <1>1
    <3>3. i \in B
      BY <1>3, <3>2
    <3>4. QED
      BY <3>2, <3>3
  <2> HIDE DEF f, B, C
  <2>5. QED
    BY <2>1, <2>2, <2>3, <2>4, SameCount
<1>6. QED
  BY <1>2, <1>3, <1>4, <1>5 DEF n

\* The histories of the snapshot list the last rows of the days.
LEMMA HistoryListed ==
    ASSUME NEW table, IsTable(table), NEW from \in Int
    PROVE  ListsRows(Series(ByDay(RowsSince(table, from), Newer)), table,
                     LastOfDays({t \in DOMAIN table : t >= from}))
<1> DEFINE T == {t \in DOMAIN table : t >= from}
           points == RowsSince(table, from)
<1>1. T \in SUBSET Nat /\ IsFiniteSet(T)
  BY FS_Subset DEF IsTable
<1>2. ListsRows(points, table, T)
  BY RowsListed
<1> HIDE DEF T, points
<1>3. LastOfDays(T) \subseteq T
  BY DEF LastOfDays
<1>4. Carries(points, table, T)
  BY <1>2, <1>3, ListedAreCarried
<1>5. KeepsLast(points, ByDay(points, Newer))
  <2>1. DOMAIN points = 1 .. Cardinality(T) /\ Cardinality(T) \in Nat
    BY <1>2 DEF ListsRows
  <2>2. \A i \in DOMAIN points : points[i].time \in T
    BY <1>2 DEF ListsRows
  <2>3. \A i \in 1 .. Cardinality(T) : points[i].time \in Nat
    BY <1>1, <2>1, <2>2
  <2>4. QED
    BY <2>1, <2>3, NewerKeepsLast
<1>6. ListsRows(Series(ByDay(points, Newer)), table, LastOfDays(T))
  BY <1>1, <1>4, <1>5, SeriesOfLastRows
<1>7. QED
  BY <1>6 DEF T, points

-----------------------------------------------------------------------------
(* Days that are counted *)

\* There are as many last rows as days.
LEMMA DaysCounted ==
    ASSUME NEW T \in SUBSET Nat, IsFiniteSet(T)
    PROVE  /\ IsFiniteSet({Day(t) : t \in T})
           /\ Cardinality({Day(t) : t \in T}) = Cardinality(LastOfDays(T))
<1> DEFINE L == LastOfDays(T)
           D == {Day(t) : t \in T}
           f == [t \in L |-> Day(t)]
<1>1. /\ L \in SUBSET T /\ IsFiniteSet(L)
      /\ \A t \in T : \E u \in L : Day(u) = Day(t) /\ t <= u
      /\ \A t, u \in L : Day(t) = Day(u) => t = u
  BY LastOfEveryDay
<1> HIDE DEF L
<1>2. \A t \in L : f[t] \in D
  BY <1>1
<1>3. \A t, u \in L : f[t] = f[u] => t = u
  BY <1>1
<1>4. \A d \in D : \E t \in L : f[t] = d
  BY <1>1
<1> HIDE DEF f, D
<1>5. IsFiniteSet(D) /\ Cardinality(D) = Cardinality(L)
  BY <1>1, <1>2, <1>3, <1>4, SameCount
<1>6. QED
  BY <1>5 DEF D, L

\* As many last rows come after one of them as there are later days.
LEMMA DaysAbove ==
    ASSUME NEW T \in SUBSET Nat, IsFiniteSet(T), NEW t \in LastOfDays(T)
    PROVE  Cardinality({u \in LastOfDays(T) : u > t}) =
               Cardinality({e \in {Day(s) : s \in T} : e > Day(t)})
<1> DEFINE L == LastOfDays(T)
           C == {Day(s) : s \in T}
           A == {u \in L : u > t}
           B == {e \in C : e > Day(t)}
           f == [u \in A |-> Day(u)]
<1>1. /\ L \in SUBSET T /\ IsFiniteSet(L)
      /\ \A s \in T : \E u \in L : Day(u) = Day(s) /\ s <= u
      /\ \A s, u \in L : Day(s) = Day(u) => s = u
  BY LastOfEveryDay
<1>2. t \in L
  OBVIOUS
<1> HIDE DEF L
<1>3. IsFiniteSet(A)
  BY <1>1, FS_Subset
<1>4. ASSUME NEW u \in L
      PROVE  (u > t <=> Day(u) > Day(t)) /\ Day(u) \in C
  <2>1. u \in Nat /\ t \in Nat /\ u \in T
    BY <1>1, <1>2
  <2>2. /\ Day(u) \in Nat /\ Day(t) \in Nat
        /\ Day(u) < Day(t) => u < t
        /\ Day(t) < Day(u) => t < u
    BY <2>1, DaysInOrder
  <2>3. Day(u) = Day(t) => u = t
    BY <1>1, <1>2
  <2>4. QED
    BY <2>1, <2>2, <2>3
<1>5. \A u \in A : f[u] \in B
  BY <1>4
<1>6. \A u, v \in A : f[u] = f[v] => u = v
  BY <1>1
<1>7. \A e \in B : \E u \in A : f[u] = e
  <2>1. SUFFICES ASSUME NEW e \in B
                 PROVE  \E u \in A : f[u] = e
    OBVIOUS
  <2>2. PICK s \in T : Day(s) = e
    OBVIOUS
  <2>3. PICK u \in L : Day(u) = e
    BY <1>1, <2>2
  <2>4. u \in A
    BY <1>4, <2>3
  <2>5. QED
    BY <2>3, <2>4
<1> HIDE DEF A, B, f
<1>8. Cardinality(B) = Cardinality(A)
  BY <1>3, <1>5, <1>6, <1>7, SameCount
<1>9. QED
  BY <1>8 DEF A, B, C, L

\* The days that are counted before now, of some times.
DaysBefore(T, now) == {Day(t) : t \in T} \cap 0 .. Day(now) - 1

\* They are those of the times of earlier days.
LEMMA DaysBeforeAre ==
    ASSUME NEW T \in SUBSET Nat, NEW now \in Nat
    PROVE  DaysBefore(T, now) = {Day(t) : t \in {u \in T : Day(u) < Day(now)}}
<1>1. \A t \in T : Day(t) \in Nat /\ (Day(t) \in 0 .. Day(now) - 1 <=> Day(t) < Day(now))
  <2>1. SUFFICES ASSUME NEW t \in T
                 PROVE  Day(t) \in Nat /\ (Day(t) \in 0 .. Day(now) - 1 <=> Day(t) < Day(now))
    OBVIOUS
  <2>2. Day(t) \in Nat /\ Day(now) \in Nat
    BY DaysInOrder
  <2>3. QED
    BY <2>2
<1>2. QED
  BY <1>1 DEF DaysBefore

\* What CompletedDays counts is at most Window.
LEMMA CompletedCount ==
    ASSUME NEW T \in SUBSET Nat, IsFiniteSet(T), NEW now \in Nat
    PROVE  /\ IsFiniteSet(DaysBefore(T, now)) /\ Cardinality(DaysBefore(T, now)) \in Nat
           /\ CompletedDays(T, now) = IF Cardinality(DaysBefore(T, now)) < Window
                                      THEN Cardinality(DaysBefore(T, now)) ELSE Window
           /\ CompletedDays(T, now) \in 0 .. Window
<1>1. IsFiniteSet({Day(t) : t \in T})
  BY DaysCounted
<1>2. DaysBefore(T, now) \in SUBSET {Day(t) : t \in T}
  BY DEF DaysBefore
<1>3. IsFiniteSet(DaysBefore(T, now)) /\ Cardinality(DaysBefore(T, now)) \in Nat
  BY <1>1, <1>2, FS_Subset, FS_CardinalityType
<1>4. CompletedDays(T, now) = IF Cardinality(DaysBefore(T, now)) < Window
                              THEN Cardinality(DaysBefore(T, now)) ELSE Window
  BY DEF CompletedDays, DaysBefore
<1>5. QED
  BY <1>3, <1>4, SeriesAssumption

\* It grows with the times of earlier days.
LEMMA CompletedGrows ==
    ASSUME NEW S \in SUBSET Nat, IsFiniteSet(S), NEW T \in SUBSET Nat, IsFiniteSet(T),
           NEW now \in Nat, \A t \in S : Day(t) < Day(now) => t \in T
    PROVE  CompletedDays(S, now) <= CompletedDays(T, now)
<1> DEFINE a == Cardinality(DaysBefore(S, now))
           b == Cardinality(DaysBefore(T, now))
<1>1. DaysBefore(S, now) \in SUBSET DaysBefore(T, now)
  <2>1. /\ DaysBefore(S, now) = {Day(t) : t \in {u \in S : Day(u) < Day(now)}}
        /\ DaysBefore(T, now) = {Day(t) : t \in {u \in T : Day(u) < Day(now)}}
    BY DaysBeforeAre
  <2>2. QED
    BY <2>1
<1>2. IsFiniteSet(DaysBefore(T, now)) /\ a \in Nat /\ b \in Nat
  BY CompletedCount
<1>3. a <= b
  BY <1>1, <1>2, FS_Subset
<1>4. /\ CompletedDays(S, now) = IF a < Window THEN a ELSE Window
      /\ CompletedDays(T, now) = IF b < Window THEN b ELSE Window
  BY CompletedCount
<1> HIDE DEF a, b
<1>5. QED
  BY <1>2, <1>3, <1>4, SeriesAssumption

\* As many points are ranked as completed days are counted.
LEMMA RankedCount ==
    ASSUME NEW T \in SUBSET Nat, IsFiniteSet(T), NEW now \in Nat
    PROVE  /\ Cardinality(RankedTimes(T, now)) = CompletedDays(T, now)
           /\ IsFiniteSet(RankedTimes(T, now)) /\ RankedTimes(T, now) \in SUBSET T
<1> DEFINE E == {t \in T : Day(t) < Day(now)}
           L == LastOfDays(E)
           F == {t \in L : Cardinality({u \in L : u > t}) < Window}
           table == [t \in L |-> t]
<1>1. E \in SUBSET Nat /\ IsFiniteSet(E)
  BY FS_Subset
<1>2. DaysBefore(T, now) = {Day(t) : t \in E}
  BY DaysBeforeAre
<1>3. RankedTimes(T, now) = F /\ L \in SUBSET T
  BY DEF RankedTimes, LastOfDays
<1> HIDE DEF E
<1>4. L \in SUBSET Nat /\ IsFiniteSet(L)
  BY <1>1, LastOfEveryDay
<1>5. Cardinality(DaysBefore(T, now)) = Cardinality(L)
  BY <1>1, <1>2, DaysCounted
<1> HIDE DEF L
<1>6. ListsRows(RowsSince(table, 0), table, L)
  <2>1. DOMAIN table = L /\ {t \in L : t >= 0} = L
    <3>1. \A t \in L : t \in Nat
      BY <1>4
    <3>2. \A t \in L : t >= 0
      BY <3>1
    <3>3. QED
      BY <3>2
  <2>2. IsTable(table)
    BY <1>4, <2>1 DEF IsTable
  <2> HIDE DEF table
  <2>3. QED
    BY <2>1, <2>2, RowsListed
<1>7. Cardinality(F) = IF Cardinality(L) > Window THEN Window ELSE Cardinality(L)
  BY <1>4, <1>6, LastListed, SeriesAssumption
<1>8. Cardinality(L) \in Nat
  BY <1>4, FS_CardinalityType
<1>9. CompletedDays(T, now) = IF Cardinality(L) < Window THEN Cardinality(L) ELSE Window
  BY <1>5, CompletedCount
<1>10. IsFiniteSet(F) /\ F \in SUBSET L
  BY <1>4, FS_Subset
<1> HIDE DEF F
<1>11. QED
  BY <1>3, <1>7, <1>8, <1>9, <1>10, SeriesAssumption

-----------------------------------------------------------------------------
(* The history of the API *)

\* A time at noon is noon of its day, and noon of a day is of that day.
LEMMA NoonOfDay ==
    /\ \A t \in Nat : t % DayTicks = NoonTick => t = Noon(Day(t))
    /\ \A d \in Nat : Noon(d) \in Nat /\ Day(Noon(d)) = d /\ Noon(d) % DayTicks = NoonTick
<1>1. DayTicks \in Nat \ {0} /\ NoonTick \in Nat /\ NoonTick < DayTicks
  BY SeriesAssumption
<1>2. ASSUME NEW t \in Nat, t % DayTicks = NoonTick
      PROVE  t = Noon(Day(t))
  <2>1. t = DayTicks * (t \div DayTicks) + (t % DayTicks)
    BY <1>1
  <2>2. t \div DayTicks \in Nat
    BY WholeDays
  <2>3. QED
    BY <1>1, <1>2, <2>1, <2>2 DEF Noon, Day
<1>3. ASSUME NEW d \in Nat
      PROVE  Noon(d) \in Nat /\ Day(Noon(d)) = d /\ Noon(d) % DayTicks = NoonTick
  <2> DEFINE t == Noon(d)
             e == t \div DayTicks
  <2>1. d * DayTicks \in Nat /\ t = d * DayTicks + NoonTick /\ t \in Nat
    BY <1>1 DEF Noon
  <2>2. e \in Nat /\ e * DayTicks <= t /\ t < (e + 1) * DayTicks
    BY <2>1, WholeDays
  <2>3. t = DayTicks * e + (t % DayTicks)
    BY <1>1, <2>1
  <2> HIDE DEF t, e
  <2>4. \A m \in Nat, k \in Nat : m <= k => m * DayTicks <= k * DayTicks
    BY <1>1
  <2>5. (d + 1) * DayTicks = d * DayTicks + DayTicks /\ (e + 1) * DayTicks = e * DayTicks + DayTicks
    BY <1>1, <2>2
  <2>6. e * DayTicks \in Nat /\ DayTicks * e = e * DayTicks
    BY <1>1, <2>2
  <2>7. ~ d + 1 <= e
    <3>1. d + 1 <= e => (d + 1) * DayTicks <= e * DayTicks
      BY <2>2, <2>4
    <3>2. QED
      BY <1>1, <2>1, <2>2, <2>5, <2>6, <3>1
  <2>8. ~ e + 1 <= d
    <3>1. e + 1 <= d => (e + 1) * DayTicks <= d * DayTicks
      BY <2>2, <2>4
    <3>2. QED
      BY <1>1, <2>1, <2>2, <2>5, <2>6, <3>1
  <2>9. e = d
    BY <2>2, <2>7, <2>8
  <2>10. t % DayTicks = NoonTick
    <3>1. t % DayTicks \in Nat
      BY <1>1, <2>1
    <3>2. QED
      BY <1>1, <2>1, <2>3, <2>6, <2>9, <3>1
  <2>11. QED
    BY <2>1, <2>9, <2>10 DEF Day, t, e
<1>4. QED
  BY <1>2, <1>3

\* The days on or after a midnight are the days of the times on or after it.
LEMMA DaysSince ==
    ASSUME NEW k \in Int, NEW t \in Nat
    PROVE  t >= k * DayTicks <=> Day(t) >= k
<1> DEFINE e == t \div DayTicks
<1>1. e \in Nat /\ e * DayTicks <= t /\ t < (e + 1) * DayTicks
  BY WholeDays
<1>2. DayTicks \in Nat \ {0}
  BY SeriesAssumption
<1> HIDE DEF e
<1>3. \A m \in Int, j \in Int : m <= j => m * DayTicks <= j * DayTicks
  BY <1>2
<1>4. k * DayTicks \in Int /\ e * DayTicks \in Int /\ (e + 1) * DayTicks \in Int
  BY <1>1, <1>2
<1>5. e >= k => e * DayTicks >= k * DayTicks
  BY <1>1, <1>3
<1>6. ~ e >= k => (e + 1) * DayTicks <= k * DayTicks
  <2>1. ~ e >= k => e + 1 <= k /\ e + 1 \in Int
    BY <1>1
  <2>2. QED
    BY <1>3, <2>1
<1>7. QED
  BY <1>1, <1>4, <1>5, <1>6 DEF Day, e

\* The rule by which the API picks a point of each day orders the points of a day.
LEMMA PicksOrderly ==
    ASSUME NEW n \in Nat, NEW points, DOMAIN points = 1 .. n,
           \A i \in 1 .. n : points[i].time \in Nat, NEW now,
           NEW R, \A i, j \in 1 .. n : <<i, j>> \in R <=> Picks(now, points[i], points[j])
    PROVE  Orderly(DaysOf(points), R)
<1> DEFINE day == DaysOf(points)
           B == {i \in 1 .. n : IsBackfill(points[i])}
<1>1. DOMAIN day = 1 .. n /\ \A i \in 1 .. n : day[i] = Day(points[i].time)
  BY DEF DaysOf
<1>2. \A i, j \in 1 .. n :
          <<i, j>> \in R <=>
              IF day[i] = Day(now) \/ (i \in B <=> j \in B) THEN points[i].time > points[j].time
              ELSE i \in B
  <2>1. SUFFICES ASSUME NEW i \in 1 .. n, NEW j \in 1 .. n
                 PROVE  <<i, j>> \in R <=>
                            IF day[i] = Day(now) \/ (i \in B <=> j \in B)
                            THEN points[i].time > points[j].time ELSE i \in B
    OBVIOUS
  <2>2. (i \in B <=> IsBackfill(points[i])) /\ (j \in B <=> IsBackfill(points[j]))
    OBVIOUS
  <2>3. <<i, j>> \in R <=> Picks(now, points[i], points[j])
    OBVIOUS
  <2>4. day[i] = Day(points[i].time)
    BY <1>1
  <2>5. IsBackfill(points[i]) \in BOOLEAN /\ IsBackfill(points[j]) \in BOOLEAN
    BY DEF IsBackfill
  <2>6. (IsBackfill(points[i]) = IsBackfill(points[j])) <=> (i \in B <=> j \in B)
    BY <2>2, <2>5
  <2> HIDE DEF day, B
  <2>7. QED
    BY <2>2, <2>3, <2>4, <2>6, Zenon DEF Picks, Newer
<1> HIDE DEF day, B
<1>3. SUFFICES ASSUME NEW i \in 1 .. n, NEW j \in 1 .. n, NEW k \in 1 .. n,
                      day[i] = day[j], day[j] = day[k]
               PROVE  /\ <<i, j>> \in R /\ <<j, k>> \in R => <<i, k>> \in R
                      /\ <<i, j>> \notin R /\ <<j, k>> \notin R => <<i, k>> \notin R
  BY <1>1 DEF Orderly, day
<1>4. points[i].time \in Nat /\ points[j].time \in Nat /\ points[k].time \in Nat
  OBVIOUS
<1>5. QED
  BY <1>2, <1>3, <1>4

\* Of each day the API keeps a point of that day: the one at noon on a past day that has one, else
\* the latest.
PicksNoonOrLast(points, now, kept) ==
    /\ DOMAIN kept = {Day(points[i].time) : i \in DOMAIN points}
    /\ \A d \in DOMAIN kept : \E i \in DOMAIN points :
           /\ kept[d] = points[i] /\ Day(points[i].time) = d
           /\ IF d # Day(now) /\ \E j \in DOMAIN points : points[j].time = Noon(d)
              THEN points[i].time = Noon(d)
              ELSE \A j \in DOMAIN points :
                       Day(points[j].time) = d => points[j].time <= points[i].time

\* The history of the API keeps the row at noon of a past day, if there is one, else the last.
LEMMA PickedAreNoonOrLast ==
    ASSUME NEW n \in Nat, NEW points, DOMAIN points = 1 .. n,
           \A i \in 1 .. n : points[i].time \in Nat, NEW now
    PROVE  PicksNoonOrLast(points, now, PickDailyHistory(points, now))
<1> DEFINE R == {p \in (1 .. n) \X (1 .. n) : Picks(now, points[p[1]], points[p[2]])}
           kept == PickDailyHistory(points, now)
<1>1. \A i, j \in 1 .. n : <<i, j>> \in R <=> Picks(now, points[i], points[j])
  OBVIOUS
<1> HIDE DEF R
<1>2. Orderly(DaysOf(points), R)
  BY <1>1, PicksOrderly
<1>3. HoldsStanding(points, R, kept)
  BY <1>1, <1>2, ByDayPicks
<1> HIDE DEF kept
<1>4. DOMAIN kept = {Day(points[i].time) : i \in DOMAIN points}
  BY <1>3 DEF HoldsStanding
<1>5. ASSUME NEW d \in DOMAIN kept
      PROVE  \E i \in DOMAIN points :
                 /\ kept[d] = points[i] /\ Day(points[i].time) = d
                 /\ IF d # Day(now) /\ \E j \in DOMAIN points : points[j].time = Noon(d)
                    THEN points[i].time = Noon(d)
                    ELSE \A j \in DOMAIN points :
                             Day(points[j].time) = d => points[j].time <= points[i].time
  <2>1. PICK i \in 1 .. n : Stands(DaysOf(points), R, 1 .. n, d, i) /\ kept[d] = points[i]
    BY <1>3 DEF HoldsStanding
  <2>2. Day(points[i].time) = d /\ points[i].time \in Nat
    BY <2>1 DEF Stands, DaysOf
  <2>3. d \in Nat /\ Noon(d) \in Nat /\ Day(Noon(d)) = d /\ Noon(d) % DayTicks = NoonTick
    <3>1. d \in Nat
      BY <2>2, DaysInOrder
    <3>2. QED
      BY <3>1, NoonOfDay
  <2>4. \A j \in 1 .. n : Day(points[j].time) = d =>
            /\ j < i => Picks(now, points[i], points[j])
            /\ j > i => ~ Picks(now, points[j], points[i])
    BY <1>1, <2>1 DEF Stands, DaysOf
  <2>5. \A j \in 1 .. n : Day(points[j].time) = d => (IsBackfill(points[j]) <=> points[j].time = Noon(d))
    BY <2>3, NoonOfDay DEF IsBackfill
  <2>6. CASE d # Day(now) /\ \E j \in 1 .. n : points[j].time = Noon(d)
    <3>1. PICK j \in 1 .. n : points[j].time = Noon(d)
      BY <2>6
    <3>2. Day(points[j].time) = d /\ IsBackfill(points[j]) = TRUE
      BY <2>3, <3>1 DEF IsBackfill
    <3>3. IsBackfill(points[i]) = TRUE \/ IsBackfill(points[i]) = FALSE
      BY DEF IsBackfill
    <3>4. ASSUME IsBackfill(points[i]) = FALSE
          PROVE  FALSE
      <4>1. ~ Picks(now, points[i], points[j]) /\ Picks(now, points[j], points[i])
        BY <2>2, <2>6, <3>2, <3>4 DEF Picks
      <4>2. i # j
        BY <3>2, <3>4
      <4>3. QED
        BY <2>4, <3>2, <4>1, <4>2
    <3>5. IsBackfill(points[i]) = TRUE
      BY <3>3, <3>4
    <3>6. points[i].time = Noon(d)
      BY <2>2, <2>5, <3>5
    <3>7. QED
      BY <2>1, <2>2, <2>6, <3>6
  <2>7. CASE ~ (d # Day(now) /\ \E j \in 1 .. n : points[j].time = Noon(d))
    <3>1. ASSUME NEW j \in 1 .. n, Day(points[j].time) = d
          PROVE  points[j].time <= points[i].time
      <4>1. points[j].time \in Nat
        OBVIOUS
      <4>2. d = Day(now) \/ IsBackfill(points[i]) = IsBackfill(points[j])
        <5>1. d # Day(now) => ~ IsBackfill(points[i]) /\ ~ IsBackfill(points[j])
          BY <2>2, <2>5, <2>7, <3>1
        <5>2. IsBackfill(points[i]) \in BOOLEAN /\ IsBackfill(points[j]) \in BOOLEAN
          BY DEF IsBackfill
        <5>3. QED
          BY <5>1, <5>2
      <4>3. /\ Picks(now, points[i], points[j]) <=> points[i].time > points[j].time
            /\ Picks(now, points[j], points[i]) <=> points[j].time > points[i].time
        BY <2>2, <3>1, <4>2, Zenon DEF Picks, Newer
      <4>4. (j < i => points[i].time > points[j].time) /\ (j > i => ~ points[j].time > points[i].time)
        BY <2>4, <3>1, <4>3
      <4>5. CASE i = j
        BY <4>1, <4>5
      <4>6. CASE i # j
        BY <2>2, <4>1, <4>4, <4>6
      <4>7. QED
        BY <4>5, <4>6
    <3>2. QED
      BY <2>1, <2>2, <2>7, <3>1
  <2>8. QED
    BY <2>6, <2>7
<1>6. PicksNoonOrLast(points, now, kept)
  BY <1>4, <1>5, Zenon DEF PicksNoonOrLast
<1>7. QED
  BY <1>6 DEF kept

\* No more than the number asked for, a list stays as it is.
LEMMA ShortListStays ==
    ASSUME NEW s, NEW m \in Nat, DOMAIN s = 1 .. m, s = [i \in 1 .. m |-> s[i]], NEW w \in Nat, m <= w
    PROVE  Len(s) = m /\ LastOf(w, s) = s
<1>1. s \in Seq(Range(s)) /\ Len(s) = m
  <2>1. s \in [1 .. m -> Range(s)]
    BY DEF Range
  <2>2. QED
    BY <2>1
<1>2. LastOf(w, s) = SubSeq(s, 1, m)
  BY <1>1 DEF LastOf
<1>3. SubSeq(s, 1, m) = s
  BY <1>1
<1>4. QED
  BY <1>1, <1>2, <1>3

\* What the histories of the snapshot and of the API have in common.
HistoriesMatch(table, now, days) ==
    LET snapshot == SnapshotHistory(table, now, days)
        api      == ApiHistory(table, now, days)
    IN  /\ Len(api) = Len(snapshot)
        /\ \A i \in DOMAIN api :
            IF Day(api[i].time) # Day(now) /\ Noon(Day(api[i].time)) \in DOMAIN table
            THEN api[i].time = Noon(Day(api[i].time)) /\ Day(api[i].time) = Day(snapshot[i].time)
            ELSE api[i] = snapshot[i]

\* Over a table without later days, both have the same days, and the same row of each but of the
\* past days with a row at noon.
LEMMA HistoriesOfTable ==
    ASSUME NEW table, IsTable(table), NEW now \in Nat, NEW days \in Nat \ {0},
           \A t \in DOMAIN table : Day(t) <= Day(now)
    PROVE  HistoriesMatch(table, now, days)
<1> DEFINE k == Day(now) - (days - 1)
           F == {t \in DOMAIN table : t >= k * DayTicks}
           points == RowsSince(table, k * DayTicks)
           latest == ByDay(points, Newer)
           picked == PickDailyHistory(points, now)
           D == {Day(t) : t \in F}
           o == InOrder(D)
           snapshot == SnapshotHistory(table, now, days)
           api == ApiHistory(table, now, days)
<1>1. k \in Int /\ k * DayTicks \in Int /\ Day(now) \in Nat
  <2>1. Day(now) \in Nat
    BY WholeDays DEF Day
  <2>2. k \in Int
    BY <2>1
  <2> HIDE DEF k
  <2>3. QED
    BY <2>1, <2>2, SeriesAssumption
<1>2. snapshot = Series(latest) /\ api = LastOf(days, Series(picked))
  BY DEF SnapshotHistory, ApiHistory, RangeStart
<1>3. ListsRows(points, table, F)
  BY <1>1, RowsListed
<1>4. F \in SUBSET DOMAIN table /\ F \in SUBSET Nat /\ IsFiniteSet(F)
  BY FS_Subset DEF IsTable
<1>5. \A t \in F : Day(t) \in k .. Day(now) /\ Day(t) \in Nat
  <2>1. SUFFICES ASSUME NEW t \in F
                 PROVE  Day(t) \in k .. Day(now) /\ Day(t) \in Nat
    OBVIOUS
  <2>2. t \in Nat /\ t \in DOMAIN table /\ t >= k * DayTicks
    BY <1>4
  <2>3. Day(t) \in Nat /\ Day(t) <= Day(now)
    BY <2>2, DaysInOrder
  <2>4. Day(t) >= k
    BY <1>1, <2>2, DaysSince
  <2>5. QED
    BY <1>1, <2>3, <2>4
<1>6. ASSUME NEW t \in F, Noon(Day(t)) \in DOMAIN table
      PROVE  Noon(Day(t)) \in F
  <2>1. Day(t) \in Nat /\ Day(t) >= k
    BY <1>1, <1>5
  <2>2. Noon(Day(t)) \in Nat /\ Day(Noon(Day(t))) = Day(t)
    BY <2>1, NoonOfDay
  <2>3. Noon(Day(t)) >= k * DayTicks
    BY <1>1, <2>1, <2>2, DaysSince
  <2>4. QED
    BY <1>6, <2>3
<1>7. D \in SUBSET Nat /\ IsFiniteSet(D) /\ Cardinality(D) \in Nat /\ Cardinality(D) <= days
  <2>1. D \subseteq k .. Day(now)
    BY <1>5
  <2>2. IsFiniteSet(k .. Day(now)) /\ Cardinality(k .. Day(now)) = days
    <3>1. Day(now) \in Int /\ k <= Day(now) /\ (Day(now) - k) + 1 = days
      BY <1>1
    <3> HIDE DEF k
    <3>2. QED
      BY <1>1, <3>1, FS_Interval
  <2> HIDE DEF D, k
  <2>3. IsFiniteSet(D) /\ Cardinality(D) <= days /\ Cardinality(D) \in Nat
    BY <2>1, <2>2, FS_Subset, FS_CardinalityType
  <2>4. \A d \in D : d \in Nat
    BY <1>5 DEF D
  <2>5. QED
    BY <2>3, <2>4
<1> HIDE DEF k
<1>8. /\ DOMAIN points = 1 .. Cardinality(F) /\ Cardinality(F) \in Nat
      /\ \A i \in DOMAIN points :
            /\ points[i] = [time |-> points[i].time, quote |-> table[points[i].time]]
            /\ points[i].time \in F
      /\ \A t \in F : \E i \in DOMAIN points : points[i].time = t
  BY <1>3 DEF ListsRows
<1> HIDE DEF F, points
<1>9. \A i \in 1 .. Cardinality(F) : points[i].time \in Nat
  BY <1>4, <1>8
<1>10. KeepsLast(points, latest) /\ PicksNoonOrLast(points, now, picked)
  BY <1>8, <1>9, NewerKeepsLast, PickedAreNoonOrLast
<1> HIDE DEF latest, picked
<1>11. DOMAIN latest = D /\ DOMAIN picked = D
  <2>1. D = {Day(points[i].time) : i \in DOMAIN points}
    BY <1>8
  <2>2. QED
    BY <1>10, <2>1 DEF KeepsLast, PicksNoonOrLast
<1>12. Lists(o, D)
  BY <1>7, InOrderLists
<1> HIDE DEF o, D
<1> DEFINE m == Cardinality(D)
<1>13. DOMAIN o = 1 .. m /\ \A i \in 1 .. m : o[i] \in D
  BY <1>12 DEF Lists
<1>14. Series(latest) = [i \in 1 .. m |-> latest[o[i]]] /\ Series(picked) = [i \in 1 .. m |-> picked[o[i]]]
  BY <1>11, <1>13 DEF Series, o
<1>15. /\ DOMAIN snapshot = 1 .. m /\ Len(snapshot) = m /\ DOMAIN api = 1 .. m /\ Len(api) = m
       /\ \A i \in 1 .. m : snapshot[i] = latest[o[i]] /\ api[i] = picked[o[i]]
  <2>1. \A s : s = Series(latest) \/ s = Series(picked) =>
            DOMAIN s = 1 .. m /\ s = [i \in 1 .. m |-> s[i]]
    BY <1>14
  <2> HIDE DEF m
  <2>2. m \in Nat /\ m <= days /\ days \in Nat
    BY <1>7 DEF m
  <2>3. Len(Series(latest)) = m
    BY <2>1, <2>2, ShortListStays
  <2>4. Len(Series(picked)) = m /\ api = Series(picked)
    BY <1>2, <2>1, <2>2, ShortListStays
  <2>5. QED
    BY <1>2, <1>14, <2>3, <2>4
<1> HIDE DEF m, snapshot, api
<1>16. ASSUME NEW i \in 1 .. m
       PROVE  IF Day(api[i].time) # Day(now) /\ Noon(Day(api[i].time)) \in DOMAIN table
              THEN api[i].time = Noon(Day(api[i].time)) /\ Day(api[i].time) = Day(snapshot[i].time)
              ELSE api[i] = snapshot[i]
  <2> DEFINE d == o[i]
  <2>1. d \in D
    BY <1>13
  <2>2. PICK a \in DOMAIN points :
            /\ latest[d] = points[a] /\ Day(points[a].time) = d
            /\ \A j \in DOMAIN points : Day(points[j].time) = d => points[j].time <= points[a].time
    BY <1>10, <1>11, <2>1 DEF KeepsLast
  <2>3. PICK b \in DOMAIN points :
            /\ picked[d] = points[b] /\ Day(points[b].time) = d
            /\ IF d # Day(now) /\ \E j \in DOMAIN points : points[j].time = Noon(d)
               THEN points[b].time = Noon(d)
               ELSE \A j \in DOMAIN points :
                        Day(points[j].time) = d => points[j].time <= points[b].time
    BY <1>10, <1>11, <2>1 DEF PicksNoonOrLast
  <2>4. snapshot[i] = points[a] /\ api[i] = points[b]
    BY <1>15, <2>2, <2>3
  <2>5. points[a].time \in Nat /\ points[b].time \in Nat
    BY <1>8, <1>9
  <2>6. CASE d # Day(now) /\ Noon(d) \in DOMAIN table
    <3>1. points[b].time \in F
      BY <1>8
    <3>2. Noon(d) \in F
      BY <1>6, <2>3, <2>6, <3>1
    <3>3. \E j \in DOMAIN points : points[j].time = Noon(d)
      BY <1>8, <3>2
    <3>4. points[b].time = Noon(d)
      BY <2>3, <2>6, <3>3
    <3>5. QED
      BY <2>2, <2>3, <2>4, <2>6, <3>4
  <2>7. CASE ~ (d # Day(now) /\ Noon(d) \in DOMAIN table)
    <3>1. d # Day(now) => ~ \E j \in DOMAIN points : points[j].time = Noon(d)
      BY <1>4, <1>8, <2>7
    <3>2. points[a].time <= points[b].time /\ points[b].time <= points[a].time
      BY <2>2, <2>3, <3>1
    <3>3. points[a].time = points[b].time
      BY <2>5, <3>2
    <3>4. points[a] = points[b]
      BY <1>8, <3>3
    <3>5. QED
      BY <2>3, <2>4, <2>7, <3>4
  <2>8. QED
    BY <2>6, <2>7
<1>17. QED
  BY <1>15, <1>16 DEF HistoriesMatch, snapshot, api

-----------------------------------------------------------------------------
(* The replay *)

\* The points of a list with times of a set are a list of the rows at these times.
LEMMA FilteredListed ==
    ASSUME NEW points, NEW table, NEW S \in SUBSET Nat, ListsRows(points, table, S), NEW P \in SUBSET S
    PROVE  ListsRows(PointsAt(points, {i \in DOMAIN points : points[i].time \in P}), table, P)
<1> DEFINE n == Cardinality(S)
           I == {i \in DOMAIN points : points[i].time \in P}
           at == PointsAt(points, I)
           o == InOrder(I)
           k == Cardinality(I)
<1>1. /\ n \in Nat /\ DOMAIN points = 1 .. n
      /\ \A i \in 1 .. n : /\ points[i].time \in S
                           /\ points[i] = [time |-> points[i].time, quote |-> table[points[i].time]]
      /\ \A i, j \in 1 .. n : i < j <=> points[i].time < points[j].time
      /\ \A t \in S : \E i \in 1 .. n : points[i].time = t
  BY DEF ListsRows
<1>2. /\ I \in SUBSET (1 .. n)
      /\ \A i \in I : points[i].time \in P
      /\ \A i \in 1 .. n : points[i].time \in P => i \in I
  BY <1>1
<1> HIDE DEF n, I
<1>3. ArePointsAt(at, points, I)
  BY <1>1, <1>2, PointsAtIndices
<1>4. /\ k \in Nat /\ at = [j \in 1 .. k |-> points[o[j]]] /\ Lists(o, I)
      /\ DOMAIN o = 1 .. k
      /\ \A j \in 1 .. k : o[j] \in I /\ at[j] = points[o[j]]
      /\ \A i \in I : \E j \in 1 .. k : o[j] = i
  BY <1>3 DEF ArePointsAt, Lists
<1> HIDE DEF at, o, k
<1> DEFINE time == [j \in 1 .. k |-> points[o[j]].time]
<1>5. \A j \in 1 .. k : time[j] = points[o[j]].time /\ time[j] = at[j].time
  BY <1>4
<1> HIDE DEF time
<1>6. \A j \in 1 .. k : time[j] \in P /\ at[j] = [time |-> time[j], quote |-> table[time[j]]]
  <2>1. SUFFICES ASSUME NEW j \in 1 .. k
                 PROVE  time[j] \in P /\ at[j] = [time |-> time[j], quote |-> table[time[j]]]
    OBVIOUS
  <2>2. o[j] \in I /\ o[j] \in 1 .. n
    BY <1>2, <1>4
  <2>3. QED
    BY <1>1, <1>2, <1>4, <1>5, <2>2
<1>7. \A i, j \in 1 .. k : i < j => time[i] < time[j]
  <2>1. SUFFICES ASSUME NEW i \in 1 .. k, NEW j \in 1 .. k, i < j
                 PROVE  time[i] < time[j]
    OBVIOUS
  <2>2. o[i] < o[j]
    BY <1>4, <2>1 DEF Lists
  <2>3. o[i] \in 1 .. n /\ o[j] \in 1 .. n
    BY <1>2, <1>4
  <2>4. QED
    BY <1>1, <1>5, <2>2, <2>3
<1>8. \A t \in P : \E j \in 1 .. k : time[j] = t
  <2>1. SUFFICES ASSUME NEW t \in P
                 PROVE  \E j \in 1 .. k : time[j] = t
    OBVIOUS
  <2>2. PICK i \in 1 .. n : points[i].time = t
    BY <1>1
  <2>3. PICK j \in 1 .. k : o[j] = i
    BY <1>2, <1>4, <2>2
  <2>4. QED
    BY <1>5, <2>2, <2>3
<1>9. P \in SUBSET Nat
  OBVIOUS
<1>10. ListsRows(at, table, P)
  <2>1. k \in Nat
    BY <1>4
  <2>2. \A j \in 1 .. k : time[j] = at[j].time
    BY <1>5
  <2>3. \A j \in 1 .. k : time[j] \in P
    BY <1>6
  <2>4. \A j \in 1 .. k : at[j] = [time |-> time[j], quote |-> table[time[j]]]
    BY <1>6
  <2>5. at = [j \in 1 .. k |-> at[j]]
    BY <1>4
  <2>6. RowsInOrder(at, time, k, table, P)
    BY <1>7, <1>8, <2>2, <2>3, <2>4, <2>5, Zenon DEF RowsInOrder
  <2>7. QED
    BY <1>9, <2>1, <2>6, ListedByOrder
<1>11. QED
  BY <1>10 DEF at, I

\* The rows before a time.
LEMMA EarlierRowsListed ==
    ASSUME NEW table, IsTable(table), NEW now \in Nat
    PROVE  ListsRows(EarlierRows(table, now), table, {t \in DOMAIN table : t < now})
<1> DEFINE T == DOMAIN table
           rows == RowsSince(table, 0)
           P == {t \in T : t < now}
<1>1. T \in SUBSET Nat
  BY DEF IsTable
<1>2. {t \in T : t >= 0} = T
  <2>1. \A t \in T : t \in Nat
    BY <1>1
  <2>2. \A t \in T : t >= 0
    BY <2>1
  <2>3. QED
    BY <2>2
<1>3. ListsRows(rows, table, T)
  BY <1>2, RowsListed
<1> HIDE DEF T, rows
<1>4. ListsRows(PointsAt(rows, {i \in DOMAIN rows : rows[i].time \in P}), table, P)
  BY <1>1, <1>3, FilteredListed
<1>5. {i \in DOMAIN rows : rows[i].time \in P} = {i \in DOMAIN rows : rows[i].time < now}
  BY <1>3 DEF ListsRows
<1>6. QED
  BY <1>4, <1>5 DEF EarlierRows, rows, T

\* The replay ranks a row among all rows before it that are no older than the window.
LEMMA ReplayRanks ==
    ASSUME NEW table, IsTable(table), NEW now \in Nat, NEW S,
           S = {t \in DOMAIN table : t < now /\ t >= now - Window * DayTicks}
    PROVE  /\ S = {} => ReplayPercentile(table, now) = None
           /\ S # {} => ReplayPercentile(table, now) =
                  [below |-> Cardinality({t \in S : table[t].premium <= table[now].premium}),
                   size  |-> Cardinality(S)]
<1> DEFINE E == {t \in DOMAIN table : t < now}
           rows == EarlierRows(table, now)
           recent == PointsAt(rows, {i \in DOMAIN rows : rows[i].time >= now - Window * DayTicks})
           rank == ReplayPercentile(table, now)
<1>1. ListsRows(rows, table, E)
  BY EarlierRowsListed
<1>2. E \in SUBSET Nat /\ S \in SUBSET E
  BY DEF IsTable
<1>3. rank = Rank([i \in DOMAIN recent |-> recent[i].quote.premium], table[now].premium)
  BY DEF ReplayPercentile
<1>4. \A t \in E : t \in S <=> t >= now - Window * DayTicks
  OBVIOUS
<1> HIDE DEF E, rows
<1>5. ListsRows(PointsAt(rows, {i \in DOMAIN rows : rows[i].time \in S}), table, S)
  BY <1>1, <1>2, FilteredListed
<1>6. {i \in DOMAIN rows : rows[i].time \in S} =
          {i \in DOMAIN rows : rows[i].time >= now - Window * DayTicks}
  BY <1>1, <1>4 DEF ListsRows
<1>7. ListsRows(recent, table, S)
  BY <1>5, <1>6
<1> HIDE DEF recent, rank
<1>8. /\ S = {} => rank = None
      /\ S # {} => rank = [below |-> Cardinality({t \in S : table[t].premium <= table[now].premium}),
                           size  |-> Cardinality(S)]
  BY <1>3, <1>7, RankOfRows
<1>9. QED
  BY <1>8 DEF rank

\* The first and the last row of a list are the oldest and the newest.
LEMMA EndsOfList ==
    ASSUME NEW points, NEW table, NEW S \in SUBSET Nat, ListsRows(points, table, S), S # {}
    PROVE  /\ points # <<>> /\ Len(points) \in DOMAIN points /\ 1 \in DOMAIN points
           /\ Last(points) = points[Len(points)]
           /\ Last(points).time = Max(S) /\ points[1].time = Min(S)
           /\ Max(S) \in S /\ Min(S) \in S /\ \A t \in S : t <= Max(S)
<1> DEFINE n == Cardinality(S)
<1>1. /\ n \in Nat /\ DOMAIN points = 1 .. n /\ Len(points) = n
      /\ \A i \in 1 .. n : points[i].time \in S
      /\ \A i, j \in 1 .. n : i < j <=> points[i].time < points[j].time
      /\ \A t \in S : \E i \in 1 .. n : points[i].time = t
  BY DEF ListsRows
<1> HIDE DEF n
<1>2. n >= 1 /\ n \in 1 .. n /\ 1 \in 1 .. n
  <2>1. PICK t \in S : TRUE
    OBVIOUS
  <2>2. PICK i \in 1 .. n : points[i].time = t
    BY <1>1, <2>1
  <2>3. QED
    BY <1>1, <2>2
<1>3. \A t \in S : t <= points[n].time /\ points[1].time <= t
  <2>1. SUFFICES ASSUME NEW t \in S
                 PROVE  t <= points[n].time /\ points[1].time <= t
    OBVIOUS
  <2>2. PICK i \in 1 .. n : points[i].time = t
    BY <1>1
  <2>3. points[n].time \in Nat /\ points[1].time \in Nat /\ t \in Nat
    BY <1>1, <1>2
  <2>4. i = n \/ i < n
    BY <1>1
  <2>5. i = 1 \/ 1 < i
    BY <1>1
  <2>6. t <= points[n].time
    BY <1>1, <1>2, <2>2, <2>3, <2>4
  <2>7. points[1].time <= t
    BY <1>1, <1>2, <2>2, <2>3, <2>5
  <2>8. QED
    BY <2>6, <2>7
<1>4. points[n].time \in S /\ points[1].time \in S /\ points[n].time \in Nat /\ points[1].time \in Nat
  BY <1>1, <1>2
<1>5. Max(S) \in S /\ \A t \in S : t <= Max(S)
  BY <1>3, <1>4, GreatestMember
<1>6. Min(S) \in S /\ \A t \in S : Min(S) <= t
  BY LeastMember
<1>7. points[n].time = Max(S) /\ points[1].time = Min(S)
  <2>1. Max(S) \in Nat /\ Min(S) \in Nat
    BY <1>5, <1>6
  <2>2. QED
    BY <1>3, <1>4, <1>5, <1>6, <2>1
<1>8. points # <<>>
  BY <1>1, <1>2
<1>9. Last(points) = points[n]
  BY <1>1 DEF Last
<1>10. QED
  BY <1>1, <1>2, <1>5, <1>6, <1>7, <1>8, <1>9

\* A row that is not before now is no reference of a momentum.
LEMMA MomentumOfEarlier ==
    ASSUME NEW T \in SUBSET Nat, NEW days \in Nat \ {0}, NEW now \in Nat
    PROVE  Momentum(T, days, now) = Momentum({t \in T : t < now}, days, now)
<1> DEFINE E == {t \in T : t < now}
<1>1. days * DayTicks \in Nat \ {0}
  BY SeriesAssumption
<1> DEFINE span == days * DayTicks
<1> HIDE DEF span
<1>2. {t \in T : t <= now - span} = {t \in E : t <= now - span}
  <2>1. \A t \in T : t \in Nat
    OBVIOUS
  <2>2. \A t \in T : t <= now - span => t < now
    BY <1>1, <2>1 DEF span
  <2>3. QED
    BY <2>2
<1>3. E = {t \in E : t < now}
  OBVIOUS
<1>4. Reference(T, days, now) = Reference(E, days, now)
  BY <1>2, <1>3 DEF Reference, span
<1>5. QED
  BY <1>4 DEF Momentum

\* The replay finds the reference that the pipeline finds among the same times.
LEMMA ReplayFindsMomentum ==
    ASSUME NEW table, IsTable(table), NEW days \in Nat \ {0}, NEW now \in Nat, NEW E,
           E = {t \in DOMAIN table : t < now}
    PROVE  ReplayMomentum(table, days, now) = Momentum(E, days, now)
<1> DEFINE rows == EarlierRows(table, now)
           old == PointsAt(rows, {i \in DOMAIN rows : rows[i].time <= now - days * DayTicks})
           O == {t \in E : t <= now - days * DayTicks}
           reference == IF old # <<>> THEN Last(old).time ELSE rows[1].time
<1>1. E \in SUBSET Nat /\ O \in SUBSET E
  BY DEF IsTable
<1>2. ListsRows(rows, table, E)
  BY EarlierRowsListed
<1>3. ReplayMomentum(table, days, now) =
          IF rows = <<>> \/ now - reference < DayTicks THEN None
          ELSE [days |-> (now - reference) \div DayTicks, since |-> reference]
  BY DEF ReplayMomentum
<1>4. \A t \in E : t \in O <=> t <= now - days * DayTicks
  OBVIOUS
<1>5. Reference(E, days, now) = IF O # {} THEN Max(O) ELSE IF E # {} THEN Min(E) ELSE None
  <2>1. {t \in E : t < now} = E
    OBVIOUS
  <2>2. QED
    BY <2>1 DEF Reference
<1> HIDE DEF rows, O
<1>6. ListsRows(PointsAt(rows, {i \in DOMAIN rows : rows[i].time \in O}), table, O)
  BY <1>1, <1>2, FilteredListed
<1>7. {i \in DOMAIN rows : rows[i].time \in O} = {i \in DOMAIN rows : rows[i].time <= now - days * DayTicks}
  BY <1>2, <1>4 DEF ListsRows
<1>8. ListsRows(old, table, O)
  BY <1>6, <1>7
<1> HIDE DEF old
<1>9. \A points, S : ListsRows(points, table, S) /\ S = {} => points = <<>>
  <2>1. SUFFICES ASSUME NEW points, ListsRows(points, table, {})
                 PROVE  points = <<>>
    OBVIOUS
  <2>2. points \in Seq(Range(points)) /\ Len(points) = 0
    BY <2>1, FS_EmptySet DEF ListsRows
  <2>3. QED
    BY <2>2
<1>10. CASE E = {}
  <2>1. rows = <<>>
    BY <1>2, <1>9, <1>10
  <2>2. O = {}
    BY <1>1, <1>10
  <2>3. Momentum(E, days, now) = None
    BY <1>5, <1>10, <2>2 DEF Momentum
  <2>4. QED
    BY <1>3, <2>1, <2>3
<1>11. CASE E # {}
  <2>1. rows # <<>> /\ rows[1].time = Min(E) /\ Min(E) \in Nat
    BY <1>1, <1>2, <1>11, EndsOfList
  <2>2. CASE O = {}
    <3>1. old = <<>>
      BY <1>8, <1>9, <2>2
    <3>2. reference = Min(E) /\ Reference(E, days, now) = Min(E)
      BY <1>5, <1>11, <2>1, <2>2, <3>1
    <3>3. Reference(E, days, now) # None
      BY <2>1, <3>2, SeriesAssumption
    <3> HIDE DEF reference
    <3>4. QED
      BY <1>3, <2>1, <3>2, <3>3 DEF Momentum
  <2>3. CASE O # {}
    <3>1. old # <<>> /\ Last(old).time = Max(O) /\ Max(O) \in Nat
      BY <1>1, <1>8, <2>3, EndsOfList
    <3>2. reference = Max(O) /\ Reference(E, days, now) = Max(O)
      BY <1>5, <2>3, <3>1
    <3>3. Reference(E, days, now) # None
      BY <3>1, <3>2, SeriesAssumption
    <3> HIDE DEF reference
    <3>4. QED
      BY <1>3, <2>1, <3>2, <3>3 DEF Momentum
  <2>4. QED
    BY <2>2, <2>3
<1>12. QED
  BY <1>10, <1>11

\* Where each day has one row and none is older than the window, every row of an earlier day is
\* ranked.
LEMMA AllAreRanked ==
    ASSUME NEW T \in SUBSET Nat, IsFiniteSet(T), NEW now \in Nat,
           \A s, t \in T : Day(s) = Day(t) => s = t,
           \A t \in T : t >= now - Window * DayTicks
    PROVE  RankedTimes(T, now) = {t \in T : Day(t) < Day(now)}
<1> DEFINE E == {t \in T : Day(t) < Day(now)}
           L == LastOfDays(E)
<1>1. E \in SUBSET T /\ E \in SUBSET Nat /\ IsFiniteSet(E)
  BY FS_Subset
<1>2. L = E
  <2>1. ASSUME NEW s \in E, NEW t \in E, s > t, Day(s) = Day(t)
        PROVE  FALSE
    <3>1. s = t /\ s \in Nat
      BY <1>1, <2>1
    <3>2. QED
      BY <2>1, <3>1
  <2> HIDE DEF E
  <2>2. QED
    BY <2>1 DEF LastOfDays
<1>3. ASSUME NEW t \in E
      PROVE  Cardinality({u \in L : u > t}) < Window
  <2> DEFINE above == {e \in {Day(s) : s \in E} : e > Day(t)}
             b == Day(now) - 1
  <2>1. t \in Nat /\ Day(t) < Day(now) /\ t >= now - Window * DayTicks
    BY <1>1
  <2>2. Day(now) \in Nat /\ Day(now) * DayTicks <= now
    BY WholeDays DEF Day
  <2>3. Day(t) \in Nat /\ Day(t) >= Day(now) - Window
    <3>1. Day(now) - Window \in Int /\ DayTicks \in Nat /\ Window \in Nat
      BY <2>2, SeriesAssumption
    <3>2. (Day(now) - Window) * DayTicks = Day(now) * DayTicks - Window * DayTicks
      BY <2>2, <3>1
    <3>3. Day(now) * DayTicks \in Nat /\ Window * DayTicks \in Nat
      BY <2>2, <3>1
    <3>4. t >= (Day(now) - Window) * DayTicks
      BY <2>1, <2>2, <3>2, <3>3
    <3>5. QED
      BY <2>1, <3>1, <3>4, DaysSince, DaysInOrder
  <2>4. b \in Nat /\ Day(t) <= b /\ b - Day(t) < Window
    BY <2>1, <2>2, <2>3, SeriesAssumption
  <2>5. above \subseteq Day(t) + 1 .. b
    <3>1. SUFFICES ASSUME NEW s \in E, Day(s) > Day(t)
                   PROVE  Day(s) \in Day(t) + 1 .. b
      OBVIOUS
    <3>2. Day(s) \in Nat /\ Day(s) < Day(now)
      <4>1. s \in Nat
        BY <1>1
      <4>2. QED
        BY <4>1, DaysInOrder
    <3>3. QED
      BY <2>2, <2>3, <3>1, <3>2
  <2> HIDE DEF b
  <2>6. IsFiniteSet(Day(t) + 1 .. b) /\ Cardinality(Day(t) + 1 .. b) = b - Day(t)
    BY <2>3, <2>4, IntervalCount
  <2>7. Cardinality({u \in L : u > t}) = Cardinality(above)
    <3>1. t \in L
      BY <1>2
    <3> HIDE DEF E, L
    <3>2. Cardinality({u \in L : u > t}) = Cardinality({e \in {Day(s) : s \in E} : e > Day(t)})
      BY <1>1, <3>1, DaysAbove DEF L
    <3>3. QED
      BY <3>2
  <2> HIDE DEF above, L
  <2>8. Cardinality(above) <= b - Day(t) /\ Cardinality(above) \in Nat
    <3> DEFINE I == Day(t) + 1 .. b
    <3>1. above \subseteq I /\ IsFiniteSet(I) /\ Cardinality(I) = b - Day(t)
      BY <2>5, <2>6
    <3> HIDE DEF I
    <3>2. IsFiniteSet(above) /\ Cardinality(above) <= Cardinality(I)
      BY <3>1, FS_Subset
    <3>3. QED
      BY <3>1, <3>2, FS_CardinalityType
  <2>9. QED
    BY <2>3, <2>4, <2>7, <2>8, SeriesAssumption
<1>4. RankedTimes(T, now) = {t \in L : Cardinality({u \in L : u > t}) < Window}
  BY DEF RankedTimes
<1> HIDE DEF E, L
<1>5. RankedTimes(T, now) = E
  BY <1>2, <1>3, <1>4
<1>6. QED
  BY <1>5 DEF E

\* The chart of a history with one row a day, the current figures being those of its last row, ranks
\* these among all rows.
LEMMA ChartOfList ==
    ASSUME NEW points, NEW table, NEW S \in SUBSET Nat, IsFiniteSet(S), S # {}, ListsRows(points, table, S),
           \A s, t \in S : Day(s) = Day(t) => s = t
    PROVE  ChartPosition(points, table[Max(S)]) =
               [below |-> Cardinality({t \in S : table[t].premium <= table[Max(S)].premium}),
                size  |-> Cardinality(S)]
<1> DEFINE current == table[Max(S)]
           n == Len(points)
           kept == ByDay(points, NotOlder)
           charted == ChartPoints(points)
<1>1. points # <<>> /\ n \in DOMAIN points /\ points[n].time = Max(S)
  BY EndsOfList
<1>2. points[n] = [time |-> Max(S), quote |-> current]
  BY <1>1 DEF ListsRows
<1>3. WithCurrentMetric(points, current) = points
  <2>1. WithCurrentMetric(points, current) = [points EXCEPT ![n].quote = current]
    BY <1>1 DEF WithCurrentMetric
  <2>2. [points[n] EXCEPT !.quote = current] = points[n]
    BY <1>2
  <2>3. points = [i \in DOMAIN points |-> points[i]]
    BY DEF ListsRows
  <2> HIDE DEF n, current
  <2>4. QED
    BY <1>1, <2>1, <2>2, <2>3
<1> HIDE DEF current, n
<1>4. S = LastOfDays(S)
  <2>1. ASSUME NEW s \in S, NEW t \in S, s > t, Day(s) = Day(t)
        PROVE  FALSE
    <3>1. s = t /\ s \in Nat
      BY <2>1
    <3>2. QED
      BY <2>1, <3>1
  <2>2. QED
    BY <2>1 DEF LastOfDays
<1>5. Carries(points, table, S)
  BY <1>4, ListedAreCarried
<1>6. KeepsLast(points, kept)
  <2>1. DOMAIN points = 1 .. Cardinality(S) /\ Cardinality(S) \in Nat
    BY DEF ListsRows
  <2>2. \A i \in 1 .. Cardinality(S) : points[i].time \in Nat
    BY <2>1 DEF ListsRows
  <2>3. QED
    BY <2>1, <2>2, NotOlderKeepsLast
<1> HIDE DEF kept
<1>7. ListsRows(Series(kept), table, S)
  BY <1>4, <1>5, <1>6, SeriesOfLastRows
<1>8. ListsRows(charted, table, S)
  BY <1>7 DEF ChartPoints, kept
<1> HIDE DEF charted
<1>9. Last(charted).quote.premium = current.premium
  <2>1. /\ Last(charted).time = Max(S) /\ Last(charted) = charted[Len(charted)]
        /\ Len(charted) \in DOMAIN charted
    BY <1>8, EndsOfList
  <2>2. Last(charted) = [time |-> Max(S), quote |-> current]
    BY <1>8, <2>1 DEF ListsRows, current
  <2>3. QED
    BY <2>2
<1>10. ChartPosition(points, current) =
           Rank([i \in DOMAIN charted |-> charted[i].quote.premium], current.premium)
  BY <1>3, <1>9 DEF ChartPosition, charted
<1>11. ChartPosition(points, current) =
           [below |-> Cardinality({t \in S : table[t].premium <= current.premium}),
            size  |-> Cardinality(S)]
  BY <1>8, <1>10, RankOfRows
<1>12. QED
  BY <1>11 DEF current

-----------------------------------------------------------------------------
(* Daily prices *)

\* The image of a finite set under a function.
LEMMA ImageFinite ==
    ASSUME NEW S, IsFiniteSet(S), NEW f
    PROVE  IsFiniteSet({f[x] : x \in S})
<1> DEFINE T == {f[x] : x \in S}
           g == [x \in S |-> f[x]]
<1>1. g \in Surjection(S, T)
  BY DEF Surjection
<1>2. QED
  BY <1>1, FS_Surjection

\* The rows of a day, and the first of them.
DayRows(rows, d)  == {rows[i] : i \in {j \in DOMAIN rows : Day(rows[j].time) = d}}
FirstRow(rows, d) == CHOOSE p \in DayRows(rows, d) : \A q \in DayRows(rows, d) : p.time <= q.time

\* All prices of a day lie between the lowest and the highest of them, those of the first row as well.
LEMMA PricesOfDay ==
    ASSUME NEW rows, NEW table, NEW S \in SUBSET Nat, ListsRows(rows, table, S),
           \A t \in S : table[t].buy \in Nat /\ table[t].sell \in Nat,
           NEW t \in S, NEW d, d = Day(t)
    PROVE  LET O == DayRows(rows, d)
           IN  /\ Lowest(O) \in Nat /\ Highest(O) \in Nat
               /\ FirstRow(rows, d).quote.sell \in Lowest(O) .. Highest(O)
               /\ \A u \in S : Day(u) = d =>
                      {table[u].buy, table[u].sell} \subseteq Lowest(O) .. Highest(O)
<1> DEFINE O == DayRows(rows, d)
           I == {j \in DOMAIN rows : Day(rows[j].time) = d}
           V == {p.quote.buy : p \in O} \cup {p.quote.sell : p \in O}
           W == {p.time : p \in O}
           n == Cardinality(S)
<1>1. /\ n \in Nat /\ DOMAIN rows = 1 .. n
      /\ \A i \in 1 .. n : /\ rows[i].time \in S
                           /\ rows[i] = [time |-> rows[i].time, quote |-> table[rows[i].time]]
      /\ \A u \in S : \E i \in 1 .. n : rows[i].time = u
  BY DEF ListsRows
<1> HIDE DEF n
<1>2. O = {rows[i] : i \in I} /\ I \in SUBSET (1 .. n) /\ IsFiniteSet(I)
  <2>1. I \in SUBSET (1 .. n)
    BY <1>1
  <2>2. IsFiniteSet(1 .. n)
    <3>1. 1 \in Int /\ n \in Int
      BY <1>1
    <3>2. QED
      BY <3>1, FS_Interval
  <2>3. QED
    BY <2>1, <2>2, FS_Subset DEF DayRows
<1>3. \A p \in O : /\ p.time \in S /\ p = [time |-> p.time, quote |-> table[p.time]]
                   /\ p.time \in Nat /\ p.quote.buy \in Nat /\ p.quote.sell \in Nat
  <2>1. SUFFICES ASSUME NEW i \in I
                 PROVE  /\ rows[i].time \in S
                        /\ rows[i] = [time |-> rows[i].time, quote |-> table[rows[i].time]]
                        /\ rows[i].time \in Nat
                        /\ rows[i].quote.buy \in Nat /\ rows[i].quote.sell \in Nat
    BY <1>2
  <2>2. i \in 1 .. n
    BY <1>2
  <2>3. PICK u \in S : rows[i] = [time |-> u, quote |-> table[u]]
    BY <1>1, <2>2
  <2>4. u \in Nat /\ table[u].buy \in Nat /\ table[u].sell \in Nat
    OBVIOUS
  <2>5. rows[i].time = u /\ rows[i].quote = table[u]
    BY <2>3
  <2>6. QED
    BY <2>3, <2>4, <2>5
<1>4. \A u \in S : Day(u) = d => [time |-> u, quote |-> table[u]] \in O
  <2>1. SUFFICES ASSUME NEW u \in S, Day(u) = d
                 PROVE  [time |-> u, quote |-> table[u]] \in O
    OBVIOUS
  <2>2. PICK i \in 1 .. n : rows[i].time = u
    BY <1>1
  <2>3. i \in I /\ rows[i] = [time |-> u, quote |-> table[u]]
    BY <1>1, <2>1, <2>2
  <2>4. QED
    BY <1>2, <2>3
<1>5. \E p \in O : TRUE
  BY <1>4
<1>6. IsFiniteSet(V)
  <2> DEFINE f == [i \in I |-> rows[i].quote.buy]
             g == [i \in I |-> rows[i].quote.sell]
  <2>1. V = {f[i] : i \in I} \cup {g[i] : i \in I}
    BY <1>2
  <2> HIDE DEF f, g, I
  <2>2. IsFiniteSet(I)
    BY <1>2
  <2>3. IsFiniteSet({f[i] : i \in I})
    BY <2>2, ImageFinite
  <2>4. IsFiniteSet({g[i] : i \in I})
    BY <2>2, ImageFinite
  <2>5. QED
    BY <2>1, <2>3, <2>4, FS_Union
<1> HIDE DEF O, I
<1>7. V \in SUBSET Nat /\ V # {}
  BY <1>3, <1>5
<1>8. Lowest(O) = Min(V) /\ Highest(O) = Max(V)
  BY DEF Lowest, Highest
<1>9. /\ Lowest(O) \in Nat /\ Highest(O) \in Nat
      /\ \A v \in V : v \in Lowest(O) .. Highest(O)
  <2> HIDE DEF V
  <2>1. /\ Min(V) \in V /\ \A v \in V : Min(V) <= v
        /\ Max(V) \in V /\ \A v \in V : v <= Max(V)
    BY <1>6, <1>7, LeastMember, GreatestOfFinite
  <2>2. \A v \in V : v \in Nat
    BY <1>7
  <2>3. QED
    BY <1>8, <2>1, <2>2
<1>10. \A p \in O : p.quote.buy \in Lowest(O) .. Highest(O) /\ p.quote.sell \in Lowest(O) .. Highest(O)
  BY <1>9
<1>11. FirstRow(rows, d) \in O
  <2>1. W \in SUBSET Nat /\ W # {}
    BY <1>3, <1>5
  <2>2. Min(W) \in W /\ \A x \in W : Min(W) <= x
    BY <2>1, LeastMember
  <2>3. PICK p \in O : p.time = Min(W)
    BY <2>2
  <2>4. \A q \in O : p.time <= q.time
    BY <2>2, <2>3
  <2>5. QED
    BY <2>4 DEF FirstRow, O
<1>12. \A u \in S : Day(u) = d => {table[u].buy, table[u].sell} \subseteq Lowest(O) .. Highest(O)
  <2>1. SUFFICES ASSUME NEW u \in S, Day(u) = d
                 PROVE  table[u].buy \in Lowest(O) .. Highest(O) /\ table[u].sell \in Lowest(O) .. Highest(O)
    OBVIOUS
  <2>2. [time |-> u, quote |-> table[u]] \in O
    BY <1>4, <2>1
  <2>3. [time |-> u, quote |-> table[u]].quote = table[u]
    OBVIOUS
  <2>4. QED
    BY <1>10, <2>2, <2>3
<1>13. QED
  BY <1>9, <1>10, <1>11, <1>12 DEF O

\* A map that keeps the last point that comes, over rows in order: the series of the last rows.
LEMMA LastRowsListed ==
    ASSUME NEW points, NEW table, NEW S \in SUBSET Nat, IsFiniteSet(S), ListsRows(points, table, S)
    PROVE  ListsRows(Series(ByDay(points, Always)), table, LastOfDays(S))
<1> DEFINE kept == ByDay(points, Always)
           n == Cardinality(S)
<1>1. /\ DOMAIN points = 1 .. n /\ n \in Nat
      /\ \A i \in 1 .. n : points[i].time \in S
      /\ \A i, j \in 1 .. n : i < j <=> points[i].time < points[j].time
  BY DEF ListsRows
<1> HIDE DEF n
<1>2. KeepsLast(points, kept)
  <2>1. \A i \in 1 .. n : points[i].time \in Nat
    BY <1>1
  <2>2. \A i, j \in 1 .. n : i < j => points[i].time < points[j].time
    BY <1>1
  <2>3. QED
    BY <1>1, <2>1, <2>2, AlwaysKeepsLast
<1> HIDE DEF kept
<1>3. Carries(points, table, S)
  <2>1. LastOfDays(S) \subseteq S
    BY DEF LastOfDays
  <2>2. QED
    BY <2>1, ListedAreCarried
<1>4. ListsRows(Series(kept), table, LastOfDays(S))
  BY <1>2, <1>3, SeriesOfLastRows
<1>5. QED
  BY <1>4 DEF kept

\* The days of a list with one row a day ascend.
LEMMA DaysAscend ==
    ASSUME NEW s, NEW table, NEW S \in SUBSET Nat, ListsRows(s, table, S),
           \A t, u \in S : Day(t) = Day(u) => t = u,
           NEW i \in DOMAIN s, NEW j \in DOMAIN s, i < j
    PROVE  Day(s[i].time) < Day(s[j].time)
<1>1. s[i].time \in S /\ s[j].time \in S /\ s[i].time < s[j].time
  BY DEF ListsRows
<1>2. s[i].time \in Nat /\ s[j].time \in Nat
  BY <1>1
<1>3. /\ Day(s[i].time) \in Nat /\ Day(s[j].time) \in Nat
      /\ Day(s[j].time) < Day(s[i].time) => s[j].time < s[i].time
  BY <1>2, DaysInOrder
<1>4. Day(s[i].time) # Day(s[j].time)
  BY <1>1, <1>2
<1>5. QED
  BY <1>1, <1>2, <1>3, <1>4

-----------------------------------------------------------------------------
(* The live quote *)

DatesAscend(s) == \A i, j \in DOMAIN s : i < j => s[i].date < s[j].date

\* The entries of the days before today, and a list of the first m entries of another and one more.
PastOf(s, today) == IF s # <<>> /\ Last(s).date = today THEN Front(s) ELSE s
EndsWith(r, s, m, x) ==
    /\ DOMAIN r = 1 .. m + 1 /\ Len(r) = m + 1
    /\ \A i \in 1 .. m : r[i] = s[i]
    /\ r[m + 1] = x /\ Last(r) = x

\* An entry of today goes behind the others, or in the place of the one of today.
LiveIsLast(s, n, today, x) ==
    LET past     == PastOf(s, today)
        hasToday == s # <<>> /\ Last(s).date = today
    IN  \E m \in 0 .. n :
            /\ EndsWith(Append(past, x), s, m, x) /\ DatesAscend(Append(past, x))
            /\ past = <<>> <=> m = 0
            /\ m # 0 => Last(past) = s[m]
            /\ hasToday => n # 0 /\ m = n - 1 /\ Last(s) = s[n]
            /\ ~ hasToday => m = n /\ \A i \in 1 .. n : s[i].date # today

\* A live value takes the place of today's entry or comes after all the others.
LEMMA LiveFollows ==
    ASSUME NEW n \in Nat, NEW s, s = [i \in 1 .. n |-> s[i]], DatesAscend(s), NEW today \in Nat,
           \A i \in 1 .. n : s[i].date \in Nat /\ s[i].date <= today, NEW x, x.date = today
    PROVE  LiveIsLast(s, n, today, x)
<1> DEFINE past == PastOf(s, today)
           hasToday == s # <<>> /\ Last(s).date = today
           m == IF hasToday THEN n - 1 ELSE n
           r == Append(past, x)
<1>1. /\ s \in Seq(Range(s)) /\ Len(s) = n /\ DOMAIN s = 1 .. n
      /\ s = <<>> <=> n = 0
      /\ Last(s) = s[n]
  <2>1. s \in [1 .. n -> Range(s)]
    BY DEF Range
  <2>2. s \in Seq(Range(s)) /\ Len(s) = n /\ DOMAIN s = 1 .. n
    BY <2>1
  <2>3. s = <<>> <=> n = 0
    BY <2>2
  <2>4. QED
    BY <2>2, <2>3 DEF Last
<1>2. m \in 0 .. n /\ (hasToday => n # 0 /\ m = n - 1) /\ (~ hasToday => m = n)
  BY <1>1
<1>3. /\ past \in Seq(Range(s)) /\ Len(past) = m /\ DOMAIN past = 1 .. m
      /\ \A i \in 1 .. m : past[i] = s[i]
  <2>1. CASE hasToday
    <3>1. past = SubSeq(s, 1, n - 1) /\ m = n - 1 /\ n - 1 \in Nat
      BY <1>1, <1>2, <2>1 DEF PastOf, Front
    <3> HIDE DEF past, m, hasToday
    <3>2. \A i \in 1 .. n - 1 : i \in 1 .. n /\ s[i] \in Range(s)
      BY <1>1 DEF Range
    <3>3. past = [i \in 1 .. n - 1 |-> s[i]]
      BY <1>1, <3>1, <3>2
    <3>4. past \in [1 .. n - 1 -> Range(s)]
      BY <3>2, <3>3
    <3>5. past \in Seq(Range(s)) /\ Len(past) = n - 1
      <4> DEFINE k == n - 1
      <4>1. k \in Nat /\ past \in [1 .. k -> Range(s)]
        BY <3>1, <3>4
      <4> HIDE DEF k
      <4>2. past \in Seq(Range(s)) /\ Len(past) = k
        BY <4>1
      <4>3. QED
        BY <4>2 DEF k
    <3>6. QED
      BY <3>1, <3>3, <3>5
  <2>2. CASE ~ hasToday
    <3>1. past = s /\ m = n
      BY <1>2, <2>2 DEF PastOf
    <3> HIDE DEF past, m
    <3>2. QED
      BY <1>1, <3>1
  <2>3. QED
    BY <2>1, <2>2
<1>4. \A i \in 1 .. m : s[i].date \in Nat /\ s[i].date < today
  <2>1. SUFFICES ASSUME NEW i \in 1 .. m
                 PROVE  s[i].date \in Nat /\ s[i].date < today
    OBVIOUS
  <2>2. i \in 1 .. n /\ s[i].date \in Nat /\ s[i].date <= today
    BY <1>2
  <2>3. n \in 1 .. n
    BY <2>2
  <2>4. CASE hasToday
    <3>1. s[n].date = today /\ i < n
      BY <1>1, <1>2, <2>4
    <3>2. s[i].date < s[n].date
      BY <1>1, <2>2, <2>3, <3>1 DEF DatesAscend
    <3>3. QED
      BY <2>2, <3>1, <3>2
  <2>5. CASE ~ hasToday
    <3>1. s[n].date # today /\ s[n].date \in Nat /\ s[n].date <= today
      BY <1>1, <2>3, <2>5
    <3>2. i = n \/ i < n
      BY <2>2
    <3>3. i < n => s[i].date < s[n].date
      BY <1>1, <2>2, <2>3 DEF DatesAscend
    <3>4. QED
      BY <2>2, <3>1, <3>2, <3>3
  <2>6. QED
    BY <2>4, <2>5
<1> HIDE DEF past, m, hasToday
<1>5. EndsWith(r, s, m, x)
  <2> DEFINE X == Range(s) \cup {x}
  <2>1. past \in Seq(X)
    BY <1>3
  <2>2. x \in X
    OBVIOUS
  <2> HIDE DEF X
  <2>3. r \in Seq(X) /\ Len(r) = m + 1 /\ r[m + 1] = x /\ \A i \in 1 .. m : r[i] = past[i]
    BY <1>2, <1>3, <2>1, <2>2
  <2>4. DOMAIN r = 1 .. m + 1
    BY <2>3
  <2> HIDE DEF r
  <2>5. QED
    BY <1>3, <2>3, <2>4 DEF EndsWith, Last
<1> HIDE DEF r
<1>6. DatesAscend(r)
  <2>1. SUFFICES ASSUME NEW i \in 1 .. m + 1, NEW j \in 1 .. m + 1, i < j
                 PROVE  r[i].date < r[j].date
    BY <1>5 DEF EndsWith, DatesAscend
  <2>2. i \in 1 .. m /\ r[i] = s[i] /\ i \in 1 .. n
    <3>1. i \in 1 .. m /\ i \in 1 .. n
      BY <1>2, <2>1
    <3>2. QED
      BY <1>5, <3>1 DEF EndsWith
  <2>3. CASE j = m + 1
    BY <1>4, <1>5, <2>2, <2>3 DEF EndsWith
  <2>4. CASE j # m + 1
    <3>1. j \in 1 .. m /\ j \in 1 .. n
      BY <1>2, <2>4
    <3>2. r[j] = s[j]
      BY <1>5, <3>1 DEF EndsWith
    <3>3. QED
      BY <1>1, <2>1, <2>2, <3>1, <3>2 DEF DatesAscend
  <2>5. QED
    BY <2>3, <2>4
<1>7. (past = <<>> <=> m = 0) /\ (m # 0 => Last(past) = s[m])
  <2>1. past = <<>> <=> m = 0
    BY <1>2, <1>3
  <2>2. m # 0 => m \in 1 .. m
    BY <1>2
  <2>3. QED
    BY <1>3, <2>1, <2>2 DEF Last
<1>8. hasToday => n # 0 /\ m = n - 1 /\ Last(s) = s[n]
  BY <1>1, <1>2
<1>9. ~ hasToday => m = n /\ \A i \in 1 .. n : s[i].date # today
  <2>1. \A i \in 1 .. m : s[i].date # today
    BY <1>4
  <2>2. QED
    BY <1>2, <2>1
<1>10. QED
  BY <1>2, <1>5, <1>6, <1>7, <1>8, <1>9, Zenon DEF LiveIsLast, past, hasToday, r

\* A list with one value a day up to today, each with its change.
ValuesAreDaily(v, n, today) ==
    /\ v = [i \in 1 .. n |-> v[i]] /\ DatesAscend(v)
    /\ \A i \in 1 .. n : v[i].date \in Nat /\ v[i].date <= today /\ v[i].value \in Nat
    /\ \A i \in 2 .. n : v[i].change = v[i].value - v[i - 1].value

\* The daily values of rows at one time a day are daily and up to today.
LEMMA ValuesOfRows ==
    ASSUME NEW points, NEW table, NEW S \in SUBSET Nat, IsFiniteSet(S), ListsRows(points, table, S),
           \A t, u \in S : Day(t) = Day(u) => t = u,
           \A t \in S : table[t].sell \in Nat,
           NEW today, \A t \in S : Day(t) <= today
    PROVE  ValuesAreDaily(DailyValues(points), Cardinality(S), today)
<1> DEFINE s == Series(ByDay(points, Always))
           v == DailyValues(points)
           n == Cardinality(S)
<1>1. LastOfDays(S) = S
  <2>1. ASSUME NEW t \in S, NEW u \in S, u > t, Day(u) = Day(t)
        PROVE  FALSE
    <3>1. u = t /\ t \in Nat
      BY <2>1
    <3>2. QED
      BY <2>1, <3>1
  <2>2. QED
    BY <2>1 DEF LastOfDays
<1>2. ListsRows(s, table, S)
  BY <1>1, LastRowsListed
<1>3. /\ n \in Nat /\ DOMAIN s = 1 .. n
      /\ \A i \in 1 .. n : s[i].time \in S /\ s[i].quote = table[s[i].time]
  <2> HIDE DEF s
  <2>1. QED
    BY <1>2, ListedRows
<1>4. v = [i \in 1 .. n |->
              [date   |-> Day(s[i].time),
               value  |-> s[i].quote.sell,
               change |-> Changed(IF i = 1 THEN None ELSE s[i - 1].quote.sell, s[i].quote.sell)]]
  BY <1>3 DEF DailyValues
<1> HIDE DEF s, v, n
<1>5. v = [i \in 1 .. n |-> v[i]] /\ DOMAIN v = 1 .. n
  BY <1>4
<1>6. \A i \in 1 .. n :
          /\ v[i].date = Day(s[i].time) /\ v[i].value = s[i].quote.sell
          /\ v[i].change = Changed(IF i = 1 THEN None ELSE s[i - 1].quote.sell, s[i].quote.sell)
  BY <1>4
<1>7. \A i \in 1 .. n : /\ Day(s[i].time) \in Nat /\ Day(s[i].time) <= today
                        /\ s[i].quote.sell \in Nat
  <2>1. SUFFICES ASSUME NEW i \in 1 .. n
                 PROVE  /\ Day(s[i].time) \in Nat /\ Day(s[i].time) <= today
                        /\ s[i].quote.sell \in Nat
    OBVIOUS
  <2>2. s[i].time \in S /\ s[i].quote = table[s[i].time]
    BY <1>3
  <2>3. PICK t \in S : s[i].time = t /\ s[i].quote = table[t] /\ t \in Nat
    BY <2>2
  <2>4. Day(t) \in Nat
    BY <2>3, DaysInOrder
  <2>5. QED
    BY <2>3, <2>4
<1>8. DatesAscend(v)
  <2>1. SUFFICES ASSUME NEW i \in 1 .. n, NEW j \in 1 .. n, i < j
                 PROVE  v[i].date < v[j].date
    BY <1>5 DEF DatesAscend
  <2>2. Day(s[i].time) < Day(s[j].time)
    BY <1>2, <1>3, <2>1, DaysAscend
  <2>3. QED
    BY <1>6, <2>2
<1>9. ASSUME NEW i \in 2 .. n
      PROVE  v[i].change = v[i].value - v[i - 1].value
  <2>1. i \in 1 .. n /\ i - 1 \in 1 .. n /\ i # 1
    BY <1>3
  <2>2. s[i - 1].quote.sell \in Nat
    BY <1>7, <2>1
  <2>3. s[i - 1].quote.sell # None
    BY <2>2, SeriesAssumption
  <2>4. v[i].change = s[i].quote.sell - s[i - 1].quote.sell
    BY <1>6, <2>1, <2>3 DEF Changed
  <2>5. QED
    BY <1>6, <2>1, <2>4
<1>10. ValuesAreDaily(v, n, today)
  BY <1>5, <1>6, <1>7, <1>8, <1>9 DEF ValuesAreDaily
<1>11. QED
  BY <1>10 DEF v, n

\* With the live value the list ends today, and the changes are still those of the values.
LiveValuesAreDaily(r, today, live) ==
    /\ DatesAscend(r) /\ Last(r).date = today /\ Last(r).value = live
    /\ \A i \in 2 .. Len(r) : r[i].change = r[i].value - r[i - 1].value

\* With the live value they end today, and every change is that from the entry before.
LEMMA LiveValues ==
    ASSUME NEW n \in Nat, NEW today \in Nat, NEW v, ValuesAreDaily(v, n, today), NEW live \in Nat
    PROVE  LiveValuesAreDaily(WithLiveValue(v, today, live), today, live)
<1> DEFINE past == PastOf(v, today)
           x == [date |-> today, value |-> live,
                 change |-> Changed(IF past = <<>> THEN None ELSE Last(past).value, live)]
           r == Append(past, x)
<1>1. WithLiveValue(v, today, live) = r
  BY DEF WithLiveValue, PastOf
<1>2. /\ x.date = today /\ x.value = live
      /\ x.change = Changed(IF past = <<>> THEN None ELSE Last(past).value, live)
  OBVIOUS
<1>3. /\ v = [i \in 1 .. n |-> v[i]] /\ DatesAscend(v)
      /\ \A i \in 1 .. n : v[i].date \in Nat /\ v[i].date <= today /\ v[i].value \in Nat
      /\ \A i \in 2 .. n : v[i].change = v[i].value - v[i - 1].value
  BY DEF ValuesAreDaily
<1> HIDE DEF x
<1>4. LiveIsLast(v, n, today, x)
  BY <1>2, <1>3, LiveFollows
<1>5. PICK m \in 0 .. n :
          /\ EndsWith(r, v, m, x) /\ DatesAscend(r)
          /\ past = <<>> <=> m = 0
          /\ m # 0 => Last(past) = v[m]
  BY <1>4 DEF LiveIsLast
<1> HIDE DEF r, past
<1>6. ASSUME NEW i \in 2 .. Len(r)
      PROVE  r[i].change = r[i].value - r[i - 1].value
  <2>1. Len(r) = m + 1 /\ (\A j \in 1 .. m : r[j] = v[j]) /\ r[m + 1] = x
    BY <1>5 DEF EndsWith
  <2>2. i \in 2 .. m + 1 /\ i - 1 \in 1 .. m /\ r[i - 1] = v[i - 1] /\ m # 0
    BY <2>1
  <2>3. CASE i = m + 1
    <3>1. i - 1 = m /\ m \in 1 .. n
      BY <2>2, <2>3
    <3>2. v[m].value \in Nat /\ v[m].value # None
      BY <1>3, <3>1, SeriesAssumption
    <3>3. x.change = live - v[m].value
      BY <1>2, <1>5, <2>2, <3>2 DEF Changed
    <3>4. QED
      BY <1>2, <2>1, <2>2, <2>3, <3>1, <3>3
  <2>4. CASE i # m + 1
    <3>1. i \in 1 .. m /\ i \in 2 .. n
      BY <2>2, <2>4
    <3>2. QED
      BY <1>3, <2>1, <2>2, <3>1
  <2>5. QED
    BY <2>3, <2>4
<1>7. Last(r) = x
  BY <1>5 DEF EndsWith
<1>8. QED
  BY <1>1, <1>2, <1>5, <1>6, <1>7 DEF LiveValuesAreDaily

\* A list with one entry a day up to today, whose prices and those of the rows of its day lie between
\* its low and its high.
Spans(c, x) == x \in c.low .. c.high
IsCandle(c, table, S) ==
    /\ c.low \in Nat /\ c.high \in Nat
    /\ Spans(c, c.open) /\ Spans(c, c.buyClose) /\ Spans(c, c.close)
    /\ \A t \in S : Day(t) = c.date => Spans(c, table[t].buy) /\ Spans(c, table[t].sell)
PricesAreDaily(c, n, today, table, S) ==
    /\ c = [i \in 1 .. n |-> c[i]] /\ DatesAscend(c)
    /\ \A i \in 1 .. n : c[i].date \in Nat /\ c[i].date <= today /\ IsCandle(c[i], table, S)
    /\ \A t \in S : \E i \in 1 .. n : c[i].date = Day(t)

\* The daily prices of the rows since some day are daily, and each candle spans the rows of its day.
LEMMA PricesOfRows ==
    ASSUME NEW table, IsTable(table), NEW clock \in Nat, NEW days \in Nat,
           NEW S, S = {t \in DOMAIN table : t >= RangeStart(clock, days)},
           \A t \in S : table[t].buy \in Nat /\ table[t].sell \in Nat,
           NEW today, \A t \in S : Day(t) <= today
    PROVE  PricesAreDaily(DailyPrices(table, clock, days), Cardinality(LastOfDays(S)), today, table, S)
<1> DEFINE rows == RowsSince(table, RangeStart(clock, days))
           last == Series(ByDay(rows, Always))
           L == LastOfDays(S)
           n == Cardinality(L)
           c == DailyPrices(table, clock, days)
           Candle(i) ==
               LET d == Day(last[i].time)
               IN  [date |-> d, open |-> FirstRow(rows, d).quote.sell, high |-> Highest(DayRows(rows, d)),
                    low |-> Lowest(DayRows(rows, d)), buyClose |-> last[i].quote.buy,
                    close |-> last[i].quote.sell]
<1>1. RangeStart(clock, days) \in Int
  <2>1. Day(clock) \in Nat
    BY WholeDays DEF Day
  <2> DEFINE k == Day(clock) - (days - 1)
  <2>2. k \in Int /\ DayTicks \in Int
    BY <2>1, SeriesAssumption
  <2> HIDE DEF k
  <2>3. QED
    BY <2>2 DEF RangeStart, k
<1>2. ListsRows(rows, table, S)
  BY <1>1, RowsListed
<1>3. S \in SUBSET Nat /\ IsFiniteSet(S)
  BY FS_Subset DEF IsTable
<1>4. c = [i \in DOMAIN last |-> Candle(i)]
  BY DEF DailyPrices, DayRows, FirstRow
<1> HIDE DEF rows, c
<1>5. ListsRows(last, table, L)
  BY <1>2, <1>3, LastRowsListed
<1>6. /\ L \in SUBSET S
      /\ \A t \in S : \E u \in L : Day(u) = Day(t) /\ t <= u
      /\ \A t, u \in L : Day(t) = Day(u) => t = u
  BY <1>3, LastOfEveryDay
<1> HIDE DEF last, L
<1>7. n \in Nat /\ DOMAIN last = 1 .. n
  BY <1>5 DEF ListsRows
<1> HIDE DEF n
<1>8. c = [i \in 1 .. n |-> c[i]] /\ DOMAIN c = 1 .. n /\ \A i \in 1 .. n : c[i] = Candle(i)
  BY <1>4, <1>7
<1>9. \A i \in 1 .. n : c[i].date = Day(last[i].time)
  BY <1>8
<1>10. ASSUME NEW i \in 1 .. n
       PROVE  c[i].date \in Nat /\ c[i].date <= today /\ IsCandle(c[i], table, S)
  <2>1. PICK t \in L : last[i] = [time |-> t, quote |-> table[t]]
    <3>1. last[i].time \in L /\ last[i] = [time |-> last[i].time, quote |-> table[last[i].time]]
      BY <1>5, <1>7 DEF ListsRows
    <3>2. QED
      BY <3>1
  <2>2. t \in S /\ t \in Nat /\ last[i].time = t /\ last[i].quote = table[t]
    BY <1>3, <1>6, <2>1
  <2> DEFINE d == Day(t)
             O == DayRows(rows, d)
  <2>3. d \in Nat /\ d <= today
    BY <2>2, DaysInOrder
  <2>4. /\ Lowest(O) \in Nat /\ Highest(O) \in Nat
        /\ FirstRow(rows, d).quote.sell \in Lowest(O) .. Highest(O)
        /\ \A u \in S : Day(u) = d => {table[u].buy, table[u].sell} \subseteq Lowest(O) .. Highest(O)
    BY <1>2, <1>3, <2>2, PricesOfDay
  <2>5. c[i] = [date |-> d, open |-> FirstRow(rows, d).quote.sell, high |-> Highest(O),
                low |-> Lowest(O), buyClose |-> table[t].buy, close |-> table[t].sell]
    BY <1>8, <2>2
  <2> HIDE DEF O, d
  <2>6. /\ c[i].date = d /\ c[i].open = FirstRow(rows, d).quote.sell /\ c[i].high = Highest(O)
        /\ c[i].low = Lowest(O) /\ c[i].buyClose = table[t].buy /\ c[i].close = table[t].sell
    BY <2>5
  <2>7. \A u \in S : Day(u) = d => table[u].buy \in Lowest(O) .. Highest(O)
                                   /\ table[u].sell \in Lowest(O) .. Highest(O)
    BY <2>4
  <2>8. table[t].buy \in Lowest(O) .. Highest(O) /\ table[t].sell \in Lowest(O) .. Highest(O)
    BY <2>2, <2>7 DEF d
  <2>9. QED
    BY <2>3, <2>4, <2>6, <2>7, <2>8 DEF IsCandle, Spans
<1>11. DatesAscend(c)
  <2>1. SUFFICES ASSUME NEW i \in 1 .. n, NEW j \in 1 .. n, i < j
                 PROVE  c[i].date < c[j].date
    BY <1>8 DEF DatesAscend
  <2>2. L \in SUBSET Nat
    BY <1>3, <1>6
  <2>3. Day(last[i].time) < Day(last[j].time)
    BY <1>5, <1>6, <1>7, <2>1, <2>2, DaysAscend
  <2>4. QED
    BY <1>9, <2>3
<1>12. ASSUME NEW t \in S
       PROVE  \E i \in 1 .. n : c[i].date = Day(t)
  <2>1. PICK u \in L : Day(u) = Day(t)
    BY <1>6
  <2>2. PICK i \in 1 .. n : last[i].time = u
    BY <1>5, <1>7 DEF ListsRows
  <2>3. QED
    BY <1>9, <2>1, <2>2
<1>13. PricesAreDaily(c, n, today, table, S)
  BY <1>8, <1>10, <1>11, <1>12, Zenon DEF PricesAreDaily
<1>14. QED
  BY <1>13 DEF c, n, L

\* With the live quote the list ends today, and every price of a day still lies between low and high.
LivePricesAreDaily(r, today, live, table, S) ==
    /\ DatesAscend(r) /\ Last(r).date = today /\ Last(r).close = live.sell
    /\ \A i \in DOMAIN r : Spans(r[i], r[i].open) /\ Spans(r[i], r[i].buyClose) /\ Spans(r[i], r[i].close)
    /\ \A t \in S : Day(t) = today => Spans(Last(r), table[t].buy) /\ Spans(Last(r), table[t].sell)

\* With the live quote they end today, and today's candle spans the rows and the quote.
LEMMA LivePrices ==
    ASSUME NEW n \in Nat, NEW today \in Nat, NEW table, NEW S, NEW s, PricesAreDaily(s, n, today, table, S),
           NEW live, live.buy \in Nat, live.sell \in Nat
    PROVE  LivePricesAreDaily(WithLivePrice(s, today, live), today, live, table, S)
<1> DEFINE past == PastOf(s, today)
           hasToday == s # <<>> /\ Last(s).date = today
           seen == {live.buy, live.sell} \cup
                   (IF hasToday THEN {Last(s).high, Last(s).low}
                    ELSE IF past # <<>> THEN {Last(past).buyClose, Last(past).close}
                    ELSE {})
           open == IF hasToday THEN Last(s).open
                   ELSE IF past # <<>> THEN Last(past).close ELSE live.sell
           x == [date |-> today, open |-> open, high |-> Max(seen), low |-> Min(seen),
                 buyClose |-> live.buy, close |-> live.sell]
           r == Append(past, x)
<1>1. WithLivePrice(s, today, live) = r
  BY DEF WithLivePrice, PastOf
<1>2. /\ x.date = today /\ x.open = open /\ x.high = Max(seen) /\ x.low = Min(seen)
      /\ x.buyClose = live.buy /\ x.close = live.sell
  OBVIOUS
<1>3. /\ s = [i \in 1 .. n |-> s[i]] /\ DatesAscend(s)
      /\ \A i \in 1 .. n : s[i].date \in Nat /\ s[i].date <= today /\ IsCandle(s[i], table, S)
      /\ \A t \in S : \E i \in 1 .. n : s[i].date = Day(t)
  BY DEF PricesAreDaily
<1> HIDE DEF x
<1>4. LiveIsLast(s, n, today, x)
  BY <1>2, <1>3, LiveFollows
<1>5. PICK m \in 0 .. n :
          /\ EndsWith(r, s, m, x) /\ DatesAscend(r)
          /\ past = <<>> <=> m = 0
          /\ m # 0 => Last(past) = s[m]
          /\ hasToday => n # 0 /\ m = n - 1 /\ Last(s) = s[n]
          /\ ~ hasToday => m = n /\ \A i \in 1 .. n : s[i].date # today
  BY <1>4, Zenon DEF LiveIsLast
<1> HIDE DEF r, past, hasToday
<1>6. \A i \in 1 .. n :
          /\ s[i].low \in Nat /\ s[i].high \in Nat
          /\ s[i].open \in s[i].low .. s[i].high
          /\ s[i].buyClose \in s[i].low .. s[i].high
          /\ s[i].close \in s[i].low .. s[i].high
          /\ \A t \in S : Day(t) = s[i].date => /\ table[t].buy \in s[i].low .. s[i].high
                                                /\ table[t].sell \in s[i].low .. s[i].high
  BY <1>3 DEF IsCandle, Spans
<1>7. ASSUME seen \in SUBSET Nat, IsFiniteSet(seen)
      PROVE  /\ x.low \in Nat /\ x.high \in Nat
             /\ \A y \in seen : y \in x.low .. x.high
  <2>1. seen # {}
    OBVIOUS
  <2> HIDE DEF seen
  <2>2. /\ Min(seen) \in seen /\ \A y \in seen : Min(seen) <= y
        /\ Max(seen) \in seen /\ \A y \in seen : y <= Max(seen)
    BY <1>7, <2>1, LeastMember, GreatestOfFinite
  <2>3. \A y \in seen : y \in Nat
    BY <1>7
  <2>4. QED
    BY <1>2, <2>2, <2>3
<1>8. ASSUME NEW a \in Nat, NEW b \in Nat, seen = {live.buy, live.sell} \cup {a, b}
      PROVE  seen \in SUBSET Nat /\ IsFiniteSet(seen)
  <2>1. \A y, z : IsFiniteSet({y, z})
    <3>1. \A y, z : {y, z} = {y} \cup {z}
      OBVIOUS
    <3>2. \A y : IsFiniteSet({y})
      BY FS_Singleton
    <3>3. \A y, z : IsFiniteSet({y} \cup {z})
      BY <3>2, FS_Union
    <3>4. QED
      BY <3>1, <3>3
  <2>2. QED
    BY <1>8, <2>1, FS_Union
<1>9. /\ Spans(x, x.open) /\ Spans(x, x.buyClose) /\ Spans(x, x.close)
      /\ \A t \in S : Day(t) = today => Spans(x, table[t].buy) /\ Spans(x, table[t].sell)
  <2>1. live.buy \in seen /\ live.sell \in seen
    OBVIOUS
  <2>2. CASE hasToday
    <3>1. n \in 1 .. n /\ Last(s) = s[n] /\ s[n].date = today
      BY <1>5, <2>2 DEF hasToday
    <3>2. seen = {live.buy, live.sell} \cup {s[n].high, s[n].low} /\ open = s[n].open
      BY <2>2, <3>1
    <3>3. s[n].high \in Nat /\ s[n].low \in Nat
      BY <1>6, <3>1
    <3> HIDE DEF seen, open
    <3>4. /\ x.low \in Nat /\ x.high \in Nat
          /\ \A y \in seen : y \in x.low .. x.high
      BY <1>7, <1>8, <3>2, <3>3
    <3>5. s[n].high \in x.low .. x.high /\ s[n].low \in x.low .. x.high
      BY <3>2, <3>4
    <3>6. \A y : y \in s[n].low .. s[n].high => y \in x.low .. x.high
      BY <3>3, <3>4, <3>5
    <3>7. x.open \in x.low .. x.high
      BY <1>2, <1>6, <3>1, <3>2, <3>6
    <3>8. x.buyClose \in x.low .. x.high /\ x.close \in x.low .. x.high
      BY <1>2, <2>1, <3>4
    <3>9. \A t \in S : Day(t) = today => /\ table[t].buy \in x.low .. x.high
                                         /\ table[t].sell \in x.low .. x.high
      BY <1>6, <3>1, <3>6
    <3>10. QED
      BY <3>7, <3>8, <3>9 DEF Spans
  <2>3. CASE ~ hasToday
    <3>1. \A t \in S : Day(t) # today
      BY <1>3, <1>5, <2>3
    <3>2. seen \in SUBSET Nat /\ IsFiniteSet(seen) /\ open \in seen
      <4>1. CASE past # <<>>
        <5>1. m \in 1 .. n /\ Last(past) = s[m]
          BY <1>5, <4>1
        <5>2. seen = {live.buy, live.sell} \cup {s[m].buyClose, s[m].close} /\ open = s[m].close
          BY <2>3, <4>1, <5>1
        <5>3. s[m].buyClose \in Nat /\ s[m].close \in Nat
          BY <1>6, <5>1
        <5> HIDE DEF seen, open
        <5>4. QED
          BY <1>8, <5>2, <5>3
      <4>2. CASE past = <<>>
        <5>1. seen = {live.buy, live.sell} \cup {live.buy, live.sell} /\ open = live.sell
          BY <2>3, <4>2
        <5> HIDE DEF seen, open
        <5>2. QED
          BY <1>8, <2>1, <5>1
      <4>3. QED
        BY <4>1, <4>2
    <3> HIDE DEF seen, open
    <3>3. \A y \in seen : y \in x.low .. x.high
      BY <1>7, <3>2
    <3>4. x.open \in seen /\ x.buyClose \in seen /\ x.close \in seen
      BY <1>2, <2>1, <3>2
    <3>5. QED
      BY <3>1, <3>3, <3>4 DEF Spans
  <2>4. QED
    BY <2>2, <2>3
<1>10. DOMAIN r = 1 .. m + 1 /\ (\A i \in 1 .. m : r[i] = s[i]) /\ r[m + 1] = x /\ Last(r) = x
  BY <1>5 DEF EndsWith
<1>11. ASSUME NEW i \in DOMAIN r
       PROVE  Spans(r[i], r[i].open) /\ Spans(r[i], r[i].buyClose) /\ Spans(r[i], r[i].close)
  <2>1. CASE i = m + 1
    BY <1>9, <1>10, <2>1
  <2>2. CASE i # m + 1
    <3>1. i \in 1 .. m /\ i \in 1 .. n
      BY <1>10, <2>2
    <3>2. r[i] = s[i]
      BY <1>10, <3>1
    <3>3. QED
      BY <1>6, <3>1, <3>2 DEF Spans
  <2>3. QED
    BY <2>1, <2>2
<1> HIDE DEF seen, open
<1>12. LivePricesAreDaily(r, today, live, table, S)
  BY <1>2, <1>5, <1>9, <1>10, <1>11, Zenon DEF LivePricesAreDaily
<1>13. QED
  BY <1>1, <1>12
=============================================================================
