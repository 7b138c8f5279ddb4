---------------------------- MODULE CalendarProofs ----------------------------
(***************************************************************************)
(* Facts about time that the jobs rely on: a finite set of timestamps has a    *)
(* first and a last one, which is behind the ORDER BY timestamp of the queries, *)
(* and the periods of Calendar are intervals that follow one another.           *)
(* An argument by induction is put as one about the least counterexample.       *)
(***************************************************************************)
EXTENDS Calendar, Sequences, FiniteSets, WellFoundedInduction, TLAPS

-----------------------------------------------------------------------------
(* The first and the last of a set. *)

\* A set of natural numbers has a least element.
LEMMA LeastNatural ==
    ASSUME NEW T, T \subseteq Nat, T # {}
    PROVE  \E n \in T : \A m \in T : n <= m
  <1> DEFINE R == OpToRel(<, Nat)
  <1>1. IsWellFoundedOn(R, Nat)
    BY NatLessThanWellFounded
  <1>2. \A x, y \in Nat : x < y => <<x, y>> \in R
    BY DEF OpToRel
  <1> HIDE DEF R
  <1>3. PICK n \in T : \A m \in T : ~(<<m, n>> \in R)
    BY <1>1, WFMin
  <1>4. ASSUME NEW m \in T PROVE n <= m
    <2>1. m \in Nat /\ n \in Nat
      BY <1>3
    <2>2. ~(m < n)
      BY <1>2, <1>3, <2>1
    <2> QED
      BY <2>1, <2>2
  <1> QED
    BY <1>4

\* A finite set of integers lies between two bounds.
LEMMA FiniteBounded ==
    ASSUME NEW S, IsFiniteSet(S), S \subseteq Int
    PROVE  \E m \in Nat : \A x \in S : -m <= x /\ x <= m
  <1>1. PICK s : s \in Seq(S) /\ \A x \in S : \E i \in 1..Len(s) : s[i] = x
    BY DEF IsFiniteSet
  <1>2. Len(s) \in Nat /\ \A i \in 1..Len(s) : s[i] \in Int
    <2>1. Len(s) \in Nat /\ \A i \in 1..Len(s) : s[i] \in S
      BY <1>1
    <2> QED
      BY <2>1
  <1> DEFINE Bounds(n) == {m \in Nat : \A i \in 1..Len(s) : i <= n => -m <= s[i] /\ s[i] <= m}
             Bad == {n \in Nat : Bounds(n) = {}}
  <1>3. ASSUME NEW n \in Bad, \A k \in Bad : n <= k PROVE FALSE
    <2>1. n # 0
      <3>1. 0 \in Bounds(0)
        BY <1>2
      <3> QED
        BY <3>1
    <2>2. n - 1 \in Nat /\ ~(n <= n - 1)
      BY <2>1
    <2>3. PICK m \in Nat : \A i \in 1..Len(s) : i <= n - 1 => -m <= s[i] /\ s[i] <= m
      BY <1>3, <2>2
    <2>4. PICK k \in Nat : m <= k /\ (n \in 1..Len(s) => -k <= s[n] /\ s[n] <= k)
      <3>1. CASE n \notin 1..Len(s)
        BY <3>1
      <3>2. CASE n \in 1..Len(s)
        <4>1. s[n] \in Int
          BY <1>2, <3>2
        <4>2. CASE s[n] >= 0
          <5>1. m + s[n] \in Nat /\ m <= m + s[n] /\ -(m + s[n]) <= s[n] /\ s[n] <= m + s[n]
            BY <4>1, <4>2
          <5> QED
            BY <5>1
        <4>3. CASE s[n] < 0
          <5>1. m - s[n] \in Nat /\ m <= m - s[n] /\ -(m - s[n]) <= s[n] /\ s[n] <= m - s[n]
            BY <4>1, <4>3
          <5> QED
            BY <5>1
        <4> QED
          BY <4>1, <4>2, <4>3
      <3> QED
        BY <3>1, <3>2
    <2>5. k \in Bounds(n)
      <3>1. ASSUME NEW i \in 1..Len(s), i <= n PROVE -k <= s[i] /\ s[i] <= k
        <4>1. s[i] \in Int /\ i \in Int
          BY <1>2
        <4>2. CASE i = n
          BY <2>4, <4>2
        <4>3. CASE i # n
          <5>1. i <= n - 1
            BY <3>1, <4>1, <4>3
          <5> QED
            BY <2>3, <2>4, <4>1, <5>1
        <4> QED
          BY <4>2, <4>3
      <3> QED
        BY <3>1
    <2> QED
      BY <2>5
  <1>4. Bad = {}
    <2> HIDE DEF Bad
    <2>1. Bad \subseteq Nat
      BY DEF Bad
    <2> QED
      BY <1>3, <2>1, LeastNatural, Zenon
  <1>5. PICK m \in Nat : \A i \in 1..Len(s) : i <= Len(s) => -m <= s[i] /\ s[i] <= m
    BY <1>2, <1>4
  <1>6. ASSUME NEW x \in S PROVE -m <= x /\ x <= m
    <2>1. PICK i \in 1..Len(s) : s[i] = x
      BY <1>1
    <2> QED
      BY <1>2, <1>5, <2>1
  <1> QED
    BY <1>6

\* Some of finitely many times have a first one among them ...
LEMMA FirstOf ==
    ASSUME NEW S, IsFiniteSet(S), S \subseteq Int, NEW T, T \subseteq S, T # {}
    PROVE  \E x \in T : \A y \in T : x <= y
  <1>1. PICK b \in Nat : \A x \in S : -b <= x /\ x <= b
    BY FiniteBounded
  <1> DEFINE K == {k \in Nat : k - b \in T}
  <1>2. \A x \in T : x \in Int /\ x + b \in K
    <2> SUFFICES ASSUME NEW x \in T PROVE x \in Int /\ x + b \in K
      OBVIOUS
    <2>1. x \in Int /\ -b <= x
      BY <1>1
    <2>2. x + b \in Nat /\ (x + b) - b = x
      BY <2>1
    <2> QED
      BY <2>1, <2>2
  <1>3. PICK k \in K : \A l \in K : k <= l
    <2>1. K # {}
      BY <1>2
    <2>2. K \subseteq Nat
      OBVIOUS
    <2> HIDE DEF K
    <2> QED
      BY <2>1, <2>2, LeastNatural, Zenon
  <1>4. ASSUME NEW y \in T PROVE k - b <= y
    <2>1. y \in Int /\ k <= y + b
      BY <1>2, <1>3
    <2> QED
      BY <2>1
  <1> QED
    BY <1>4

\* ... and a last one.
LEMMA LastOf ==
    ASSUME NEW S, IsFiniteSet(S), S \subseteq Int, NEW T, T \subseteq S, T # {}
    PROVE  \E x \in T : \A y \in T : y <= x
  <1>1. PICK b \in Nat : \A x \in S : -b <= x /\ x <= b
    BY FiniteBounded
  <1> DEFINE K == {k \in Nat : b - k \in T}
  <1>2. \A x \in T : x \in Int /\ b - x \in K
    <2> SUFFICES ASSUME NEW x \in T PROVE x \in Int /\ b - x \in K
      OBVIOUS
    <2>1. x \in Int /\ x <= b
      BY <1>1
    <2>2. b - x \in Nat /\ b - (b - x) = x
      BY <2>1
    <2> QED
      BY <2>1, <2>2
  <1>3. PICK k \in K : \A l \in K : k <= l
    <2>1. K # {}
      BY <1>2
    <2>2. K \subseteq Nat
      OBVIOUS
    <2> HIDE DEF K
    <2> QED
      BY <2>1, <2>2, LeastNatural, Zenon
  <1>4. ASSUME NEW y \in T PROVE y <= b - k
    <2>1. y \in Int /\ k <= b - y
      BY <1>2, <1>3
    <2> QED
      BY <2>1
  <1> QED
    BY <1>4

-----------------------------------------------------------------------------
(* Days and weeks. *)

LEMMA DayContains ==
    ASSUME NEW t \in Int
    PROVE  /\ Day(t) \in Int
           /\ AbsDay(t) <= t /\ t < AbsDay(t) + DaySeconds
  BY SMT DEF AbsDay, Day, DaySeconds

LEMMA WeekdayRange ==
    ASSUME NEW t \in Int
    PROVE  Weekday(t) \in 0 .. 6
  BY SMT DEF Weekday, Day, DaySeconds

\* The day a week starts with, counted from the epoch, is a Sunday.
LEMMA WeekStartsOnSunday ==
    ASSUME NEW t \in Int
    PROVE  \E n \in Int : /\ AbsWeek(t) = (7 * n - 4) * DaySeconds
                          /\ 7 * n - 4 <= Day(t) /\ Day(t) < 7 * n + 3
  <1>1. Day(t) \in Int /\ Weekday(t) = (Day(t) + 4) % 7
    BY DayContains DEF Weekday
  <1> DEFINE d == Day(t)
             n == (d + 4) \div 7
  <1>2. n \in Int /\ d + 4 = 7 * n + Weekday(t) /\ Weekday(t) \in 0 .. 6
    <2> HIDE DEF d
    <2>1. d \in Int /\ Weekday(t) = (d + 4) % 7
      BY <1>1 DEF d
    <2> QED
      BY <2>1, SMT
  <1>3. AbsWeek(t) = d * DaySeconds - Weekday(t) * DaySeconds
    BY DEF AbsWeek, AbsDay
  <1>4. AbsWeek(t) = (7 * n - 4) * DaySeconds
    <2> HIDE DEF n, d
    <2>1. d \in Int
      BY <1>1 DEF d
    <2> QED
      BY <1>2, <1>3, <2>1, SMT DEF DaySeconds
  <1> HIDE DEF n
  <1> QED
    BY <1>1, <1>2, <1>4, SMT

\* A multiple of a day is the start of that day.
LEMMA StartOfDay ==
    ASSUME NEW d \in Int
    PROVE  Day(d * DaySeconds) = d /\ Day(d * DaySeconds - 1) = d - 1
  BY SMT DEF Day, DaySeconds

\* A Sunday is the start of its week, and the second before is of the last.
LEMMA SundayStartsWeek ==
    ASSUME NEW n \in Int
    PROVE  /\ AbsWeek((7 * n - 4) * DaySeconds) = (7 * n - 4) * DaySeconds
           /\ AbsWeek((7 * n - 4) * DaySeconds - 1) = (7 * (n - 1) - 4) * DaySeconds
  <1> DEFINE sunday == 7 * n - 4
  <1>1. sunday \in Int
    OBVIOUS
  <1>2. Day(sunday * DaySeconds) = sunday /\ Day(sunday * DaySeconds - 1) = sunday - 1
    BY <1>1, StartOfDay
  <1>3. (sunday + 4) % 7 = 0 /\ (sunday - 1 + 4) % 7 = 6
    BY SMT
  <1>4. AbsWeek(sunday * DaySeconds) = sunday * DaySeconds - 0 * DaySeconds
    BY <1>2, <1>3 DEF AbsWeek, AbsDay, Weekday
  <1>5. AbsWeek(sunday * DaySeconds - 1) = (sunday - 1) * DaySeconds - 6 * DaySeconds
    BY <1>2, <1>3 DEF AbsWeek, AbsDay, Weekday
  <1> QED
    BY <1>4, <1>5, SMT DEF DaySeconds

(***************************************************************************)
(* AbsWeek: every time lies in the week that AbsWeek names, and that week     *)
(* is its own name, so rows are in one week exactly if AbsWeek is the same.   *)
(***************************************************************************)
THEOREM WeekContains ==
    ASSUME NEW t \in Int
    PROVE  /\ AbsWeek(t) <= t /\ t < AbsWeek(t) + WeekSeconds
           /\ AbsWeek(AbsWeek(t)) = AbsWeek(t)
  <1>1. PICK n \in Int : /\ AbsWeek(t) = (7 * n - 4) * DaySeconds
                         /\ 7 * n - 4 <= Day(t) /\ Day(t) < 7 * n + 3
    BY WeekStartsOnSunday
  <1>2. Day(t) \in Int /\ Day(t) * DaySeconds <= t /\ t < (Day(t) + 1) * DaySeconds
    BY DayContains, SMT DEF AbsDay, DaySeconds
  <1>3. AbsWeek(t) <= t /\ t < AbsWeek(t) + WeekSeconds
    BY <1>1, <1>2, SMT DEF DaySeconds, WeekSeconds
  <1> QED
    BY <1>1, <1>3, SundayStartsWeek

(***************************************************************************)
(* The test of flushWeekData, lastWeek = AbsWeek(currentWeek - 1): it says of *)
(* the week that begins one week before, and of no other.                    *)
(***************************************************************************)
THEOREM WeekBefore ==
    ASSUME NEW t \in Int
    PROVE  AbsWeek(AbsWeek(t) - 1) = AbsWeek(t) - WeekSeconds
  <1>1. PICK n \in Int : AbsWeek(t) = (7 * n - 4) * DaySeconds
    BY WeekStartsOnSunday
  <1> QED
    BY <1>1, SundayStartsWeek, SMT DEF DaySeconds, WeekSeconds

LEMMA WeekNames ==
    ASSUME NEW t \in Int, NEW s \in Int
    PROVE  /\ AbsWeek(t) \in Int /\ AbsWeek(t) <= t
           /\ AbsWeek(t) <= s /\ s <= t => AbsWeek(s) = AbsWeek(t)
  <1>0. DaySeconds = 86400
    BY SMT DEF DaySeconds
  <1>1. PICK n \in Int : AbsWeek(t) = (7 * n - 4) * DaySeconds
    BY WeekStartsOnSunday
  <1>2. PICK m \in Int : AbsWeek(s) = (7 * m - 4) * DaySeconds
    BY WeekStartsOnSunday
  <1>3. /\ (7 * n - 4) * 86400 <= t /\ t < (7 * n - 4) * 86400 + 604800
        /\ (7 * m - 4) * 86400 <= s /\ s < (7 * m - 4) * 86400 + 604800
    BY <1>0, <1>1, <1>2, WeekContains, SMT DEF WeekSeconds
  <1>4. ASSUME (7 * n - 4) * 86400 <= s, s <= t PROVE m = n
    BY <1>3, <1>4, SMT
  <1>5. (7 * n - 4) * 86400 \in Int
    BY SMT
  <1> QED
    BY <1>0, <1>1, <1>2, <1>3, <1>4, <1>5, SMT


-----------------------------------------------------------------------------
(* Days, months, years and decades. *)

\* The leap days before a year, to within two of the average.
LEMMA LeapDaysNear ==
    ASSUME NEW y \in Int
    PROVE  /\ LeapDays(y) \in Int
           /\ 10000 * LeapDays(y) <= 2425 * (y - 1) + 9900
           /\ 2425 * (y - 1) - 17475 <= 10000 * LeapDays(y)
  <1> DEFINE n == y - 1
             a == n \div 4
             b == n \div 100
             c == n \div 400
  <1>1. n \in Int
    OBVIOUS
  <1>2. a \in Int /\ 4 * a <= n /\ n <= 4 * a + 3
    BY <1>1, SMT
  <1>3. b \in Int /\ 100 * b <= n /\ n <= 100 * b + 99
    BY <1>1, SMT
  <1>4. c \in Int /\ 400 * c <= n /\ n <= 400 * c + 399
    BY <1>1, SMT
  <1>5. LeapDays(y) = a - b + c
    BY DEF LeapDays
  <1> HIDE DEF a, b, c
  <1> QED
    BY <1>1, <1>2, <1>3, <1>4, <1>5, SMT

LEMMA Epoch == LeapDays(1970) = 477
  BY SMT DEF LeapDays

\* Years are longer than a week.
LEMMA YearsApart ==
    ASSUME NEW y \in Int, NEW z \in Int, y < z
    PROVE  YearStart(y) + WeekSeconds <= YearStart(z)
  <1>1. LeapDays(y) \in Int /\ LeapDays(z) \in Int
    BY LeapDaysNear
  <1>2. LeapDays(y) - LeapDays(z) < 3 + 1
    <2>1. /\ 10000 * LeapDays(y) <= 2425 * (y - 1) + 9900
          /\ 2425 * (z - 1) - 17475 <= 10000 * LeapDays(z)
      BY LeapDaysNear
    <2> HIDE DEF LeapDays
    <2> QED
      BY <1>1, <2>1, SMT
  <1>3. YearStart(y) = ((y - 1970) * 365 + LeapDays(y) - 477) * 86400
    BY Epoch DEF YearStart, DaySeconds
  <1>4. YearStart(z) = ((z - 1970) * 365 + LeapDays(z) - 477) * 86400
    BY Epoch DEF YearStart, DaySeconds
  <1> QED
    BY <1>1, <1>2, <1>3, <1>4, SMT DEF WeekSeconds, DaySeconds

\* Years follow one another.
LEMMA YearsGrow ==
    ASSUME NEW y \in Int, NEW z \in Int, y < z
    PROVE  /\ YearStart(y) \in Int /\ YearStart(z) \in Int
           /\ YearStart(y) < YearStart(z)
  <1>1. LeapDays(y) \in Int /\ LeapDays(z) \in Int
    BY LeapDaysNear
  <1>2. YearStart(y) \in Int /\ YearStart(z) \in Int
    BY <1>1, Epoch, SMT DEF YearStart, DaySeconds
  <1>3. YearStart(y) + WeekSeconds <= YearStart(z)
    BY YearsApart
  <1> QED
    BY <1>2, <1>3, SMT DEF WeekSeconds, DaySeconds

\* A year begins with a second.
LEMMA YearInt == \A y \in Int : YearStart(y) \in Int
  <1> SUFFICES ASSUME NEW y \in Int PROVE YearStart(y) \in Int
    OBVIOUS
  <1>1. y < y + 1 /\ y + 1 \in Int
    OBVIOUS
  <1> QED
    BY <1>1, YearsGrow

\* Every time lies in one of the three years that Year looks at.
LEMMA YearGuessed ==
    ASSUME NEW t \in Int
    PROVE  \E guess \in Int :
               /\ Year(t) = CHOOSE y \in guess - 1 .. guess + 1 : YearStart(y) <= t /\ t < YearStart(y + 1)
               /\ YearStart(guess - 1) <= t /\ t < YearStart(guess + 2)
  <1> DEFINE q == t \div 31556952
  <1>1. q \in Int /\ 31556952 * q <= t /\ t <= 31556952 * q + 31556951
    BY SMT
  <1> HIDE DEF q
  <1>2. PICK y \in Int, z \in Int : y = 1969 + q /\ z = 1972 + q
    BY <1>1
  <1>3. /\ LeapDays(y) \in Int /\ LeapDays(z) \in Int
        /\ 10000 * LeapDays(y) <= 2425 * (y - 1) + 9900
        /\ 2425 * (z - 1) - 17475 <= 10000 * LeapDays(z)
        /\ YearStart(y) = ((y - 1970) * 365 + LeapDays(y) - 477) * 86400
        /\ YearStart(z) = ((z - 1970) * 365 + LeapDays(z) - 477) * 86400
    BY LeapDaysNear, Epoch, SMT DEF YearStart, DaySeconds
  <1>4. YearStart(y) <= t
    BY <1>1, <1>2, <1>3, SMT
  <1>5. t < YearStart(z)
    BY <1>1, <1>2, <1>3, SMT
  <1>6. PICK g \in Int : g = 1970 + q
    BY <1>1, SMT
  <1>7. g - 1 = y /\ g + 2 = z
    BY <1>1, <1>2, <1>6, SMT
  <1>8. Year(t) = CHOOSE x \in g - 1 .. g + 1 : YearStart(x) <= t /\ t < YearStart(x + 1)
    BY <1>6, SMT DEF q, Year
  <1>9. YearStart(g - 1) <= t /\ t < YearStart(g + 2)
    BY <1>4, <1>5, <1>7
  <1> QED
    BY <1>8, <1>9, Zenon

\* The year a time lies in, and no other, is its Year.
LEMMA YearIs ==
    ASSUME NEW t \in Int, NEW y \in Int, YearStart(y) <= t, t < YearStart(y + 1)
    PROVE  Year(t) = y
  <1> DEFINE Good(z) == YearStart(z) <= t /\ t < YearStart(z + 1)
  <1>1. PICK guess \in Int :
            /\ Year(t) = CHOOSE z \in guess - 1 .. guess + 1 : Good(z)
            /\ YearStart(guess - 1) <= t /\ t < YearStart(guess + 2)
    BY YearGuessed
  <1>2. ASSUME NEW z \in Int, Good(z) PROVE z = y
    <2>1. ~(z < y)
      <3> SUFFICES ASSUME z < y PROVE FALSE
        OBVIOUS
      <3>1. z + 1 = y \/ z + 1 < y
        OBVIOUS
      <3>2. YearStart(z + 1) <= YearStart(y)
        BY YearInt, <3>1, YearsGrow
      <3>3. z + 1 \in Int
        OBVIOUS
      <3> QED
        BY YearInt, <1>2, <3>2, <3>3
    <2>2. ~(y < z)
      <3> SUFFICES ASSUME y < z PROVE FALSE
        OBVIOUS
      <3>1. y + 1 = z \/ y + 1 < z
        OBVIOUS
      <3>2. YearStart(y + 1) <= YearStart(z)
        BY YearInt, <3>1, YearsGrow
      <3>3. y + 1 \in Int
        OBVIOUS
      <3> QED
        BY YearInt, <1>2, <3>2, <3>3
    <2> QED
      BY <2>1, <2>2
  <1>3. y \in guess - 1 .. guess + 1
    <2>1. guess - 1 \in Int /\ guess + 2 \in Int /\ y + 1 \in Int
      BY <1>1
    <2>2. ~(y + 1 <= guess - 1)
      <3> SUFFICES ASSUME y + 1 <= guess - 1 PROVE FALSE
        OBVIOUS
      <3>1. YearStart(y + 1) <= YearStart(guess - 1)
        BY YearInt, <2>1, YearsGrow
      <3> QED
        BY YearInt, <2>1, <3>1, <1>1
    <2>3. ~(guess + 2 <= y)
      <3> SUFFICES ASSUME guess + 2 <= y PROVE FALSE
        OBVIOUS
      <3>1. YearStart(guess + 2) <= YearStart(y)
        BY YearInt, <2>1, YearsGrow
      <3> QED
        BY YearInt, <2>1, <3>1, <1>1
    <2> QED
      BY <1>1, <2>2, <2>3
  <1>4. Good(y)
    OBVIOUS
  <1>6. \A z \in guess - 1 .. guess + 1 : z \in Int
    BY <1>1
  <1> HIDE DEF Good
  <1>7. (CHOOSE z \in guess - 1 .. guess + 1 : Good(z)) = y
    BY <1>2, <1>3, <1>4, <1>6
  <1> QED
    BY <1>1, <1>7

\* The year a time lies in.
LEMMA YearContains ==
    ASSUME NEW t \in Int
    PROVE  /\ Year(t) \in Int
           /\ YearStart(Year(t)) <= t /\ t < YearStart(Year(t) + 1)
  <1>1. PICK g \in Int : YearStart(g - 1) <= t /\ t < YearStart(g + 2)
    BY YearGuessed
  <1>2. \E y \in Int : YearStart(y) <= t /\ t < YearStart(y + 1)
    <2>1. CASE t < YearStart(g)
      <3>1. g - 1 \in Int /\ (g - 1) + 1 = g
        OBVIOUS
      <3> QED
        BY <1>1, <2>1, <3>1
    <2>2. CASE YearStart(g) <= t /\ t < YearStart(g + 1)
      BY <2>2
    <2>3. CASE YearStart(g + 1) <= t
      <3>1. g + 1 \in Int /\ (g + 1) + 1 = g + 2
        OBVIOUS
      <3> QED
        BY <1>1, <2>3, <3>1
    <2>4. YearStart(g) \in Int /\ YearStart(g + 1) \in Int
      BY YearInt
    <2> QED
      BY <2>1, <2>2, <2>3, <2>4
  <1> QED
    BY <1>2, YearIs

\* A time of the same year as an earlier one is in a year not before it.
LEMMA YearsOrdered ==
    ASSUME NEW s \in Int, NEW t \in Int, s <= t
    PROVE  Year(s) <= Year(t)
  <1>1. /\ Year(s) \in Int /\ YearStart(Year(s)) <= s
        /\ Year(t) \in Int /\ t < YearStart(Year(t) + 1)
    BY YearContains
  <1>2. PICK y \in Int, z \in Int : y = Year(s) /\ z = Year(t) + 1
    BY <1>1
  <1>3. YearStart(y) \in Int /\ YearStart(z) \in Int /\ YearStart(y) < YearStart(z)
    BY <1>1, <1>2, YearInt
  <1>4. ~(z <= y)
    BY <1>3, YearsGrow
  <1> QED
    BY <1>1, <1>2, <1>4

\* A year is named by its start, and every time of it by the same.
LEMMA YearNames ==
    ASSUME NEW t \in Int, NEW s \in Int
    PROVE  /\ AbsYear(t) \in Int /\ AbsYear(t) <= t
           /\ AbsYear(t) <= s /\ s <= t => AbsYear(s) = AbsYear(t)
  <1>1. /\ Year(t) \in Int /\ YearStart(Year(t)) \in Int
        /\ YearStart(Year(t)) <= t /\ t < YearStart(Year(t) + 1)
    BY YearContains, YearInt
  <1>2. ASSUME YearStart(Year(t)) <= s, s <= t PROVE Year(s) = Year(t)
    <2>1. Year(t) + 1 \in Int /\ YearStart(Year(t) + 1) \in Int
      BY <1>1, YearInt
    <2>2. s < YearStart(Year(t) + 1)
      BY <1>1, <1>2, <2>1
    <2> QED
      BY <1>1, <1>2, <2>2, YearIs
  <1> QED
    BY <1>1, <1>2 DEF AbsYear

\* A decade begins with the year whose number ends in 0.
LEMMA DecadeNames ==
    ASSUME NEW t \in Int, NEW s \in Int
    PROVE  /\ AbsDecade(t) \in Int /\ AbsDecade(t) <= t
           /\ AbsDecade(t) <= s /\ s <= t => AbsDecade(s) = AbsDecade(t)
  <1>0. PICK y \in Int : y = Year(t)
    BY YearContains
  <1>1. PICK d \in Int : d = y - (y % 10)
    BY SMT
  <1>2. d <= y /\ y <= d + 9 /\ d % 10 = 0
    BY <1>1, SMT
  <1>3. YearStart(y) <= t /\ YearStart(y) \in Int /\ YearStart(d) \in Int
    BY <1>0, YearContains, YearInt
  <1>4. YearStart(d) <= YearStart(y)
    BY <1>2, <1>3, YearsGrow
  <1>5. AbsDecade(t) = YearStart(d)
    BY <1>0, <1>1 DEF AbsDecade
  <1>6. ASSUME YearStart(d) <= s, s <= t PROVE AbsDecade(s) = YearStart(d)
    <2>1. PICK z \in Int : z = Year(s)
      BY YearContains
    <2>2. z <= y
      BY <1>0, <1>6, <2>1, YearsOrdered
    <2>3. d <= z
      <3>1. s < YearStart(z + 1) /\ z + 1 \in Int /\ YearStart(z + 1) \in Int
        BY <2>1, YearContains, YearInt
      <3>2. YearStart(d) < YearStart(z + 1)
        BY <1>3, <1>6, <3>1
      <3>3. ~(z + 1 <= d)
        BY <1>3, <3>1, <3>2, YearsGrow
      <3> QED
        BY <3>1, <3>3
    <2>4. z - (z % 10) = d
      BY <1>2, <2>2, <2>3, SMT
    <2> QED
      BY <2>1, <2>4 DEF AbsDecade
  <1> QED
    BY <1>3, <1>4, <1>5, <1>6

\* The months of a year begin one after the other, the first with the year.
LEMMA MonthsGrow ==
    ASSUME NEW y \in Int
    PROVE  /\ MonthStart(y, 1) = YearStart(y)
           /\ \A m \in 1 .. 12 : MonthStart(y, m) \in Int /\ YearStart(y) <= MonthStart(y, m)
           /\ \A m \in 1 .. 12, n \in 1 .. 12 : m < n => MonthStart(y, m) < MonthStart(y, n)
  <1>1. PICK leap \in {0, 1} :
            \A m \in 1 .. 12 :
                MonthStart(y, m) = YearStart(y) + (DaysBefore[m] + IF m > 2 THEN leap ELSE 0) * 86400
    <2>1. CASE IsLeap(y)
      <3>1. \A m \in 1 .. 12 :
                MonthStart(y, m) = YearStart(y) + (DaysBefore[m] + IF m > 2 THEN 1 ELSE 0) * 86400
        BY <2>1, SMT DEF MonthStart, DaySeconds
      <3> QED
        BY <3>1, SMT
    <2>2. CASE ~IsLeap(y)
      <3>1. \A m \in 1 .. 12 :
                MonthStart(y, m) = YearStart(y) + (DaysBefore[m] + IF m > 2 THEN 0 ELSE 0) * 86400
        BY <2>2, SMT DEF MonthStart, DaySeconds
      <3> QED
        BY <3>1, SMT
    <2> QED
      BY <2>1, <2>2, SMT
  <1>2. YearStart(y) \in Int
    BY YearInt
  <1>3. /\ DaysBefore[1] = 0 /\ DaysBefore[2] = 31 /\ DaysBefore[3] = 59 /\ DaysBefore[4] = 90
        /\ DaysBefore[5] = 120 /\ DaysBefore[6] = 151 /\ DaysBefore[7] = 181 /\ DaysBefore[8] = 212
        /\ DaysBefore[9] = 243 /\ DaysBefore[10] = 273 /\ DaysBefore[11] = 304 /\ DaysBefore[12] = 334
    BY SMT DEF DaysBefore
  <1>4. \A m \in 1 .. 12 : DaysBefore[m] \in Nat
    BY <1>3, SMT
  <1>5. \A m \in 1 .. 12, n \in 1 .. 12 : m < n => DaysBefore[m] < DaysBefore[n]
    BY <1>3, SMT
  <1>6. MonthStart(y, 1) = YearStart(y)
    BY <1>1, <1>2, <1>3, SMT
  <1>7. ASSUME NEW m \in 1 .. 12 PROVE MonthStart(y, m) \in Int /\ YearStart(y) <= MonthStart(y, m)
    BY <1>1, <1>2, <1>4, SMT
  <1>8. ASSUME NEW m \in 1 .. 12, NEW n \in 1 .. 12, m < n PROVE MonthStart(y, m) < MonthStart(y, n)
    <2>1. /\ MonthStart(y, m) = YearStart(y) + (DaysBefore[m] + IF m > 2 THEN leap ELSE 0) * 86400
          /\ MonthStart(y, n) = YearStart(y) + (DaysBefore[n] + IF n > 2 THEN leap ELSE 0) * 86400
      BY <1>1, SMT
    <2>2. DaysBefore[m] \in Nat /\ DaysBefore[n] \in Nat /\ DaysBefore[m] < DaysBefore[n]
      BY <1>4, <1>5, <1>8, SMT
    <2> QED
      BY <1>2, <1>8, <2>1, <2>2, SMT
  <1> QED
    BY <1>6, <1>7, <1>8, Zenon

\* A month is named by its start, and every time of it by the same.
LEMMA MonthNames ==
    ASSUME NEW t \in Int, NEW s \in Int
    PROVE  /\ AbsMonth(t) \in Int /\ AbsMonth(t) <= t
           /\ AbsMonth(t) <= s /\ s <= t => AbsMonth(s) = AbsMonth(t)
  <1> DEFINE In(u, y, m) == MonthStart(y, m) <= u /\ (m < 12 => u < MonthStart(y, m + 1))
  <1>1. PICK y \in Int : y = Year(t) /\ YearStart(y) <= t /\ t < YearStart(y + 1) /\ YearStart(y) \in Int
    BY YearContains, YearInt
  <1>2. \A m \in 1 .. 12 : MonthStart(y, m) \in Int /\ YearStart(y) <= MonthStart(y, m)
    BY MonthsGrow
  <1>3. ASSUME NEW u \in Int, NEW m \in 1 .. 12, NEW n \in 1 .. 12, In(u, y, m), In(u, y, n)
        PROVE  m = n
    <2>1. ~(m < n)
      <3> SUFFICES ASSUME m < n PROVE FALSE
        OBVIOUS
      <3>1. m + 1 \in 1 .. 12 /\ (m + 1 = n \/ m + 1 < n) /\ m < 12
        OBVIOUS
      <3>2. MonthStart(y, m + 1) <= MonthStart(y, n)
        <4>1. CASE m + 1 = n
          BY <1>2, <4>1
        <4>2. CASE m + 1 < n
          <5>1. \A i \in 1 .. 12, j \in 1 .. 12 : i < j => MonthStart(y, i) < MonthStart(y, j)
            BY MonthsGrow
          <5>2. PICK k \in 1 .. 12 : k = m + 1
            BY <3>1
          <5>3. MonthStart(y, k) < MonthStart(y, n)
            BY <4>2, <5>1, <5>2
          <5> QED
            BY <1>2, <5>2, <5>3
        <4> QED
          BY <3>1, <4>1, <4>2
      <3> QED
        BY <1>2, <1>3, <3>1, <3>2
    <2>2. ~(n < m)
      <3> SUFFICES ASSUME n < m PROVE FALSE
        OBVIOUS
      <3>1. n + 1 \in 1 .. 12 /\ (n + 1 = m \/ n + 1 < m) /\ n < 12
        OBVIOUS
      <3>2. MonthStart(y, n + 1) <= MonthStart(y, m)
        <4>1. CASE n + 1 = m
          BY <1>2, <4>1
        <4>2. CASE n + 1 < m
          <5>1. \A i \in 1 .. 12, j \in 1 .. 12 : i < j => MonthStart(y, i) < MonthStart(y, j)
            BY MonthsGrow
          <5>2. PICK k \in 1 .. 12 : k = n + 1
            BY <3>1
          <5>3. MonthStart(y, k) < MonthStart(y, m)
            BY <4>2, <5>1, <5>2
          <5> QED
            BY <1>2, <5>2, <5>3
        <4> QED
          BY <3>1, <4>1, <4>2
      <3> QED
        BY <1>2, <1>3, <3>1, <3>2
    <2> QED
      BY <2>1, <2>2
  <1>4. \E m \in 1 .. 12 : In(t, y, m)
    <2>1. MonthStart(y, 1) <= t
      BY <1>1, MonthsGrow
    <2>2. \A m \in 1 .. 11 : MonthStart(y, m) <= t => In(t, y, m) \/ MonthStart(y, m + 1) <= t
      <3> SUFFICES ASSUME NEW m \in 1 .. 11, MonthStart(y, m) <= t, ~(MonthStart(y, m + 1) <= t)
                   PROVE  In(t, y, m)
        BY Zenon
      <3>1. m + 1 \in 1 .. 12 /\ MonthStart(y, m + 1) \in Int
        BY <1>2
      <3> QED
        BY <3>1
    <2>3. MonthStart(y, 12) <= t => In(t, y, 12)
      OBVIOUS
    <2> HIDE DEF In
    <2> QED
      BY <2>1, <2>2, <2>3, SMT
  <1>5. PICK m \in 1 .. 12 : In(t, y, m)
    BY <1>4
  <1>6. ASSUME NEW u \in Int, Year(u) = y, In(u, y, m) PROVE AbsMonth(u) = MonthStart(y, m)
    <2>1. AbsMonth(u) = MonthStart(y, CHOOSE n \in 1 .. 12 : In(u, y, n))
      BY <1>6, Zenon DEF AbsMonth
    <2>2. (CHOOSE n \in 1 .. 12 : In(u, y, n)) = m
      <3> HIDE DEF In
      <3> QED
        BY <1>3, <1>6
    <2> QED
      BY <2>1, <2>2, Zenon
  <1>7. AbsMonth(t) = MonthStart(y, m)
    BY <1>1, <1>5, <1>6
  <1>8. ASSUME MonthStart(y, m) <= s, s <= t PROVE AbsMonth(s) = MonthStart(y, m)
    <2>1. YearStart(y) <= s /\ y + 1 \in Int /\ YearStart(y + 1) \in Int
      BY <1>1, <1>2, <1>8, YearInt
    <2>2. Year(s) = y
      <3>1. s < YearStart(y + 1)
        BY <1>1, <1>8, <2>1
      <3> QED
        BY <2>1, <3>1, YearIs
    <2>3. In(s, y, m)
      <3>1. m < 12 => m + 1 \in 1 .. 12
        OBVIOUS
      <3> QED
        BY <1>2, <1>5, <1>8, <3>1
    <2> QED
      BY <1>6, <2>2, <2>3
  <1> QED
    BY <1>2, <1>5, <1>7, <1>8

\* So is a day.
LEMMA DayNames ==
    ASSUME NEW t \in Int, NEW s \in Int
    PROVE  /\ AbsDay(t) \in Int /\ AbsDay(t) <= t
           /\ AbsDay(t) <= s /\ s <= t => AbsDay(s) = AbsDay(t)
  <1>1. PICK d \in Int, e \in Int : d = Day(t) /\ e = Day(s)
    BY DayContains, Zenon
  <1>2. AbsDay(t) = d * 86400 /\ AbsDay(s) = e * 86400
    BY <1>1, SMT DEF AbsDay, DaySeconds
  <1>3. d * 86400 <= t /\ t < d * 86400 + 86400 /\ e * 86400 <= s /\ s < e * 86400 + 86400
    BY <1>2, DayContains, SMT DEF DaySeconds
  <1>4. ASSUME d * 86400 <= s, s <= t PROVE e = d
    BY <1>3, <1>4, SMT
  <1>5. d * 86400 \in Int
    BY SMT
  <1> QED
    BY <1>2, <1>3, <1>4, <1>5, SMT

-----------------------------------------------------------------------------
(* The periods of the statistics. *)

\* A period, and a part of one, is named by its start, and its times are those of an interval.
THEOREM PeriodNames ==
    ASSUME NEW kind \in Kinds, NEW t \in Int, NEW s \in Int
    PROVE  /\ AbsPeriod(kind, t) \in Int /\ AbsPeriod(kind, t) <= t
           /\ AbsPeriod(kind, t) <= s /\ s <= t => AbsPeriod(kind, s) = AbsPeriod(kind, t)
  <1>1. CASE kind = "week"
    BY <1>1, WeekNames, Zenon DEF AbsPeriod
  <1>2. CASE kind = "year"
    BY <1>2, YearNames, Zenon DEF AbsPeriod
  <1>3. CASE kind = "decade"
    BY <1>3, DecadeNames, Zenon DEF AbsPeriod
  <1> QED
    BY <1>1, <1>2, <1>3 DEF Kinds

\* They follow one another as times do, and a start is of the period it names.
LEMMA PeriodsOrdered ==
    ASSUME NEW kind \in Kinds, NEW s \in Int, NEW t \in Int
    PROVE  /\ s <= t => AbsPeriod(kind, s) <= AbsPeriod(kind, t)
           /\ AbsPeriod(kind, AbsPeriod(kind, t)) = AbsPeriod(kind, t)
  <1>1. /\ AbsPeriod(kind, t) \in Int /\ AbsPeriod(kind, t) <= t
        /\ AbsPeriod(kind, s) \in Int /\ AbsPeriod(kind, s) <= s
        /\ AbsPeriod(kind, t) <= s /\ s <= t => AbsPeriod(kind, s) = AbsPeriod(kind, t)
    BY PeriodNames
  <1>2. PICK p \in Int : p = AbsPeriod(kind, t)
    BY <1>1
  <1>3. AbsPeriod(kind, p) = p
    BY <1>1, <1>2, PeriodNames
  <1> QED
    BY <1>1, <1>2, <1>3

\* The year before.
LEMMA YearBefore ==
    ASSUME NEW y \in Int
    PROVE  Year(YearStart(y) - 1) = y - 1
  <1>1. /\ YearStart(y) \in Int /\ YearStart(y - 1) \in Int
        /\ YearStart(y - 1) + WeekSeconds <= YearStart(y)
    BY YearInt, YearsApart
  <1>2. y - 1 \in Int /\ (y - 1) + 1 = y /\ YearStart(y) - 1 \in Int
    BY <1>1
  <1>3. YearStart(y - 1) <= YearStart(y) - 1 /\ YearStart(y) - 1 < YearStart((y - 1) + 1)
    BY <1>1, <1>2 DEF WeekSeconds, DaySeconds
  <1> QED
    BY <1>2, <1>3, YearIs

\* The period before one begins at least a week before it.
LEMMA PeriodBefore ==
    ASSUME NEW kind \in Kinds, NEW t \in Int
    PROVE  AbsPeriod(kind, AbsPeriod(kind, t) - 1) + WeekSeconds <= AbsPeriod(kind, t)
  <1>1. CASE kind = "week"
    <2>1. AbsWeek(AbsWeek(t) - 1) = AbsWeek(t) - WeekSeconds /\ AbsWeek(t) \in Int
      BY WeekBefore, WeekNames
    <2>2. (AbsWeek(t) - WeekSeconds) + WeekSeconds = AbsWeek(t)
      BY <2>1 DEF WeekSeconds, DaySeconds
    <2> QED
      BY <1>1, <2>1, <2>2 DEF AbsPeriod
  <1>2. CASE kind = "year"
    <2>1. PICK y \in Int : y = Year(t)
      BY YearContains
    <2>2. Year(YearStart(y) - 1) = y - 1
      BY YearBefore
    <2>3. y - 1 < y /\ y - 1 \in Int
      OBVIOUS
    <2>4. YearStart(y - 1) + WeekSeconds <= YearStart(y)
      BY <2>3, YearsApart
    <2>5. AbsYear(t) = YearStart(y) /\ AbsYear(YearStart(y) - 1) = YearStart(y - 1)
      BY <2>1, <2>2 DEF AbsYear
    <2> QED
      BY <1>2, <2>4, <2>5, Zenon DEF AbsPeriod
  <1>3. CASE kind = "decade"
    <2>1. PICK y \in Int : y = Year(t)
      BY YearContains
    <2>2. PICK d \in Int : d = y - (y % 10)
      BY SMT
    <2>3. (d - 1) - ((d - 1) % 10) = d - 10
      BY <2>2, SMT
    <2>4. Year(YearStart(d) - 1) = d - 1
      BY YearBefore
    <2>5. YearStart(d - 10) + WeekSeconds <= YearStart(d)
      <3>1. d - 10 \in Int /\ d - 10 < d
        OBVIOUS
      <3> QED
        BY <3>1, YearsApart
    <2>6. AbsDecade(t) = YearStart(d)
      BY <2>1, <2>2 DEF AbsDecade
    <2>7. AbsDecade(YearStart(d) - 1) = YearStart(d - 10)
      BY <2>3, <2>4 DEF AbsDecade
    <2> QED
      BY <1>3, <2>5, <2>6, <2>7, Zenon DEF AbsPeriod
  <1> QED
    BY <1>1, <1>2, <1>3 DEF Kinds
=============================================================================
